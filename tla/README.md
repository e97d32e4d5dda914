# Verification of nsk_protocol

TLA+ models of the NSK master library (`comm_ctrl.c`, `fsm.c`, `message.c`,
`comm_protocol.c`, `hex_ascll.c`, `lib_comm.c`, `drv_socket.c`, `comm_table.c`)
and of the slave simulator at the other end of its line (`slave/NSK_Slave.py`),
TLC configurations that check them on small instances, and TLAPS proofs of the
safety properties for all parameters.

The library is the master of a half-duplex line. It sends one command at a time,
waits for the answer or for a timeout, and repeats. An application thread
submits commands and collects answers, a receive thread turns bytes into frames,
timers drive the cycle, and one control thread owns the state machine. The slave
is a program with a GUI: it loads tables of answers, a reader thread takes frames
from a TCP client or a serial port, and each answer gets a thread that waits and
sends.

## Inventory

| part | state | operations | interacts through |
|---|---|---|---|
| controller, `comm_ctrl.c` | `cur_cmd`, `period_cmd`, `single_cmd_queue` (6), `msg_queue` (16), two timers | `init`, `start`, `process`, `send_single_command`, `send_period_command`, `save_recv_data`, `get_recv_data`; handlers of 5 messages; 5 FSM actions; 2 timer callbacks | messages from every thread; FSM events; `send_func` |
| receive pool, `comm_ctrl.c:133-308` | 2 buffers; `idle_queue`, `recv_queue`, `ready_queue` of buffer indices | alloc, push, pop, free | receive thread -> control thread -> application |
| FSM engine, `fsm.c` | `state`, `event_queue` (4) | `fsm_send_event`, `fsm_poll`, `fsm_process_event` | polled by the control thread, sent to by the application too |
| messages, `message.c` | none of its own | queue wrappers, dispatch table | RTOS queue |
| frame codec, `comm_protocol.c`, `hex_ascll.c` | `protocol_decoder_t`, `protocol_encoder_t` | `decoder_process`, `set_callback`, `reset`, `encode` | callback into `save_recv_data`; called by `send_func` |
| glue, `lib_comm.c` | the two global objects | init and three loop bodies, one per thread | socket, codec, controller |
| socket, `drv_socket.c` | `fd`, `connected`, transmit queue | open, send, recv, enqueue, dequeue | the network |
| command table, `comm_table.c` | a constant table of 23 rows | six lookups | nobody: its caller at `comm_ctrl.c:593` is commented out. The slave's files list the same pairs |
| slave, configuration: `slave/NSK_Slave.py:76-320` | `commands`, `cmd_settings`, `cmd_entries`, the JSON files | choose a file, load, build the fields, edit, save | the fields are read by the reader threads |
| slave, line: `slave/NSK_Slave.py:355-785` | `connected_mode`, a `stop_event` per manager, `last_cmd_id`, `consecutive_count` | connect, disconnect, accept, read, parse, count, answer | GUI thread, reader threads, a thread per answer, the client |
| not built | - | `queue_pool.c` (an earlier pool), `usart/` (serial driver) | - |

The hard behaviour of the master is in the controller:

- **Interleaving.** Five parties act on it: control thread, receive thread,
  timer thread, the thread in `comm_ctrl_start`, the application. The state a
  handler tests (`comm_ctrl.c:587`) is acted on later, when `fsm_poll` takes the
  event; buffers are shared without a lock and protected only by who holds their
  index; `period_cmd` is read without the mutex its writer takes.
- **Loss.** Every put has timeout 0: a full message, event, single-command or
  pool queue drops what was to be put, usually without anyone looking at the result.
- **Order.** An answer may come after its command was given up; a timeout message
  may already be queued when the answer is processed.
- **Retry.** A timed-out single command is repeated without limit; the decrement
  of `retry_count` is commented out.

The hard behaviour of the slave is between its threads. A reader tests
`cmd_settings`, reads it again (`NSK_Slave.py:520`) and then the fields of the
entry, while the GUI thread clears the table for a reload and takes the fields
apart. The fields are tk variables, so the reader waits for the GUI thread; the
GUI thread joins the reader when the user disconnects. A reader that outlives the
join goes on, if the user connects again before it has looked at its
`stop_event`, and two readers then count in the same variables, take clients from
each other, and the old one closes the client the new one has accepted. What the
user types is in the field's variable at once, and sanitized only when the field
is left.

What makes each part correct, and where it is stated:

- controller: no event is lost, a wait always ends, an accepted answer ends a
  wait, single commands go out in order and are repeated until answered, an idle
  controller sends again (`CommCtrl`, `CommandService`);
- pool: each buffer has one owner, none gets lost, an accepted frame reaches the
  application unchanged, the pool refills (`RecvPoolUsers`);
- codec: exactly the well-formed frames of the stream are delivered, encoder and
  decoder fit, every call returns (`Decoder`);
- glue and socket: no byte of a frame is left out on the wire, the send loop
  returns, queued frames get their turn (`LibComm`);
- slave: an answer carries its own command's data, `start_after` is compared with
  the length of the run, answers fit the master's table and, once the field is
  left, its frames, a lone reader ends only for a reason and none blocks for ever
  (`Slave`).

## Modules

| module | stands for |
|---|---|
| `CmsisQueue` | external: an RTOS queue used with timeout 0 (`Put` into a full queue changes nothing) |
| `RecvPool` | the pool's state and one operator per step of a thread; no `Next` of its own |
| `RecvPoolUsers` | the pool closed into a system: three threads in any order, posts that may fail |
| `CommandService` | abstract: what the controller promises its application, a stop-and-wait queue |
| `CommCtrl` | the controller with FSM engine, message queue, timers, line, and `RecvPool` |
| `FrameCodec` | frame format, hexadecimal conversions, `Encode` |
| `Decoder` | the decoder's state machine and the loop of `decoder_process` |
| `LibComm` | the three loop bodies of `lib_comm.c` and the socket driver, with kernel and peer |
| `XorSum` | the checksum (apart, because `Bitwise` is recursive) |
| `CommTable` | the command table and its lookups, as functions |
| `SlaveConfig` | the slave's files, rows and fields, and the steps of its GUI thread on them; no `Next` of its own |
| `SlaveFiles` | the rows of the two configuration files that come with the slave |
| `Slave` | `SlaveConfig` with the line: connections, reader threads, answers, and the client |
| `RecvPool_proofs`, `RecvPoolUsers_proofs`, `CommCtrl_proofs`, `CommCtrlPool_proofs`, `LibComm_proofs`, `Decoder_proofs`, `Encoder_proofs`, `Slave_proofs` | theorems |
| `MC...` | the instances TLC runs on |

`CommCtrl` composes `RecvPool` by extending it: `Answer`, `SaveRecvPush` and
`SaveRecvPost` are the three stretches of `comm_ctrl_save_recv_data` between its
queue calls, `RecvData` contains `CtrlTake`, `GetRecvData` is `ReaderPop` or
`ReaderFree`. `CommCtrl` is shown to implement two abstractions, `CommandService`
and `RecvPoolUsers`, each by an `INSTANCE` with a refinement mapping. `Slave`
composes `SlaveConfig` and `CommTable` by extending them; it is the concrete other
end of the line that `CommCtrl` takes as any answer at any time.

### How state and actions correspond to the code

- `ctrl_pc` is the control thread's place in `comm_ctrl_process`: `"receive"`
  before `message_queue_receive`, `"poll"` inside `fsm_poll`. `Receive` is one
  message and its whole handler; `PollMatched` is one event that has a row in the
  transition table, with that row's action and the state update that follows it;
  `PollIgnored` an event with no row; `PollDone` the end of the loop. Other threads
  step in between, so START may arrive in the middle of a poll.
- A handler or FSM action is one step. It runs in the control thread and all it
  shares with others are queues and timers, each touched once, except
  `period_cmd`, whose unguarded read is `PeriodRead`: while `set_period_command`
  copies, the old value, the new one, or a mixture (`TornCmd`).
- `ActionError`, the rows ERROR and RESTART and the message
  `UPDATE_PERIOD_CMD` are in the code but nothing sends them; the events are in
  the model's table, and `OneEventPerPoll` says that they do not occur.
- A command's bytes are abstracted to its identity, and a frame to the command it
  answers. `line` counts the transmissions of each command that are neither
  answered nor lost; `Answer` takes one and enters `save_recv_data`.
- Time is abstracted: a running timer may fire at any moment. The timeout is
  20 ms and the period 50 ms, but threads may be delayed by any time and the
  messages of the timers queue, so no order of firings is excluded in general.
- `timeout_lost` and `posts_failed` are history: they record that a message was
  dropped, and no guard reads them.
- In `Decoder`, `MayFollow(stream, b)` says which bytes may come after which; it
  restricts what TLC tries and nothing in the proofs. The record `decoder` is `protocol_decoder_t` with `data` cut to
  `data_len`. `ProcessByte` is one round of the loop of `decoder_process`,
  `Step` the state machine: the five states' branches for `'@'` are the same, so
  they are one case; what leads to IDLE is another.
- In `LibComm`, `tx` is the send thread with the locals of `drv_socket_send`, and
  one call of `send()` is one step: `SendAccepts(n)`, `SendFails` or `SendKilled`.
  `total` is reduced modulo `SizeRange`, the number of values of `size_t`, because
  `send()`'s -1 is added to it as a `size_t`. `SendFunc` and `SendProcess` each
  make one queue call and are one step. `TxQueueInit` is the integrator's call of
  `drv_socket_tx_queue_init`; no program here makes it, so it need not come.
  `RecvFull` is a read of exactly 256 bytes, which `Decoder_full_buffer` shows not
  to return; other reads change nothing in this module. The kernel, the peer and
  SIGPIPE are external.
- The models meet at the frame: `CommCtrl`'s `Transmit` is the call whose other
  side is `SendFunc`, and what `LibComm` and `Decoder` do to a frame afterwards is
  in `CommCtrl` either `Answer` or `Lose`.

In the slave:

- A reader thread is a record: its manager (`of`), its place (`pc`), the command in
  its hand (`cmd`), the entry of `cmd_settings` it found (`cfg`), and what it found
  of the last command (`same`). `Recv` is a read and `process_received_data` to the
  first test of `cmd_settings`; `LookUp` the second look and the comparison with
  `last_cmd_id`; `CountRun` the update of the two globals; `Decide` the reading of
  the fields and the start of an answer's thread. The two globals are compared and
  written by the reader in two steps, because another reader may come in between.
- A byte is a token: the `'@'` with the command's digits, the `'*'` with the first
  digit of the checksum, and the second one. A read returns any number of tokens
  that have come, so frames arrive in parts and several at a time.
  `parse_protocol_frame` looks for the first `'@'` and the first `'*'` of one read,
  and so does `ParseFrame`. A frame whose checksum does not match is `Garbled`.
- `cfg = Live` says that the entry is still in the table. A reload clears the table
  but not the reader's reference; the entry's fields keep their last values, and
  `SettingsKept` gives the reader a copy of them.
- A text of hexadecimal digits is the command it was written for and its number of
  bytes: whose data is sent, and whether it fits, is what the properties are about.
  `raw` marks a text being typed: `TypeRespHex` puts any number of digits into the
  field, and `FocusOut`, a step of its own, is where `sanitize_hex_input` cuts it
  to whole bytes and to the row's length. In between a reader takes the text as it
  is. Another field or the list of files cannot be reached without leaving the
  field; a button can be pressed on some platforms, so `LoadConfigFile`,
  `SaveConfig` and connecting are possible while it is raw.
- `Decide` reads the fields in one step. The three `.get()` calls each wait for the
  GUI thread's event loop, and an edit may come between them; it would be one more
  edit before or after, since each field is used for one thing. A raw text of no
  digits may be empty, which is not answered, or have other characters, which is.
- A TCP reader that leaves its read loop (`ReadLoopBreaks`) still has
  `self.conn.close()` and `self.conn = None` to do, `CloseConn` and `ForgetConn`.
  They are about whatever is in `self.conn` then. Another reader may have accepted
  a client in between (`ClientConnects`), and it is that client which is closed, or
  forgotten. A serial reader just ends, and the port stays open.
- `doubled` and `mixed` are history, `acts`, `clicks` and `sends` are bounds. No
  guard reads the first two.

Every public operation begins by checking its pointers for NULL; callers in this
repository pass none, and those returns are left out. `comm_ctrl_save_recv_data`
also refuses lengths 0, 1 and over 32: such a frame is in the model one that the
line lost. Creating queues, timers and the mutex is assumed to succeed.

## Runs

| run | bounds | shows |
|---|---|---|
| `CommCtrl_core` | 2 single commands (symmetric), queue of 2, 1 buffer, 2 messages, 3 events, 2 starts | the type invariant, each part of the controller's invariant, and the two refinements `ImplementsService` and `ImplementsPoolUsers` |
| `CommCtrl_liveness` | 2 single commands and a queue of 2, then a period command besides the zeroed one, 2 messages, 2 events, fairness | `WaitEnds`, `IdleSends`, `PollReturns`; `SinglesSent`: a single command behind an unanswered one, or behind two, is sent itself; `PeriodUpdateSent`, `MixtureNotRepeated`, `ZeroCmdOnlyUntilSet`: a period command that was set is sent, a mixture read during the copy is not sent again, the zeroed one never |
| `RecvPoolUsers` | 3 buffers, 2 frames, fairness | ownership, notices, stability of accepted frames, refilling |
| `Decoder` | streams of up to 19 bytes over 7 byte values, put together as below, 4-byte buffer, calls of 1 or 2 bytes | delivery against the format, resynchronisation and round trip, termination |
| `LibComm` | 2 frames of 4 bytes, queue of 2, `size_t` of 8 values, fairness | order and completeness on the wire, progress of the send thread |
| `Slave` | excerpts of both JSON files and an absent third, 2 frames, 2 reader threads; a connection and 5 acts of the user, or 3 clicks and 3 acts; fairness | whose data is sent (`OwnAnswers`), agreement with the master's table and frames through typing, leaving the field, loading and saving (`AnswersSuitMaster`), what is counted (`RunCounted`), when a connection is given up (`LinkKept`), and that reader and GUI thread do not wait for each other for ever (`ReaderReturns`) |

Six runs check one claim of the repository each and find it violated:

| run | claim | what happens |
|---|---|---|
| `CommCtrl_stale_answer` | `AcceptedAnswerMatches` | a late answer is accepted for the command sent after |
| `CommCtrl_double_owner` | `CallerOwnsExclusively` | a failed post leaves a buffer with two owners |
| `Decoder_full_buffer` | `ProcessReturns` | a call of `IndexRange` bytes does not return |
| `Decoder_trailing_bytes` | `OkIfDecoded` | a call that decodes a frame and one byte more returns COMM_ERROR |
| `Decoder_reset_callback` | `CallbackKept` | a reset clears the callback |
| `LibComm_repeated_bytes` | `SendReturnsBytesSent` | an error of `send()` in a frame repeats a byte and makes the result too small |

**Why the bounds are enough.** The queues are shorter than in the code, never
longer, so that each fills up within a few steps; with two places the message
queue holds a timer's message and a notification at once, which is what the
stale-timeout, stale-answer and dropped-message behaviours need. Two single
commands tell order apart; three events are one more than two starts, as the
assumption `MaxStarts < EventQueueSize` asks. `MaxOnLine = 1`: a second unanswered
transmission of the same command is taken as lost, which still leaves an answer to a
repeated command that comes after its timeout. `MaxLine` bounds how many commands
have one: all of them in `CommCtrl_core`, so that answers of different commands are
on the line together, and one in `CommCtrl_liveness`, where a late answer to the
command before is still among the behaviours, but then the next one's transmission
is taken as lost. In `CommCtrl_liveness` the application also sets a period command
only when no single command is left, and submits no further one then
(`MCCommCtrlOneKind`); single commands meet the zeroed period command. Both single commands may
be submitted again and again, so that one waits behind the other, behind a repetition
of itself, or behind the period command, and the queue is full at times. The proofs
below do not depend on any of these values.

A stream of `Decoder` is any four bytes, or three pieces, each followed by
newlines or not: a whole frame (`@66*6A`, `@AA*6A`), one with a wrong checksum, one
with an odd digit (`@6*5C`), one that breaks off after its data, its `*` or its first
checksum digit, one that exceeds the buffer of four bytes, or a single byte. So there are
frames before and after a frame, broken ones before a whole one, and noise between
them, in calls that end anywhere. `EncodedFramesDecode` tries a complete frame from
every state reached. The passing run uses calls shorter than `IndexRange`,
`Decoder_full_buffer` exactly `IndexRange`, where the `uint8_t` index of
`comm_protocol.c:413` can never reach `len`.

In `Slave` the user who connects again does not type, and does less with the files
(`MCSlave`). Three clicks are a connect, a disconnect and a connect again, which is what
a second reader beside the first needs, and its two threads are all that can then be
alive; three acts choose a file and load it twice. With one connection there are five
acts: choosing and loading a file, typing 63 digits or none, and saving and loading
again, or choosing another file and saving by position. 63 digits are an odd number,
and more than two of the three rows allow, so that what `sanitize_hex_input` drops and
what it cuts are both seen. Two frames are
a run of two, a run broken, or one frame behind another in one read. The excerpts hold
a command of each kind: one whose file gives more bytes than `resp_data_len` (0x44),
the one that does not fit a frame of the master (0x90), and one the master's table
does not have (0x54).

`LibComm`'s four-byte frames can be accepted in parts, stepped back over several
times and finished; a `size_t` of eight values lies above a frame's length as the
assumption asks. `Decoder` stops at the bound of the stream and in the state
`"OVERRUN"`, and `LibComm` when the process is killed; `Slave` stops when its bounds
are spent and nothing is on the line. Deadlock is not checked in their runs; it is
checked in every other run.

**Fairness.** `WF(Control)`: the control thread loops on `comm_ctrl_process`
(`test/lib_comm/main.c`, `test/comm_ctrl/main.c`). `WF(TimeoutFires)`,
`WF(PeriodFires)`: a running timer fires. `WF(StartNotify)` and
`WF(SaveRecvPush \/ SaveRecvPost)`: a thread inside a non-blocking call gets
through it. `RecvPoolUsers` also assumes that the application keeps calling
`get_recv_data`, as `lib_comm_process` does on every round; `CommCtrl` assumes
nothing of the application, of the line or of the slave. `SinglesSent` has its
own premise, that answers keep being accepted, because without answers one single
command is repeated for ever. `Decoder`: a call that has begun keeps running.
`LibComm`: the send thread loops
(`test/lib_comm/main.c:21-39`); `SendReturns` and `FramesGetTheirTurn` carry the
premise that `send()` fails only finitely often, because the loop has no other
way out when it has stepped back. `Slave`: a reader that has a command in its hand
runs (`WF(LookUp \/ CountRun)`); the GUI thread finishes what it began
(`WF(CreateCommandUi)`, and `WF(DisconnectEnd)`, which is the timeout of the join);
and a reader that waits for a field gets it although the GUI thread is busy again
and again (`SF(Decide)`), because tk serves its event queue in order and a waiting
call is in it. Nothing is assumed of the user, of the client, or of a read: a
reader may wait for bytes for ever.

**Properties worth knowing.**
`WaitIsGuarded` and `WaitEnds` both carry the exception `timeout_lost`. It is
real: a timeout callback that finds 16 messages queued drops its message, the
one-shot timer is over, and only an answer can end the wait.
`NoticesMatchBuffers` says exactly how far the receive queue runs ahead of the
notifications: by the number of failed posts. So each failed post delays every
later frame by one notification, and after as many failures as there are buffers
`push_recv` fails for every frame, for good.
`BuffersPartitioned` and `AcceptedFrameStable` hold while no post has failed;
`CallerOwnsExclusively` is the claim without that premise, and is refuted.
`RetriesUnlimited` states what the code does: `retry_count` stays at 4, so every
timed-out single command is marked for repetition.
`ZeroCmdOnlyUntilSet` allows the zeroed command while an update is being copied
only if none was set before.
`MixtureNotRepeated`: `comm_ctrl_send_cmd` reads `period_cmd` without the mutex, so
a mixture of two commands may be sent, and this says that only a transmission
during the copy sends one: a timeout repeats a single command but makes the
controller read the period command again.
`SinglesSent` is stated for each single command by itself, while another one is the
current command: that one must first be answered, however often it is repeated.
`FramesDelivered` relates the decoder to the format, which `IsFrame` states without
a state machine: the callback gets a payload exactly when the bytes since the last
reset end with a frame. It is about each byte; what the header says of a call's
result (`OkIfDecoded`) and of the callback after a reset (`CallbackKept`) is not so.
`OwnAnswers` has the exception `mixed`: `on_save_config` writes the k-th field into
the k-th row of the selected file, whatever file the fields were made from.
`RunCounted` and `LinkKept` have the exception `doubled`, a reader started beside
another: from then on they say nothing, because the old reader may count in between
and may close the client of the new one.
`AnswersSuitMaster` speaks of the identifiers of every answer, and of the length of
those not taken from a field being typed into (`raw`), which may be odd or too
long. It has the exception DATA_GET (0x90), whose 32 bytes
make 33 with the identifier, against the 31 that a frame holds.

Every property of a passing run is also shown to be able to fail: the modules
contain variants of their definitions (`LoadKeepsTimeout`, `CtrlTakeLeaks`,
`ProcessByteNarrow`, ...), each with one plausible defect, and `PROJECT.json`
names the property that each one breaks.

## What is proved

For all sets of commands and all queue sizes that satisfy `CommCtrlAssumption`
and `RecvPoolAssumption`, all frame lengths and widths of `size_t` that satisfy
`LibCommAssumption`, all streams, calls, buffer sizes and checksum functions
(`DecoderAssumption`), and all configuration files, threads and frames
(`SlaveConfigAssumption`, `SlaveAssumption`):

| theorem | statement |
|---|---|
| `TypeCorrect` | `Spec => []TypeOK` |
| `CtrlInvariant` | `Spec => []CtrlInv` |
| `EventsAlwaysFit`, `WaitsAreGuarded`, `AnswersMeetWaits`, `RetriesAreUnlimited` | the four parts of it that matter to a user |
| `ServiceImplemented` | `Spec => Service!Spec` |
| `SinglesLeaveAnswered` | of the single commands not yet answered, one is only added behind the others, and only the oldest leaves, in the step that ends its own wait for an accepted answer |
| `ZeroCmdNotAfterSet` | the zeroed command is not sent once another was set |
| `MixtureSentOnce` | `MixtureNotRepeated`: a transmission that begins while no period command is being replaced sends no mixture |
| `PoolUsersImplemented` | every step of the controller is one of the pool's users, or none |
| `ControllerBuffersPartitioned`, `ControllerFramesStable` | in the controller each buffer has one owner, and no step writes one that waits for the application, while no post has failed |
| `PoolTypeCorrect`, `NoticesAlwaysMatch` | of `RecvPoolUsers` |
| `BuffersStayPartitioned`, `AcceptedFramesStable` | of `RecvPoolUsers`: ownership, and what follows for the frames |
| `LibTypeCorrect`, `NoByteLeftOut` | `TypeOK` and `NoGapOnWire` of `LibComm` |
| `DecoderTypeCorrect`, `ExactlyTheFrames` | `TypeOK` and `FramesDelivered` of `Decoder` |
| `EncodedFramesAlwaysDecode` | `EncodedFramesDecode` of `Decoder`, for payloads of any length the encoder accepts |
| `EncodedIsFrame` | what `Encode` yields is a frame (`IsFrame`), and its digits are those of the payload |
| `SlaveTypeCorrect`, `AnswersAreOwn`, `RunIsCounted`, `LinkIsKept`, `AnswersAlwaysSuit` | `TypeOK`, `OwnAnswers`, `RunCounted`, `LinkKept` and `AnswersSuitMaster` of `Slave` |
| | (`LinkIsKept` until a second reader is started beside a first; `AnswersAlwaysSuit` of the length of texts that are not being typed) |
| `ShippedFilesSuit` | each of the 39 rows of `ap3_cmd.json` and `x7_cmd.json` meets the hypothesis of `AnswersAlwaysSuit` |
| `TablePaired` | in `comm_table.c` the answer's identifier leads back to its command, with the same timeout and retries |

The assumptions of the controller are that the sets of commands are disjoint, that
queues have at least one place, and that `comm_ctrl_start` is called fewer times
than the event queue has places (the code: once, and four). The pool has at most
255 buffers, because an index is a `uint8_t` and 0xFF means none. Of a
configuration file it is assumed that it names each command once and that its rows
were written for their own commands.

Two theorems have a hypothesis of their own. `EncodedFramesAlwaysDecode` and
`EncodedIsFrame` suppose `ByteChecksum`: the checksum of bytes is a byte, which
the type `uint8_t` of `comm_protocol_cal_xor` says; the exclusive-or itself is
defined recursively in `Bitwise`, out of the prover's reach, and `MCDecoder` has TLC
evaluate `XorIsByte`, the same over short sequences. They are about the payloads
that `comm_protocol_encode` accepts (`PayloadsAssumption`). `AnswersAlwaysSuit`
supposes `FilesSuitMaster`: each row's identifier is the one the master's table
pairs with its command, if the table has the command, and its `resp_data_len` is
positive and fits a frame, except DATA_GET's. A user can select any file, so this cannot be had without
a hypothesis; `ShippedFilesSuit` proves it of the files of the repository.

**The argument.** None of the four invariants is inductive alone. `CtrlInv` adds
- `OneEventPerPoll`: a message's handler sends at most one event and the poll
  empties the queue before the next message is taken, so at most one queued event
  is not START. With it, `EventsFit` follows (START events are counted by
  `starts`), and `AnswerMeetsWait` follows too: no other event can be processed
  between the handler's test of the state and its RECV_RESP.
- `QuietBeforeStart`: before START is processed no timer runs and nothing a timer
  sends is queued, so `WAIT_RESP` is entered only after START has been processed.
- `CurrentCommandLoaded`: an awaited command has a type and is not marked timed
  out. The refinement needs it: the abstract queue `Todo` is the concrete one,
  behind the current command while that is a single command awaited or due for
  repetition, and a timeout must leave it there.

`CommCtrl_proofs` has one step per action and, where an action disturbs several
conjuncts, one step per conjunct. `ServiceImplemented` maps each action to a
step of `CommandService` or to a stutter: sending to `TransmitSingle` or
`TransmitPeriod`, the handler that queues `RECV_RESP` to `Accept`, the event's
transition to `Answered`, a timeout to `GiveUp`, submission to `Submit`. So a
single command leaves `todo` only after an answer was accepted for it, and a
wait that holds an accepted answer is never given up. `RecvPool_proofs` has the
lemmas about `Put` and `Tail` that these proofs cite.

Ownership of the buffers is a counting argument: the three queues and the three
threads' hands together hold as many indices as there are buffers, and each index
is somewhere, so none is anywhere twice. Every step moves one index from one place
to another; only a failed post, which frees what it also leaves in the receive
queue, adds one, and the theorems end there. `CommCtrlPool_proofs` maps the
controller to the pool's users, counting the notifications in its message queue, and
takes the ownership over. `AcceptedFramesStable` follows from it: the buffer being
written is not the one that waits for the application.

`LibComm_proofs` needs little more than `NoGapOnWire` itself, that the last result
is still zero inside the loop; its centre is `AddMinusOne`, what adding
`(size_t)-1` does.

`Decoder_proofs` relates decoder and stream in both directions. `DataIsStream`:
what is stored is what the stream ends with, so a payload that is delivered is a
frame's. `StreamIsData`: a stream that ends with the beginning of a frame has put
the decoder into the state for it, so no frame is missed. A `'@'` is neither a
digit nor a `'*'`, therefore at most one suffix of the stream is a frame, and
`LastPayload` is its payload. Nothing is asked of the checksum.

`Encoder_proofs` is about folds over a frame of any length. The library's induction
theorems take a predicate as a parameter, which the provers here cannot instantiate;
a set in its place can be had: every nonempty set of naturals has a least element
(`LeastNatural`), so a set that contains 0 and with each number the next one
contains them all (`Induction`). `FoldRun` uses it to show that a fold is what a run
of states step by step ends with. Then the frame is followed byte by byte:
`After` is the decoder after so many bytes of the frame, `FrameStep` shows that
`Step` leads from each `After` to the next, from any state with the `'@'`. `HexOfBytes` is the round
trip through the hexadecimal digits.

`Slave_proofs` has six invariants. `Shape`: types, a field for each row that was
built, and a reader's live entry is in the table; a reload during `create_command_ui`
is what makes the second and third necessary. `Own`: files, rows, fields, readers
and answers each hold data of their own command as long as `mixed` is false; a save
then writes into each row the field of that row. `Counting`: one reader at most
while `doubled` is false, so what `LookUp` found of the last command is still so at
`CountRun`, and the counter reaches back exactly to the last other command.
`Joining`: a manager that is being joined was told to stop. `Linked`: while `doubled`
is false, a reader in its read loop that was not told to stop has its connection
open; with `Counting` nobody but that reader closes it, so it finds the end of the
connection only when the client has closed. One lemma per way a reader can move
(`Rests`, `Breaks`, `ReaderMoves`, `ReaderServes`, `GivesUpStep`) leads from there to
`LinkKept`. `Suit`: files, rows, entries and the entries in readers' hands have the
identifier and the length that the master's table allows, and a text that is not
raw never holds more bytes than its entry's length, because `sanitize_hex_input`
cuts. It needs nothing of `mixed`: a save by position takes the data of other rows,
but a file's identifiers and lengths stay, and saving and loading cut to the length
again. So a save into the wrong file can make an answer carry another command's
data, but never one the master's table does not know; and only a text read while
it is typed can be one its frames do not hold.

**Only model-checked:** everything under fairness (`WaitEnds`, `IdleSends`,
`SinglesSent`, `PollReturns`, `PeriodUpdateSent`, `PoolRefills`,
`ProcessReturns`, `LibComm`'s two and `ReaderReturns`), which is out of the
prover's reach. Every invariant and action property of a passing run is proved.

## Divergences noticed and not run

- `NSK_Slave.py:659` says "直到客户端断开或服务停止", a client is read from until it
  disconnects or the service stops. A reader that outlived the join of a reconnection
  (606) closes `self.conn` (682), which by then is the client another reader has
  accepted: `CloseConn`, with `doubled`.
- `NSK_Slave.py:485` describes the data of an answer as whole bytes, "00 00 00 00",
  and the master requires "hex string must be in pairs" (`comm_protocol.c:432`). A
  reader takes the text of the field as it is (557), and only leaving the field
  sanitizes it (296): `Decide`, with a `raw` text.
- `NSK_Slave.py:107` says "更新现有命令的 resp_hex", update the data of the existing
  commands; the fields go into the file's rows by position, and after another file
  was selected without loading it into the rows of other commands (`mixed`).
- `comm_ctrl.c:678` says of each command "Start timeout timer with 5s timeout". A
  SEND_TIMEOUT message that is queued when its command is answered is not withdrawn
  by the timer stop (83), and ends the wait of the next command while that one's own
  timer still runs; a single command is then repeated while its answer is on the way.
- `ap3_cmd.json` answers DATA_GET with 32 bytes; with the identifier that is 33, and
  the master's frames hold 31.
- `comm_ctrl.c:476` says "No period command initially"; the zeroed command, with
  length 1, is sent on every cycle until one is set (line 666).
- `fsm.c:186` says that events added during a poll are handled in the next call;
  `fsm_poll` loops until the queue is empty. The controller depends on it: the
  SEND_CYCLE event of its start action is processed in the same poll.
- `comm_protocol.h:187` allows payloads of 62 bytes; the encoder refuses more
  than 31 (`Encode`).
- `comm_protocol.h:102` gives `@48656C6C6F*43` as a frame; its checksum is 15.
- `comm_ctrl.c:46` says "callers use queue->mutex"; `comm_ctrl_send_cmd` reads
  `period_cmd` without it, so a mixture of two commands can go out: `TornCmd`.
- `drv_socket.h:26` declares `drv_socket_recv` to return `size_t`, `drv_socket.c`
  defines it to return `ssize_t`: the driver does not compile as it is. The model
  takes the definition, which is what `lib_comm.c` expects.
- `drv_socket.h:19` says that `is_connected` returns 1 if connected; it does so
  from the start of a non-blocking connection on, until the receive thread reads the
  end of the stream, and for ever if that thread hangs in the decoder with the last
  256 bytes (`RecvFull`).
- No program calls `drv_socket_tx_queue_init`, so in `test/lib_comm` nothing is
  ever transmitted.
- `comm_ctrl_init` and `comm_ctrl_send_period_command` return COMM_ERROR also
  when they succeed.

## Not modelled, and why

- `drv_socket_close`, `_tx_queue_deinit`, `_tx_send_one`, `_is_connected`: called
  by nothing. Creation and configuration of the socket are one choice in
  `LibComm`'s `Init`.
- `usart/drv_usart.c`, a serial alternative to the socket driver: compiled by no
  build file, for a device library that is not in the repository. As it stands it
  cannot transmit: `mem_pool_alloc` takes a block from its queue only if there is
  no queue (line 86), and the tests of the semaphores' results are inverted. A
  model could only say that nothing moves.
- `queue_pool.c`, an earlier form of the receive pool: compiled by no build file.
- `message.c` beyond receive and dispatch: thin wrappers nothing here calls.
- The test programs: they are read as the description of which thread loops what.
- Of the slave: the log window, port scanning, `on_close`, connects that fail, the
  delay's length, and the total per command, which is only logged. An answer's
  thread is a step that may come at any time or never.
- Undefined behaviour: storing past `decoder->data` ends the `Decoder` model; the
  copies of a wrong size at `comm_ctrl.c:462-465, 649, 701` are left out.

## Plan

What remains, in order of importance:

1. `LibComm` joined to `Slave` and `CommCtrl`: frames as byte sequences through the
   send loop into the slave's parser (what repeated bytes do to a frame), and the
   wire shown to be `CommCtrl`'s lossy line.
2. `Slave` joined to `CommCtrl`: its delayed answers as the refinement of `Answer`,
   with two connections.
3. `DrvUsart`, if it comes into use.
