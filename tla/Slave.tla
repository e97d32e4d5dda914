------------------------------- MODULE Slave --------------------------------
(***************************************************************************)
(* The slave simulator at the other end of the line (NSK_Slave.py).  Four   *)
(* kinds of thread meet here:                                               *)
(*   - the GUI thread: SlaveConfig, and connecting and disconnecting;       *)
(*   - the reader thread: accepts a client (TCP) or has the serial port     *)
(*     open, reads whatever bytes there are, takes the first frame of them, *)
(*     and decides whether to answer;                                       *)
(*   - one thread per answer, which sleeps the configured delay and sends;  *)
(*   - the client, which is the master: it sends frames and may close.      *)
(* Bytes are tokens: "head" is '@' with the digits of the command, "star"   *)
(* is '*' with the first digit of the checksum, "end" the second digit.     *)
(***************************************************************************)
EXTENDS SlaveConfig, CommTable, SequencesExt

CONSTANTS
  Garbled,        \* a frame whose checksum does not match
  NoCmd,          \* no command
  MaxFrames,      \* bound: frames the clients send
  MaxThreads,     \* bound: reader threads alive at one time
  Live,           \* settings still in the table
  MaxClicks,      \* bound: connecting and disconnecting
  MaxAnswerLen    \* payload bytes a frame may carry: 31 at the master

Sendable == CmdIds \union {Garbled}
Token == {"head", "star", "end"} \X Sendable

ASSUME SlaveAssumption ==
  /\ CmdIds \subseteq 0 .. 255
  /\ {Garbled, NoCmd} \intersect CmdIds = {}
  /\ Cardinality({Garbled, NoCmd}) = 2
  /\ Live \notin Setting \union {NoSetting}
  /\ MaxThreads \in Nat /\ MaxFrames \in Nat /\ MaxClicks \in Nat /\ MaxAnswerLen \in Nat

VARIABLES
  mode,               \* connected_mode: "none", "serial" or "tcp"
  stop,               \* the stop_event of each of the two managers
  open,               \* a client is connected, or the port is open
  line,               \* tokens sent and not yet read
  eof,                \* the client has closed the connection
  sends,              \* bound: frames sent
  readers,            \* the reader threads: manager, place, command, settings
  last_cmd_id, consecutive_count,
  received,           \* history: the known commands, in order
  doubled,            \* history: a reader has been started beside another
  clicks,             \* bound: connects and disconnects
  answers             \* the threads of send_delayed: what each will send

linkVars  == <<mode, stop, open, line, eof>>
countVars == <<last_cmd_id, consecutive_count, received>>
slaveVars == <<linkVars, sends, clicks, readers, countVars, doubled, answers, configVars>>

Managers == {"serial", "tcp"}
Threads  == 1 .. MaxThreads

(* cfg is Live while the settings a reader found belong to the table, and a *)
(* copy of their last values once the table has been reloaded.              *)
ReaderAt(m, pc) == [of |-> m, pc |-> pc, cmd |-> NoCmd, cfg |-> NoSetting, same |-> FALSE]
BusyReader ==
  [of : Managers, pc : {"count", "decide"}, cmd : CmdIds, cfg : Setting \union {Live},
   same : BOOLEAN]
ReaderType ==
  BusyReader \union
  { ReaderAt(m, pc) : m \in Managers, pc \in {"ended", "accept", "recv", "close", "forget"} } \union
  { [ReaderAt(m, "lookup") EXCEPT !.cmd = c] : m \in Managers, c \in CmdIds }
AnswerType == [cmd : CmdIds, resp_id : Nat, hex : Text]

TypeOK ==
  /\ ConfigTypeOK
  /\ mode \in {"none"} \union Managers
  /\ stop \in [Managers -> BOOLEAN]
  /\ open \in BOOLEAN /\ eof \in BOOLEAN
  /\ line \in Seq(Token)
  /\ sends \in 0 .. MaxFrames /\ clicks \in 0 .. MaxClicks
  /\ readers \in [Threads -> ReaderType]
  /\ last_cmd_id \in CmdIds \union {NoCmd}
  /\ consecutive_count \in Nat
  /\ received \in Seq(CmdIds)
  /\ doubled \in BOOLEAN
  /\ answers \in Seq(AnswerType)

Init ==
  /\ ConfigInit
  /\ mode = "none" /\ stop = [m \in Managers |-> FALSE] /\ open = FALSE
  /\ line = << >> /\ eof = FALSE /\ sends = 0 /\ clicks = 0
  /\ readers = [t \in Threads |-> ReaderAt("serial", "ended")]
  /\ last_cmd_id = NoCmd /\ consecutive_count = 0 /\ received = << >>
  /\ doubled = FALSE
  /\ answers = << >>

-----------------------------------------------------------------------------
(* The GUI thread                                                           *)

(* A reload takes the fields out of the table, not out of a reader's hand.  *)
(* Variant: it takes them out of both.                                      *)
SettingsGone ==
  readers' = [t \in Threads |-> IF readers[t].cfg = Live
                                THEN [readers[t] EXCEPT !.cfg = NoSetting] ELSE readers[t]]
SettingsKept ==
  readers' = [t \in Threads |-> IF readers[t].cfg = Live
                                THEN [readers[t] EXCEPT !.cfg = settings[readers[t].cmd]]
                                ELSE readers[t]]

Load == LoadConfigFile /\ SettingsKept /\ UNCHANGED <<linkVars, sends, clicks, countVars, doubled, answers>>

Configure ==
  /\ \/ \E f \in Files : BrowseConfigFile(f)
     \/ CreateCommandUi
     \/ \E c \in CmdIds : \/ \E n \in StartAfters \union {Unreadable} : EditStartAfter(c, n)
                          \/ \E n \in EditSizes : TypeRespHex(c, n)
                          \/ FocusOut(c)
     \/ SaveConfig
  /\ UNCHANGED <<linkVars, sends, clicks, readers, countVars, doubled, answers>>

Clicks == gui = "idle" /\ clicks < MaxClicks /\ clicks' = clicks + 1

(* on_connect_click: start_server, or connect to the serial port, whose     *)
(* reader is a new thread.  A reader of the same manager that has not yet   *)
(* seen the stop_event goes on beside it.                                   *)
Connect(m) ==
  /\ Clicks
  /\ mode = "none"
  /\ \E t \in Threads :
       /\ readers[t].pc = "ended" /\ \A u \in 1 .. t - 1 : readers[u].pc # "ended"
       /\ readers' = [readers EXCEPT ![t] = ReaderAt(m, IF m = "tcp" THEN "accept" ELSE "recv")]
  /\ doubled' = (doubled \/ \E t \in Threads : readers[t].pc # "ended")
  /\ mode' = m
  /\ stop' = [stop EXCEPT ![m] = FALSE]
  /\ open' = (m = "serial")
  /\ line' = << >> /\ eof' = FALSE
  /\ UNCHANGED <<sends, countVars, answers, configVars>>

(* on_connect_click, connected: stop_server or disconnect tell the reader   *)
(* to stop and join it,                                                     *)
DisconnectBegin ==
  /\ Clicks
  /\ mode # "none"
  /\ gui' = "joining"
  /\ stop' = [stop EXCEPT ![mode] = TRUE]
  /\ UNCHANGED <<mode, open, line, eof, sends, readers, countVars, doubled, answers, files,
                 current, commands, built, settings, mixed, acts>>

(* Variant: join without a timeout.                                         *)
DisconnectJoined ==
  /\ gui = "joining"
  /\ \A t \in Threads : readers[t].of = mode => readers[t].pc = "ended"
  /\ gui' = "idle"
  /\ mode' = "none"
  /\ open' = FALSE /\ line' = << >>
  /\ UNCHANGED <<stop, eof, sends, clicks, readers, countVars, doubled, answers, files, current,
                 commands, built, settings, mixed, acts>>

(* for one second at most: the reader may still run when all is closed.     *)
DisconnectEnd ==
  /\ gui = "joining"
  /\ gui' = "idle"
  /\ mode' = "none"
  /\ open' = FALSE /\ line' = << >>
  /\ UNCHANGED <<stop, eof, sends, clicks, readers, countVars, doubled, answers, files, current,
                 commands, built, settings, mixed, acts>>

-----------------------------------------------------------------------------
(* The client, at the other end                                             *)

(* Whichever thread is in accept takes the client: a second thread drops    *)
(* the client of the first.                                                 *)
ClientConnects ==
  /\ mode = "tcp"
  /\ \E t \in Threads :
       /\ readers[t] = ReaderAt("tcp", "accept")
       /\ readers' = [readers EXCEPT ![t] = ReaderAt("tcp", "recv")]
  /\ open' = TRUE
  /\ line' = << >> /\ eof' = FALSE
  /\ UNCHANGED <<mode, stop, sends, clicks, countVars, doubled, answers, configVars>>

ClientSends(c) ==
  /\ open /\ ~eof
  /\ sends < MaxFrames
  /\ sends' = sends + 1
  /\ line' = line \o <<<<"head", c>>, <<"star", c>>, <<"end", c>>>>
  /\ UNCHANGED <<mode, stop, open, eof, clicks, readers, countVars, doubled, answers, configVars>>

ClientCloses ==
  /\ mode = "tcp" /\ open /\ ~eof
  /\ eof' = TRUE
  /\ UNCHANGED <<mode, stop, open, line, sends, clicks, readers, countVars, doubled, answers, configVars>>

-----------------------------------------------------------------------------
(* The reader threads: _accept_loop and _read_loop                          *)

(* The positions of a part in what was read.                                *)
At(part, data) == {k \in 1 .. Len(data) : data[k][1] = part}

(* parse_protocol_frame: the command between the first '@' and the first    *)
(* '*' of what was read, if they come in this order, with two digits after  *)
(* it that match.  What precedes, and what follows, is dropped.             *)
ParseFrame(data) ==
  IF At("head", data) # {} /\ At("star", data) # {}
  THEN LET h == Min(At("head", data))
           s == Min(At("star", data))
       IN  IF h < s /\ s < Len(data) /\ data[h][2] # Garbled THEN data[h][2] ELSE NoCmd
  ELSE NoCmd

(* A command process_received_data goes on with: it is in cmd_settings.     *)
Known(c) == c \in CmdIds /\ settings[c] # NoSetting

(* The manager of t has its connection, or its port, open.                  *)
HasLink(t) == readers[t].of = mode /\ open

(* recv or read, of any n tokens that have come, and process_received_data  *)
(* to its test of cmd_settings.                                             *)
(* Variant: an invalid frame raises, and ends the serial loop.              *)
RecvStrict(t, n) ==
  /\ readers[t].pc = "recv" /\ HasLink(t)
  /\ n \in 1 .. Len(line)
  /\ line' = SubSeq(line, n + 1, Len(line))
  /\ LET cmd == ParseFrame(SubSeq(line, 1, n))
     IN  readers' = [readers EXCEPT ![t] =
           IF Known(cmd) THEN [ReaderAt(@.of, "lookup") EXCEPT !.cmd = cmd]
           ELSE IF mode = "serial" THEN ReaderAt("serial", "ended") ELSE @]
  /\ UNCHANGED <<mode, stop, open, eof, sends, clicks, countVars, doubled, answers, configVars>>
Recv(t, n) ==
  /\ readers[t].pc = "recv" /\ HasLink(t)
  /\ n \in 1 .. Len(line)
  /\ line' = SubSeq(line, n + 1, Len(line))
  /\ LET cmd == ParseFrame(SubSeq(line, 1, n))
     IN  readers' = [readers EXCEPT ![t] =
           IF Known(cmd) THEN [ReaderAt(@.of, "lookup") EXCEPT !.cmd = cmd] ELSE @]
  /\ UNCHANGED <<mode, stop, open, eof, sends, clicks, countVars, doubled, answers, configVars>>

(* t leaves its read loop, when stop_event is set, when the connection is   *)
(* closed, or by the exceptions process_received_data does not catch.  The  *)
(* serial thread is gone then, and the port stays open; the TCP thread goes *)
(* on to close what is in self.conn.                                        *)
ReadLoopBreaks(t) ==
  /\ readers' = [readers EXCEPT ![t] = ReaderAt(@.of, IF @.of = "tcp" THEN "close" ELSE "ended")]
  /\ UNCHANGED linkVars

(* cmd_settings is read a second time.  The command may be gone: KeyError.  *)
LookUp(t) ==
  /\ readers[t].pc = "lookup"
  /\ \/ /\ settings[readers[t].cmd] # NoSetting
        /\ readers' = [readers EXCEPT ![t] =
                         [of |-> @.of, pc |-> "count", cmd |-> @.cmd, cfg |-> Live,
                          same |-> (last_cmd_id = @.cmd)]]
        /\ UNCHANGED linkVars
     \/ /\ settings[readers[t].cmd] = NoSetting
        /\ ReadLoopBreaks(t)
  /\ UNCHANGED <<sends, clicks, countVars, doubled, answers, configVars>>

(* Variant: the run goes on counting through other commands.                *)
CountRunThrough(t) ==
  /\ readers[t].pc = "count"
  /\ consecutive_count' = consecutive_count + 1
  /\ last_cmd_id' = readers[t].cmd
  /\ received' = Append(received, readers[t].cmd)
  /\ readers' = [readers EXCEPT ![t].pc = "decide"]
  /\ UNCHANGED <<linkVars, sends, clicks, doubled, answers, configVars>>
CountRun(t) ==
  /\ readers[t].pc = "count"
  /\ consecutive_count' = IF readers[t].same THEN consecutive_count + 1 ELSE 1
  /\ last_cmd_id' = IF readers[t].same THEN last_cmd_id ELSE readers[t].cmd
  /\ received' = Append(received, readers[t].cmd)
  /\ readers' = [readers EXCEPT ![t].pc = "decide"]
  /\ UNCHANGED <<linkVars, sends, clicks, doubled, answers, configVars>>

Cfg(t) == IF readers[t].cfg = Live THEN settings[readers[t].cmd] ELSE readers[t].cfg
Due(t) == consecutive_count > Cfg(t).start_after
NewAnswer(t) == [cmd |-> readers[t].cmd, resp_id |-> Cfg(t).resp_id, hex |-> Cfg(t).resp_hex]

(* The fields are read by the GUI thread on the reader's behalf, so while   *)
(* it is busy the reader waits.  A text is taken as it is, also while it is *)
(* typed; none is no answer (a raw text without digits may be none, or have *)
(* other characters).  An answer gets a thread of its own.                  *)
Decide(t) ==
  /\ readers[t].pc = "decide"
  /\ gui = "idle"
  /\ \/ /\ Cfg(t).start_after = Unreadable
        /\ ReadLoopBreaks(t)
        /\ UNCHANGED answers
     \/ /\ Cfg(t).start_after # Unreadable
        /\ \/ /\ Due(t)
              /\ Cfg(t).resp_hex.digits # 0 \/ Cfg(t).resp_hex.raw
              /\ answers' = Append(answers, NewAnswer(t))
           \/ /\ ~Due(t) \/ Cfg(t).resp_hex.digits = 0
              /\ UNCHANGED answers
        /\ readers' = [readers EXCEPT ![t] = ReaderAt(@.of, "recv")]
        /\ UNCHANGED linkVars
  /\ UNCHANGED <<sends, clicks, countVars, doubled, configVars>>

(* The client has closed; or another thread has, and conn is None.          *)
RecvFails(t) ==
  /\ readers[t].pc = "recv" /\ readers[t].of = "tcp"
  /\ ~HasLink(t) \/ (eof /\ line = << >>)
  /\ ReadLoopBreaks(t)
  /\ UNCHANGED <<sends, clicks, countVars, doubled, answers, configVars>>

(* The tests of stop_event, in the read loop and before accept.             *)
ReaderEnds(t) ==
  /\ stop[readers[t].of]
  /\ \/ /\ readers[t].pc = "recv"
        /\ ReadLoopBreaks(t)
     \/ /\ readers[t].pc = "accept"
        /\ readers' = [readers EXCEPT ![t] = ReaderAt(@.of, "ended")]
        /\ UNCHANGED linkVars
  /\ UNCHANGED <<sends, clicks, countVars, doubled, answers, configVars>>

(* self.conn.close() and self.conn = None, and back to accept.  The         *)
(* connection need not be the one t read from: another reader may have      *)
(* accepted a client since.                                                 *)
ConnGone(t, pc) ==
  LET closes == mode = "tcp"
  IN  /\ readers' = [readers EXCEPT ![t] = ReaderAt("tcp", pc)]
      /\ open' = (open /\ ~closes)
      /\ line' = IF closes THEN << >> ELSE line
      /\ UNCHANGED <<mode, stop, eof, sends, clicks, countVars, doubled, answers, configVars>>
CloseConn(t)  == readers[t].pc = "close" /\ ConnGone(t, "forget")
ForgetConn(t) == readers[t].pc = "forget" /\ ConnGone(t, "accept")

Reader(t) ==
  \/ LookUp(t) \/ CountRun(t) \/ Decide(t) \/ RecvFails(t) \/ ReaderEnds(t)
  \/ CloseConn(t) \/ ForgetConn(t)
  \/ \E n \in 1 .. 3 * MaxFrames : Recv(t, n)

(* send_delayed: after its delay an answer is sent on the connection that   *)
(* is open then, which need not be the one it was asked on, or on none.     *)
AnswerGoes(k) ==
  /\ k \in 1 .. Len(answers)
  /\ answers' = RemoveAt(answers, k)
  /\ UNCHANGED <<linkVars, sends, clicks, readers, countVars, doubled, configVars>>

-----------------------------------------------------------------------------
Next ==
  \/ Load \/ Configure
  \/ \E m \in Managers : Connect(m)
  \/ DisconnectBegin \/ DisconnectEnd
  \/ ClientConnects \/ ClientCloses
  \/ \E c \in Sendable : ClientSends(c)
  \/ \E t \in Threads : Reader(t)
  \/ \E k \in 1 .. MaxFrames : AnswerGoes(k)

Spec == Init /\ [][Next]_slaveVars

(* A reader thread runs, the GUI thread finishes what it began, and its     *)
(* event queue serves a waiting reader in turn, whatever else it is asked.  *)
(* Nothing is assumed of the user or of the client.                         *)
Fairness ==
  /\ \A t \in Threads : /\ WF_slaveVars(LookUp(t) \/ CountRun(t))
                        /\ SF_slaveVars(Decide(t))
  /\ WF_slaveVars(CreateCommandUi /\ Configure)
  /\ WF_slaveVars(DisconnectEnd)

FairSpec == Spec /\ Fairness

-----------------------------------------------------------------------------
(* The places of a reader in its read loop.                                 *)
Serving == {"recv", "lookup", "count", "decide"}

(* How many commands at the end of what was received are the same.          *)
RunLength ==
  LET n == Len(received)
  IN  IF n = 0 THEN 0
      ELSE n - Max({0} \union {k \in 1 .. n : received[k] # received[n]})

(* The counter that start_after is compared with is the length of the run   *)
(* of one command that came last, over reloads, lost connections and        *)
(* changes between TCP and serial, as long as one thread counts.            *)
RunCounted ==
  ~doubled => /\ consecutive_count = RunLength
              /\ received # << >> => last_cmd_id = Last(received)

(* Every answer carries the data written for its command, over edits,       *)
(* reloads and saves, unless a save went into a file with other rows, which *)
(* on_save_config fills by position.                                        *)
OwnAnswers == ~mixed => \A k \in 1 .. Len(answers) : answers[k].hex.of = answers[k].cmd

(* What is answered agrees with the master's table: the pair of identifiers *)
(* both ways, with one timeout and retry count.  What was not taken from a  *)
(* field just being typed into is whole bytes and fits a frame, except for  *)
(* DATA_GET (144), whose 32 bytes and identifier do not.                    *)
AnswersSuitMaster ==
  \A k \in 1 .. Len(answers) :
    LET c   == answers[k].cmd
        r   == answers[k].resp_id
        hex == answers[k].hex
    IN  /\ GetRespBySend(c) # NotFound =>
             /\ GetRespBySend(c) = r /\ GetSendByResp(r) = c
             /\ GetTimeoutBySend(c) = GetTimeoutByResp(r)
             /\ GetRetryBySend(c) = GetRetryByResp(r)
        /\ ~hex.raw => /\ hex.digits % 2 = 0
                       /\ hex.digits \div 2 + 1 <= MaxAnswerLen \/ c = 144

(* A reader gives up its client, or the port, only when the client closed,  *)
(* the user disconnects, the command is gone from the table since it was    *)
(* read, or a field was not readable: never for what it read, and never     *)
(* because it finds the connection closed under it, as long as no reader    *)
(* was started beside another.                                              *)
LinkKept ==
  [][\A t \in Threads :
       (readers[t].pc \in Serving /\ readers'[t].pc \notin Serving) =>
         \/ eof \/ stop[readers[t].of] \/ doubled
         \/ readers[t].pc = "lookup" /\ ~Known(readers[t].cmd)
         \/ readers[t].pc = "decide" /\ Cfg(t).start_after = Unreadable]_slaveVars

(* A reader waits for the GUI thread to read a field, and the GUI thread    *)
(* for the reader to end: the command being processed is done with all the  *)
(* same, because the join times out.                                        *)
ReaderReturns ==
  \A t \in Threads : (readers[t].pc \in {"lookup", "count", "decide"})
                       ~> (readers[t].pc \notin {"lookup", "count", "decide"})

=============================================================================
