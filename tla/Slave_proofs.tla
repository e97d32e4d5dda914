---------------------------- MODULE Slave_proofs -----------------------------
(***************************************************************************)
(* Theorems about Slave, for every set of files, commands and frames: its   *)
(* types, that an answer carries its own command's data, and that its       *)
(* identifier and length suit the master; and, as long as no reader was     *)
(* started beside another, that the counter start_after is compared with is *)
(* the length of the run, and for what a reader gives up its connection.    *)
(***************************************************************************)
EXTENDS Slave, SlaveFiles, SequenceTheorems, TLAPS

-----------------------------------------------------------------------------
(* The fields of the GUI                                                    *)

(* Every row there is a field for is in cmd_settings, and when nothing is   *)
(* being loaded there is a field for each row.                              *)
FieldsBuilt ==
  /\ \A i \in 1 .. built : settings[commands[i].cmd_id] # NoSetting
  /\ gui = "loading" => built < Len(commands)
  /\ gui # "loading" => built = Len(commands)

(* What the proofs need of the constants.                                   *)
LEMMA ConfigConstants ==
  /\ NoSetting \notin Setting /\ MaxActs \in Nat
  /\ StartAfters \subseteq Nat /\ EditSizes \subseteq Nat
  /\ DefaultFile \in Files
BY SlaveConfigAssumption DEF SlaveConfigAssumption

(* Cutting a text keeps it a text of the same command.                      *)
LEMMA SanitizeText ==
  ASSUME NEW text \in Text, NEW max \in Nat
  PROVE  Sanitize(text, max) \in Text /\ Sanitize(text, max).of = text.of
<1> DEFINE pairs == text.digits \div 2
           kept  == IF max > 0 /\ pairs > max THEN max ELSE pairs
<1>1. text.digits \in Nat
  BY DEF Text
<1>2. pairs \in Nat
  BY <1>1
<1>3. kept \in Nat
  <2> HIDE DEF pairs
  <2> QED
    BY <1>2
<1>4. 2 * kept \in Nat
  <2> HIDE DEF kept
  <2> QED
    BY <1>3
<1>5. Sanitize(text, max) = [text EXCEPT !.digits = 2 * kept, !.raw = FALSE]
  BY DEF Sanitize
<1> HIDE DEF kept
<1> QED
  BY <1>4, <1>5 DEF Text

(* What create_command_ui makes of a row.                                   *)
LEMMA FieldsOfRow ==
  ASSUME NEW cmd \in RowType
  PROVE  /\ Fields(cmd) \in Setting
         /\ cmd.resp_hex.of = cmd.cmd_id => Fields(cmd).resp_hex.of = cmd.cmd_id
<1> DEFINE given == Sanitize(cmd.resp_hex, cmd.resp_data_len)
           hex == IF given.digits = 0
                  THEN [of |-> cmd.cmd_id, digits |-> 2 * cmd.resp_data_len, raw |-> FALSE]
                  ELSE given
<1>1. cmd.resp_hex \in Text /\ cmd.resp_data_len \in Nat /\ cmd.cmd_id \in CmdIds
      /\ cmd.resp_id \in Nat
  BY DEF RowType
<1>2. given \in Text /\ given.of = cmd.resp_hex.of
  BY <1>1, SanitizeText
<1>3. hex \in Text /\ (cmd.resp_hex.of = cmd.cmd_id => hex.of = cmd.cmd_id)
  <2> HIDE DEF given
  <2>1. 2 * cmd.resp_data_len \in Nat
    BY <1>1
  <2> QED
    BY <1>1, <1>2, <2>1 DEF Text
<1>4. Fields(cmd) = [resp_id |-> cmd.resp_id, resp_data_len |-> cmd.resp_data_len,
                     resp_hex |-> hex, start_after |-> 0]
  BY DEF Fields
<1> QED
  BY <1>1, <1>3, <1>4 DEF Setting

(* A row that was loaded.                                                   *)
LEMMA RowLoaded ==
  ASSUME ConfigTypeOK, NEW i \in 1 .. Len(commands)
  PROVE  commands[i] \in RowType /\ commands[i].cmd_id \in CmdIds
<1>1. commands[i] \in RowType
  BY ElementOfSeq DEF ConfigTypeOK
<1> QED
  BY <1>1 DEF RowType

(* A field of a row that was loaded is a text.                              *)
LEMMA ShownText ==
  ASSUME ConfigTypeOK, FieldsBuilt, gui = "idle", NEW k \in 1 .. Len(commands)
  PROVE  /\ commands[k] \in RowType /\ settings[commands[k].cmd_id] \in Setting
         /\ Shown(commands[k]) \in Text
         /\ Shown(commands[k]).of = settings[commands[k].cmd_id].resp_hex.of
<1>1. commands[k] \in RowType
  BY ElementOfSeq DEF ConfigTypeOK
<1>2. commands[k].cmd_id \in CmdIds /\ commands[k].resp_data_len \in Nat
  BY <1>1 DEF RowType
<1>3. settings[commands[k].cmd_id] \in Setting
  BY <1>2 DEF ConfigTypeOK, FieldsBuilt
<1>4. settings[commands[k].cmd_id].resp_hex \in Text
  BY <1>3 DEF Setting
<1> QED
  BY <1>1, <1>2, <1>3, <1>4, SanitizeText DEF Shown

(* The rows a save writes.                                                  *)
LEMMA SavedRows ==
  ASSUME ConfigTypeOK, FieldsBuilt, SaveConfig
  PROVE  LET old == files[SaveTarget]
             rows == IF old = << >> THEN commands ELSE old
         IN  /\ SaveTarget \in Files /\ rows \in Seq(RowType)
             /\ \A k \in 1 .. Len(rows) :
                  /\ rows[k] \in RowType
                  /\ SavedRow(rows[k], k) \in RowType
                  /\ SavedRow(rows[k], k).cmd_id = rows[k].cmd_id
                  /\ SavedRow(rows[k], k).resp_id = rows[k].resp_id
                  /\ SavedRow(rows[k], k).resp_data_len = rows[k].resp_data_len
                  /\ SavedRow(rows[k], k).resp_hex =
                       IF k <= Len(commands) THEN Shown(commands[k]) ELSE rows[k].resp_hex
             /\ files' = [files EXCEPT ![SaveTarget] =
                            [k \in 1 .. Len(rows) |-> SavedRow(rows[k], k)]]
<1> DEFINE old == files[SaveTarget]
           rows == IF old = << >> THEN commands ELSE old
<1>1. SaveTarget \in Files
  BY ConfigConstants DEF ConfigTypeOK, SaveTarget
<1>2. rows \in Seq(RowType)
  BY <1>1 DEF ConfigTypeOK
<1>3. ASSUME NEW k \in 1 .. Len(rows)
      PROVE  /\ rows[k] \in RowType
             /\ SavedRow(rows[k], k) \in RowType
             /\ SavedRow(rows[k], k).cmd_id = rows[k].cmd_id
             /\ SavedRow(rows[k], k).resp_id = rows[k].resp_id
             /\ SavedRow(rows[k], k).resp_data_len = rows[k].resp_data_len
             /\ SavedRow(rows[k], k).resp_hex =
                  IF k <= Len(commands) THEN Shown(commands[k]) ELSE rows[k].resp_hex
  <2> HIDE DEF rows
  <2>1. rows[k] \in RowType
    BY <1>2, <1>3, ElementOfSeq
  <2>2. CASE k <= Len(commands)
    <3>1. k \in 1 .. Len(commands)
      BY <1>2, <1>3, <2>2 DEF ConfigTypeOK
    <3>2. Shown(commands[k]) \in Text
      BY <3>1, ShownText DEF SaveConfig, UserActs
    <3>3. SavedRow(rows[k], k) = [rows[k] EXCEPT !.resp_hex = Shown(commands[k])]
      BY <2>2 DEF SavedRow
    <3> QED
      BY <2>1, <2>2, <3>2, <3>3 DEF RowType
  <2>3. CASE ~(k <= Len(commands))
    BY <2>1, <2>3 DEF SavedRow
  <2> QED
    BY <2>2, <2>3
<1>4. files' = [files EXCEPT ![SaveTarget] =
                  [k \in 1 .. Len(rows) |-> SavedRow(rows[k], k)]]
  BY DEF SaveConfig
<1> QED
  BY <1>1, <1>2, <1>3, <1>4

(* The user changes a field of c.                                           *)
FieldEdit(c) ==
  \/ \E n \in StartAfters \union {Unreadable} : EditStartAfter(c, n)
  \/ \E n \in EditSizes : TypeRespHex(c, n)
  \/ FocusOut(c)

(* What the GUI thread does to its own state.                               *)
GuiStep ==
  \/ \E f \in Files : BrowseConfigFile(f)
  \/ LoadConfigFile
  \/ CreateCommandUi
  \/ \E c \in CmdIds : FieldEdit(c)
  \/ SaveConfig

(* A reload, as LEMMA ConfigStep needs it.                                  *)
LEMMA LoadStep ==
  ASSUME ConfigTypeOK, FieldsBuilt, LoadConfigFile
  PROVE  ConfigTypeOK' /\ FieldsBuilt'
<1>1. files[current] \in Seq(RowType)
  BY DEF ConfigTypeOK, LoadConfigFile
<1>2. files[current] = << >> \/ Len(files[current]) > 0
  BY <1>1
<1> QED
  BY <1>1, <1>2, ConfigConstants DEF ConfigTypeOK, FieldsBuilt, LoadConfigFile, UserActs

(* Another row gets its fields.                                             *)
LEMMA CreateStep ==
  ASSUME ConfigTypeOK, FieldsBuilt, CreateCommandUi
  PROVE  ConfigTypeOK' /\ FieldsBuilt'
<1>1. built' \in 1 .. Len(commands) /\ built' = built + 1
  BY DEF ConfigTypeOK, FieldsBuilt, CreateCommandUi
<1>2. commands[built'] \in RowType
  BY <1>1, ElementOfSeq DEF ConfigTypeOK
<1>3. commands[built'].cmd_id \in CmdIds /\ Fields(commands[built']) \in Setting
  BY <1>2, FieldsOfRow DEF RowType
<1>4. settings' = [settings EXCEPT ![commands[built'].cmd_id] = Fields(commands[built'])]
  BY DEF CreateCommandUi
<1>5. settings' \in [CmdIds -> Setting \union {NoSetting}]
  BY <1>3, <1>4 DEF ConfigTypeOK
<1>6. ASSUME NEW i \in 1 .. built' PROVE settings'[commands[i].cmd_id] # NoSetting
  <2>0. i \in 1 .. Len(commands)
    BY <1>1
  <2>1. commands[i].cmd_id \in CmdIds
    BY <2>0, RowLoaded
  <2>2. CASE commands[i].cmd_id = commands[built'].cmd_id
    BY <1>3, <1>4, <2>1, <2>2, ConfigConstants DEF ConfigTypeOK
  <2>3. CASE commands[i].cmd_id # commands[built'].cmd_id
    <3>1. i \in 1 .. built
      BY <1>1, <2>3 DEF ConfigTypeOK
    <3> QED
      BY <1>4, <2>1, <2>3, <3>1 DEF ConfigTypeOK, FieldsBuilt
  <2> QED
    BY <2>2, <2>3
<1> QED
  BY <1>1, <1>5, <1>6 DEF ConfigTypeOK, FieldsBuilt, CreateCommandUi

(* The user changes a field.                                                *)
LEMMA EditStep ==
  ASSUME ConfigTypeOK, FieldsBuilt, NEW c \in CmdIds, FieldEdit(c)
  PROVE  /\ ConfigTypeOK' /\ FieldsBuilt'
         /\ UNCHANGED <<files, commands, mixed>>
         /\ settings[c] \in Setting /\ settings'[c] \in Setting
         /\ settings'[c].resp_hex.of \in {settings[c].resp_hex.of, c}
         /\ \A d \in CmdIds \ {c} : settings'[d] = settings[d]
<1> USE ConfigConstants
<1>1. settings[c] \in Setting
  BY DEF ConfigTypeOK, FieldEdit, EditStartAfter, TypeRespHex, FocusOut, Typing
<1>2. PICK s \in Setting : /\ settings' = [settings EXCEPT ![c] = s]
                           /\ s.resp_hex.of \in {settings[c].resp_hex.of, c}
  <2>0. ASSUME NEW hex \in Text, hex.of \in {settings[c].resp_hex.of, c},
               settings' = [settings EXCEPT ![c] = [settings[c] EXCEPT !.resp_hex = hex]]
        PROVE  \E s \in Setting : /\ settings' = [settings EXCEPT ![c] = s]
                                  /\ s.resp_hex.of \in {settings[c].resp_hex.of, c}
    <3>1. /\ [settings[c] EXCEPT !.resp_hex = hex] \in Setting
          /\ [settings[c] EXCEPT !.resp_hex = hex].resp_hex = hex
      BY <1>1 DEF Setting
    <3> QED
      BY <2>0, <3>1
  <2>1. ASSUME NEW n \in StartAfters \union {Unreadable}, EditStartAfter(c, n)
        PROVE  \E s \in Setting : /\ settings' = [settings EXCEPT ![c] = s]
                                  /\ s.resp_hex.of \in {settings[c].resp_hex.of, c}
    <3>1. [settings[c] EXCEPT !.start_after = n] \in Setting
      BY <1>1, <2>1 DEF Setting
    <3>2. [settings[c] EXCEPT !.start_after = n].resp_hex = settings[c].resp_hex
      BY <1>1 DEF Setting
    <3> QED
      BY <2>1, <3>1, <3>2 DEF EditStartAfter
  <2>2. ASSUME NEW n \in EditSizes, TypeRespHex(c, n)
        PROVE  \E s \in Setting : /\ settings' = [settings EXCEPT ![c] = s]
                                  /\ s.resp_hex.of \in {settings[c].resp_hex.of, c}
    <3>1. [of |-> c, digits |-> n, raw |-> TRUE] \in Text
      BY <2>2 DEF Text
    <3>2. settings' = [settings EXCEPT ![c] =
            [settings[c] EXCEPT !.resp_hex = [of |-> c, digits |-> n, raw |-> TRUE]]]
      BY <1>1, <2>2 DEF TypeRespHex
    <3> QED
      BY <2>0, <3>1, <3>2
  <2>3. CASE FocusOut(c)
    <3> DEFINE hex == Sanitize(settings[c].resp_hex, settings[c].resp_data_len)
    <3>1. hex \in Text /\ hex.of = settings[c].resp_hex.of
      <4>1. settings[c].resp_hex \in Text /\ settings[c].resp_data_len \in Nat
        BY <1>1 DEF Setting
      <4> QED
        BY <4>1, SanitizeText
    <3>2. settings' = [settings EXCEPT ![c] = [settings[c] EXCEPT !.resp_hex = hex]]
      BY <2>3 DEF FocusOut
    <3> HIDE DEF hex
    <3> QED
      BY <2>0, <3>1, <3>2
  <2> QED
    BY <2>1, <2>2, <2>3 DEF FieldEdit
<1>3. /\ UNCHANGED <<files, current, commands, built, gui, mixed>>
      /\ acts' = acts \/ (acts' = acts + 1 /\ acts < MaxActs)
  BY DEF FieldEdit, EditStartAfter, TypeRespHex, FocusOut, UserActs
<1>4. /\ settings' \in [CmdIds -> Setting \union {NoSetting}]
      /\ settings'[c] = s
      /\ \A d \in CmdIds \ {c} : settings'[d] = settings[d]
  BY <1>2 DEF ConfigTypeOK
<1>5. ASSUME NEW i \in 1 .. built PROVE settings'[commands[i].cmd_id] # NoSetting
  <2>0. i \in 1 .. Len(commands)
    BY DEF ConfigTypeOK
  <2>1. commands[i].cmd_id \in CmdIds
    BY <2>0, RowLoaded
  <2> QED
    BY <1>4, <2>1 DEF FieldsBuilt
<1> QED
  BY <1>1, <1>2, <1>3, <1>4, <1>5 DEF ConfigTypeOK, FieldsBuilt

(* A save changes only the file.                                            *)
LEMMA SaveStep ==
  ASSUME ConfigTypeOK, FieldsBuilt, SaveConfig
  PROVE  ConfigTypeOK' /\ FieldsBuilt'
<1> DEFINE old == files[SaveTarget]
           rows == IF old = << >> THEN commands ELSE old
           saved == [k \in 1 .. Len(rows) |-> SavedRow(rows[k], k)]
<1>1. /\ SaveTarget \in Files /\ rows \in Seq(RowType)
      /\ \A k \in 1 .. Len(rows) : SavedRow(rows[k], k) \in RowType
      /\ files' = [files EXCEPT ![SaveTarget] = saved]
  BY SavedRows
<1>2. saved \in Seq(RowType)
  <2> HIDE DEF rows
  <2>1. Len(rows) \in Nat
    BY <1>1
  <2> QED
    BY <1>1, <2>1, IsASeq
<1>3. files' \in [Files -> Seq(RowType)]
  <2> HIDE DEF saved
  <2> QED
    BY <1>1, <1>2 DEF ConfigTypeOK
<1>4. mixed' \in BOOLEAN
  BY DEF SaveConfig, ConfigTypeOK
<1> QED
  BY <1>3, <1>4, ConfigConstants DEF ConfigTypeOK, FieldsBuilt, SaveConfig, UserActs

(* The GUI thread keeps its types, and a field for each row.                *)
LEMMA ConfigStep ==
  ASSUME ConfigTypeOK, FieldsBuilt, GuiStep
  PROVE  ConfigTypeOK' /\ FieldsBuilt'
<1>1. CASE \E f \in Files : BrowseConfigFile(f)
  BY <1>1, ConfigConstants
     DEF ConfigTypeOK, FieldsBuilt, BrowseConfigFile, UserActs
<1> QED
  BY <1>1, LoadStep, CreateStep, EditStep, SaveStep DEF GuiStep

-----------------------------------------------------------------------------
(* The readers                                                              *)

(* What the proofs need of the constants.                                   *)
LEMMA SlaveConstants ==
  /\ Live \notin Setting /\ Live # NoSetting
  /\ NoCmd \notin CmdIds
  /\ MaxThreads \in Nat /\ MaxFrames \in Nat /\ MaxClicks \in Nat
BY SlaveAssumption DEF SlaveAssumption

(* Settings a reader holds as live are in the table.                        *)
LiveSettings ==
  \A t \in Threads : readers[t].cfg = Live => settings[readers[t].cmd] # NoSetting

(* The places of a reader with no command in hand.                          *)
AtRest == {"ended", "accept", "recv", "close", "forget"}

(* A reader, by its place.                                                  *)
LEMMA ReaderCases ==
  ASSUME NEW r \in ReaderType
  PROVE  /\ r.of \in Managers
         /\ r.pc \in AtRest \union {"lookup", "count", "decide"}
         /\ r.cfg # NoSetting => r.pc \in {"count", "decide"}
         /\ r.pc \in {"count", "decide"} => r \in BusyReader
         /\ r.pc = "lookup" =>
              /\ r.cmd \in CmdIds
              /\ r = [of |-> r.of, pc |-> "lookup", cmd |-> r.cmd, cfg |-> NoSetting,
                      same |-> FALSE]
         /\ r.pc \in AtRest => r = ReaderAt(r.of, r.pc)
<1> USE DEF AtRest
<1>1. CASE r \in BusyReader
  <2>1. r.of \in Managers /\ r.pc \in {"count", "decide"}
    BY <1>1 DEF BusyReader
  <2> QED
    BY <1>1, <2>1
<1>2. ASSUME NEW m \in Managers, NEW pc \in AtRest, r = ReaderAt(m, pc)
      PROVE  /\ r.of = m /\ r.pc = pc /\ r.cfg = NoSetting
  BY <1>2 DEF ReaderAt
<1>3. ASSUME NEW m \in Managers, NEW c \in CmdIds,
             r = [ReaderAt(m, "lookup") EXCEPT !.cmd = c]
      PROVE  /\ r.of = m /\ r.pc = "lookup" /\ r.cmd = c /\ r.cfg = NoSetting
             /\ r = [of |-> r.of, pc |-> "lookup", cmd |-> r.cmd, cfg |-> NoSetting,
                     same |-> FALSE]
  BY <1>3 DEF ReaderAt
<1>4. \/ r \in BusyReader
      \/ \E m \in Managers : \E pc \in AtRest : r = ReaderAt(m, pc)
      \/ \E m \in Managers : \E c \in CmdIds : r = [ReaderAt(m, "lookup") EXCEPT !.cmd = c]
  BY DEF ReaderType
<1>5. CASE \E m \in Managers : \E pc \in AtRest : r = ReaderAt(m, pc)
  <2>1. PICK m \in Managers : \E pc \in AtRest : r = ReaderAt(m, pc)
    BY <1>5
  <2>2. PICK pc \in AtRest : r = ReaderAt(m, pc)
    BY <2>1
  <2>3. r.of = m /\ r.pc = pc /\ r.cfg = NoSetting
    BY <1>2, <2>2
  <2> QED
    BY <2>2, <2>3
<1>6. CASE \E m \in Managers : \E c \in CmdIds : r = [ReaderAt(m, "lookup") EXCEPT !.cmd = c]
  <2>1. PICK m \in Managers, c \in CmdIds : r = [ReaderAt(m, "lookup") EXCEPT !.cmd = c]
    BY <1>6
  <2>2. /\ r.of = m /\ r.pc = "lookup" /\ r.cmd = c /\ r.cfg = NoSetting
        /\ r = [of |-> r.of, pc |-> "lookup", cmd |-> r.cmd, cfg |-> NoSetting,
                same |-> FALSE]
    BY <1>3, <2>1
  <2> QED
    BY <2>2
<1> QED
  BY <1>4, <1>1, <1>5, <1>6, Zenon

(* Readers at rest, and on their way to the settings, are readers.          *)
LEMMA ReaderMade ==
  ASSUME NEW m \in Managers
  PROVE  /\ \A pc \in AtRest :
              ReaderAt(m, pc) \in ReaderType /\ ReaderAt(m, pc).cfg = NoSetting
         /\ \A c \in CmdIds :
              /\ [ReaderAt(m, "lookup") EXCEPT !.cmd = c] \in ReaderType
              /\ [ReaderAt(m, "lookup") EXCEPT !.cmd = c].cfg = NoSetting
<1> USE DEF AtRest
<1>1. ASSUME NEW pc \in AtRest
      PROVE  ReaderAt(m, pc) \in ReaderType /\ ReaderAt(m, pc).cfg = NoSetting
  <2>1. ReaderAt(m, pc) \in ReaderType
    BY DEF ReaderType
  <2> QED
    BY <2>1 DEF ReaderAt
<1>2. ASSUME NEW c \in CmdIds
      PROVE  /\ [ReaderAt(m, "lookup") EXCEPT !.cmd = c] \in ReaderType
             /\ [ReaderAt(m, "lookup") EXCEPT !.cmd = c].cfg = NoSetting
  <2>1. [ReaderAt(m, "lookup") EXCEPT !.cmd = c] \in ReaderType
    BY DEF ReaderType
  <2> QED
    BY <2>1 DEF ReaderAt
<1> QED
  BY <1>1, <1>2

(* The settings a reader works with.                                        *)
LEMMA CfgType ==
  ASSUME TypeOK, LiveSettings, NEW t \in Threads, readers[t].pc \in {"count", "decide"}
  PROVE  /\ readers[t] \in BusyReader /\ readers[t].cmd \in CmdIds
         /\ readers[t].of \in Managers
         /\ Cfg(t) \in Setting
<1>1. readers[t] \in BusyReader
  BY ReaderCases DEF TypeOK
<1>2. readers[t].cmd \in CmdIds /\ readers[t].cfg \in Setting \union {Live}
      /\ readers[t].of \in Managers
  BY <1>1 DEF BusyReader
<1>3. settings \in [CmdIds -> Setting \union {NoSetting}]
  BY DEF TypeOK, ConfigTypeOK
<1> QED
  BY <1>1, <1>2, <1>3 DEF LiveSettings, Cfg

(* One reader is replaced by another that has no settings.                  *)
LEMMA ReaderReplaced ==
  ASSUME TypeOK, LiveSettings, NEW t \in Threads, NEW r \in ReaderType,
         r.cfg # Live, readers' = [readers EXCEPT ![t] = r], settings' = settings
  PROVE  readers' \in [Threads -> ReaderType] /\ LiveSettings'
BY DEF TypeOK, LiveSettings

(* The shape of the model's state: types, fields, live settings.            *)
Shape == TypeOK /\ FieldsBuilt /\ LiveSettings

(* The initial state has it.                                                *)
LEMMA ShapeInit == ASSUME Init PROVE Shape
<1>1. ConfigTypeOK /\ FieldsBuilt
  <2>1. FirstRows \in [Files -> Seq(RowType)] /\ MaxActs \in Nat
    BY SlaveConfigAssumption DEF SlaveConfigAssumption
  <2>2. commands = << >> /\ built = 0 /\ Len(commands) = 0 /\ commands \in Seq(RowType)
    BY DEF Init, ConfigInit
  <2>3. FieldsBuilt
    BY <2>2 DEF Init, ConfigInit, FieldsBuilt
  <2>4. settings \in [CmdIds -> Setting \union {NoSetting}]
    BY DEF Init, ConfigInit
  <2>5. files \in [Files -> Seq(RowType)]
    BY <2>1 DEF Init, ConfigInit
  <2>6. /\ current \in Files \union {NoFile} /\ gui \in {"idle", "loading", "joining"}
        /\ built \in 0 .. Len(commands) /\ acts \in 0 .. MaxActs
    BY <2>1, <2>2 DEF Init, ConfigInit
  <2>7. mixed \in BOOLEAN
    BY DEF Init, ConfigInit
  <2> QED
    BY <2>2, <2>3, <2>4, <2>5, <2>6, <2>7 DEF ConfigTypeOK
<1>2. /\ readers \in [Threads -> ReaderType] /\ LiveSettings
  <2>1. "serial" \in Managers
    BY DEF Managers
  <2>2. ReaderAt("serial", "ended") \in ReaderType /\ ReaderAt("serial", "ended").cfg = NoSetting
    BY <2>1, ReaderMade DEF AtRest
  <2> QED
    BY <2>2, SlaveConstants DEF Init, LiveSettings
<1>3. /\ line \in Seq(Token)
      /\ received \in Seq(CmdIds) /\ answers \in Seq(AnswerType)
  BY DEF Init
<1>4. stop \in [Managers -> BOOLEAN] /\ mode \in {"none"} \union Managers
  BY DEF Init
<1>5. sends \in 0 .. MaxFrames /\ clicks \in 0 .. MaxClicks
      /\ last_cmd_id \in CmdIds \union {NoCmd} /\ consecutive_count \in Nat
  BY SlaveConstants DEF Init
<1>6. open \in BOOLEAN /\ eof \in BOOLEAN /\ doubled \in BOOLEAN
  BY DEF Init
<1> QED
  BY <1>1, <1>2, <1>3, <1>4, <1>5, <1>6 DEF Shape, TypeOK

(* Steps that leave the settings and the readers' hold on them alone.       *)
LEMMA ShapeOther ==
  ASSUME Shape,
         UNCHANGED <<settings, commands, built, readers>>,
         gui' = gui \/ (gui = "idle" /\ gui' = "joining") \/ (gui = "joining" /\ gui' = "idle")
  PROVE  FieldsBuilt' /\ LiveSettings'
BY DEF Shape, FieldsBuilt, LiveSettings

(* A reload: the readers keep a copy of what is taken out of the table.     *)
LEMMA LoadShape == ASSUME Shape, Load PROVE Shape'
<1>1. ConfigTypeOK' /\ FieldsBuilt'
  BY LoadStep DEF Shape, TypeOK, Load
<1>2. ASSUME NEW t \in Threads
      PROVE  readers'[t] \in ReaderType /\ readers'[t].cfg # Live
  <2>1. readers[t] \in ReaderType
    BY DEF Shape, TypeOK
  <2>2. CASE readers[t].cfg = Live
    <3>1. readers[t] \in BusyReader /\ settings[readers[t].cmd] \in Setting
      <4>1. readers[t] \in BusyReader
        BY <2>1, <2>2, ReaderCases, SlaveConstants
      <4>2. readers[t].cmd \in CmdIds
        BY <4>1 DEF BusyReader
      <4>3. settings[readers[t].cmd] # NoSetting
        BY <2>2 DEF Shape, LiveSettings
      <4> QED
        BY <4>1, <4>2, <4>3 DEF Shape, TypeOK, ConfigTypeOK
    <3>2. readers'[t] = [readers[t] EXCEPT !.cfg = settings[readers[t].cmd]]
      BY <2>2 DEF Load, SettingsKept
    <3>3. readers'[t] \in BusyReader /\ readers'[t].cfg = settings[readers[t].cmd]
      BY <3>1, <3>2 DEF BusyReader
    <3> QED
      BY <3>1, <3>3, SlaveConstants DEF ReaderType
  <2>3. CASE readers[t].cfg # Live
    BY <2>1, <2>3 DEF Load, SettingsKept
  <2> QED
    BY <2>2, <2>3
<1>3. readers' \in [Threads -> ReaderType] /\ LiveSettings'
  BY <1>2 DEF LiveSettings, Load, SettingsKept
<1> QED
  BY <1>1, <1>3 DEF Shape, TypeOK, Load, linkVars, countVars

(* No other step of the GUI thread takes settings out of the table.         *)
LEMMA SettingsStay ==
  ASSUME ConfigTypeOK, FieldsBuilt, Configure, NEW c \in CmdIds, settings[c] # NoSetting
  PROVE  settings'[c] # NoSetting
<1>1. CASE CreateCommandUi
  <2>1. built' \in 1 .. Len(commands)
    BY <1>1 DEF ConfigTypeOK, FieldsBuilt, CreateCommandUi
  <2>2. commands[built'] \in RowType
    BY <2>1, RowLoaded
  <2>3. Fields(commands[built']) # NoSetting
    BY <2>2, FieldsOfRow, ConfigConstants
  <2> QED
    BY <1>1, <2>3 DEF CreateCommandUi, ConfigTypeOK
<1>2. ASSUME NEW d \in CmdIds, FieldEdit(d)
      PROVE  settings'[c] # NoSetting
  <2>1. settings'[d] \in Setting /\ \A e \in CmdIds \ {d} : settings'[e] = settings[e]
    BY <1>2, EditStep
  <2> QED
    BY <2>1, ConfigConstants
<1>3. CASE (\E f \in Files : BrowseConfigFile(f)) \/ SaveConfig
  BY <1>3 DEF BrowseConfigFile, SaveConfig
<1> QED
  BY <1>1, <1>2, <1>3 DEF Configure, FieldEdit

LEMMA ConfigureShape == ASSUME Shape, Configure PROVE Shape'
<1>1. ConfigTypeOK' /\ FieldsBuilt'
  BY ConfigStep DEF Shape, TypeOK, Configure, GuiStep, FieldEdit
<1>2. UNCHANGED <<linkVars, sends, clicks, readers, countVars, doubled, answers>>
  BY DEF Configure
<1>3. LiveSettings'
  <2>1. SUFFICES ASSUME NEW t \in Threads, readers[t].cfg = Live
                 PROVE  settings'[readers[t].cmd] # NoSetting
    BY <1>2 DEF LiveSettings
  <2>2. readers[t] \in BusyReader
    BY <2>1, ReaderCases, SlaveConstants DEF Shape, TypeOK
  <2>3. readers[t].cmd \in CmdIds /\ settings[readers[t].cmd] # NoSetting
    BY <2>1, <2>2 DEF BusyReader, Shape, LiveSettings
  <2> QED
    BY <2>3, SettingsStay DEF Shape, TypeOK
<1> QED
  BY <1>1, <1>2, <1>3 DEF Shape, TypeOK, linkVars, countVars

(* What is left on the line after a step.                                   *)
LEMMA LineType ==
  ASSUME Shape, line' = line \/ line' = << >>
  PROVE  line' \in Seq(Token)
<1>1. line \in Seq(Token) /\ << >> \in Seq(Token)
  BY DEF Shape, TypeOK
<1> QED
  BY <1>1

(* Connecting and disconnecting.                                            *)
LEMMA ConnectShape == ASSUME Shape, NEW m \in Managers, Connect(m) PROVE Shape'
<1>1. PICK t \in Threads :
        readers' = [readers EXCEPT ![t] = ReaderAt(m, IF m = "tcp" THEN "accept" ELSE "recv")]
  BY DEF Connect
<1>2. readers' \in [Threads -> ReaderType] /\ LiveSettings'
  <2> DEFINE r == ReaderAt(m, IF m = "tcp" THEN "accept" ELSE "recv")
  <2>1. r \in ReaderType /\ r.cfg = NoSetting
    BY ReaderMade DEF AtRest
  <2>2. settings' = settings
    BY DEF Connect, configVars
  <2> HIDE DEF r
  <2>3. readers' = [readers EXCEPT ![t] = r]
    BY <1>1 DEF r
  <2> QED
    BY <2>1, <2>2, <2>3, ReaderReplaced, SlaveConstants DEF Shape
<1>3. ConfigTypeOK' /\ FieldsBuilt'
  BY DEF Connect, configVars, Shape, TypeOK, ConfigTypeOK, FieldsBuilt
<1>4. stop' \in [Managers -> BOOLEAN] /\ mode' \in {"none"} \union Managers
  BY DEF Connect, Shape, TypeOK
<1>5. line' \in Seq(Token) /\ clicks' \in 0 .. MaxClicks
  BY SlaveConstants DEF Connect, Clicks, Shape, TypeOK
<1>6. open' \in BOOLEAN /\ eof' \in BOOLEAN
  BY DEF Connect
<1>7. doubled' \in BOOLEAN
  BY DEF Connect, Shape, TypeOK
<1>8. UNCHANGED <<sends, countVars, answers>>
  BY DEF Connect
<1> QED
  BY <1>2, <1>3, <1>4, <1>5, <1>6, <1>7, <1>8 DEF Shape, TypeOK, countVars

LEMMA DisconnectShape == ASSUME Shape, DisconnectBegin \/ DisconnectEnd PROVE Shape'
<1>1. /\ UNCHANGED <<settings, commands, built, readers, files, current, mixed, acts, eof,
                     sends, countVars, doubled, answers>>
      /\ gui' \in {"idle", "joining"}
      /\ (gui = "idle" /\ gui' = "joining") \/ (gui = "joining" /\ gui' = "idle")
  BY DEF DisconnectBegin, DisconnectEnd, Clicks
<1>2. FieldsBuilt' /\ LiveSettings'
  BY <1>1, ShapeOther
<1>3. ConfigTypeOK'
  BY <1>1 DEF Shape, TypeOK, ConfigTypeOK
<1>4. stop' \in [Managers -> BOOLEAN] /\ mode' \in {"none"} \union Managers
  BY DEF DisconnectBegin, DisconnectEnd, Shape, TypeOK
<1>5. line' \in Seq(Token)
  BY LineType DEF DisconnectBegin, DisconnectEnd
<1>6. clicks' \in 0 .. MaxClicks
  BY SlaveConstants DEF DisconnectBegin, DisconnectEnd, Clicks, Shape, TypeOK
<1>7. open' \in BOOLEAN
  BY DEF DisconnectBegin, DisconnectEnd, Shape, TypeOK
<1> QED
  BY <1>1, <1>2, <1>3, <1>4, <1>5, <1>6, <1>7 DEF Shape, TypeOK, countVars

(* The client connects, sends or closes.                                    *)
LEMMA ClientShape ==
  ASSUME Shape,
         ClientConnects \/ ClientCloses \/ (\E c \in Sendable : ClientSends(c))
  PROVE  Shape'
<1>1. /\ UNCHANGED <<mode, stop, clicks, countVars, doubled, answers, configVars>>
      /\ open' \in BOOLEAN /\ eof' \in BOOLEAN
  BY DEF ClientConnects, ClientCloses, ClientSends, Shape, TypeOK
<1>2. ConfigTypeOK' /\ FieldsBuilt' /\ settings' = settings
  BY <1>1 DEF configVars, Shape, TypeOK, ConfigTypeOK, FieldsBuilt
<1>3. readers' \in [Threads -> ReaderType] /\ LiveSettings'
  <2>1. CASE ClientConnects
    <3>1. PICK t \in Threads : readers' = [readers EXCEPT ![t] = ReaderAt("tcp", "recv")]
      BY <2>1 DEF ClientConnects
    <3>2. "tcp" \in Managers
      BY DEF Managers
    <3>3. ReaderAt("tcp", "recv") \in ReaderType /\ ReaderAt("tcp", "recv").cfg = NoSetting
      BY <3>2, ReaderMade DEF AtRest
    <3> QED
      BY <1>2, <3>1, <3>3, ReaderReplaced, SlaveConstants DEF Shape
  <2>2. CASE ~ClientConnects
    <3>1. readers' = readers
      BY <2>2 DEF ClientCloses, ClientSends
    <3> QED
      BY <1>2, <3>1 DEF Shape, TypeOK, LiveSettings
  <2> QED
    BY <2>1, <2>2
<1>4. line' \in Seq(Token) /\ sends' \in 0 .. MaxFrames
  <2>1. ASSUME NEW c \in Sendable, ClientSends(c)
        PROVE  line' \in Seq(Token) /\ sends' \in 0 .. MaxFrames
    <3>1. <<<<"head", c>>, <<"star", c>>, <<"end", c>>>> \in Seq(Token)
      BY DEF Token
    <3>2. line \in Seq(Token)
      BY DEF Shape, TypeOK
    <3>3. line \o <<<<"head", c>>, <<"star", c>>, <<"end", c>>>>
            \in Seq(Token)
      BY <3>1, <3>2, ConcatProperties
    <3>4. sends' \in 0 .. MaxFrames
      BY <2>1, SlaveConstants DEF ClientSends, Shape, TypeOK
    <3> QED
      BY <2>1, <3>3, <3>4 DEF ClientSends
  <2>2. CASE ClientConnects \/ ClientCloses
    <3>1. line' \in Seq(Token)
      BY <2>2, LineType DEF ClientConnects, ClientCloses
    <3>2. sends' = sends
      BY <2>2 DEF ClientConnects, ClientCloses
    <3> QED
      BY <3>1, <3>2 DEF Shape, TypeOK
  <2> QED
    BY <2>1, <2>2
<1> QED
  BY <1>1, <1>2, <1>3, <1>4 DEF Shape, TypeOK, countVars

(* A step of a reader: it is replaced, and what else it may change is typed. *)
LEMMA ReaderShape ==
  ASSUME Shape, NEW t \in Threads, NEW r \in ReaderType,
         r.cfg = Live => settings[r.cmd] # NoSetting,
         readers' = [readers EXCEPT ![t] = r],
         UNCHANGED <<mode, stop, eof, sends, clicks, doubled, configVars>>,
         open' \in BOOLEAN, line' \in Seq(Token),
         last_cmd_id' \in CmdIds \union {NoCmd}, consecutive_count' \in Nat,
         received' \in Seq(CmdIds), answers' \in Seq(AnswerType)
  PROVE  Shape'
<1>1. ConfigTypeOK' /\ FieldsBuilt' /\ settings' = settings
  BY DEF configVars, Shape, TypeOK, ConfigTypeOK, FieldsBuilt
<1>2. readers' \in [Threads -> ReaderType] /\ LiveSettings'
  BY <1>1 DEF Shape, TypeOK, LiveSettings
<1> QED
  BY <1>1, <1>2 DEF Shape, TypeOK

(* A reader goes on without a command in its hand.                          *)
LEMMA RestShape ==
  ASSUME Shape, NEW t \in Threads, NEW m \in Managers, NEW pc \in AtRest,
         readers' = [readers EXCEPT ![t] = ReaderAt(m, pc)],
         UNCHANGED <<mode, stop, eof, sends, clicks, countVars, doubled, configVars>>,
         open' \in BOOLEAN, line' = line \/ line' = << >>, answers' \in Seq(AnswerType)
  PROVE  Shape'
<1>1. ReaderAt(m, pc) \in ReaderType /\ ReaderAt(m, pc).cfg = NoSetting
  BY ReaderMade
<1>2. line' \in Seq(Token)
  BY LineType
<1>3. /\ last_cmd_id' \in CmdIds \union {NoCmd} /\ consecutive_count' \in Nat
      /\ received' \in Seq(CmdIds)
  BY DEF countVars, Shape, TypeOK
<1> QED
  BY <1>1, <1>2, <1>3, ReaderShape, SlaveConstants

(* Where a reader is after it has left its read loop.                       *)
LEMMA BreaksShape ==
  ASSUME Shape, NEW t \in Threads, ReadLoopBreaks(t),
         UNCHANGED <<sends, clicks, countVars, doubled, answers, configVars>>
  PROVE  Shape'
<1> DEFINE pc == IF readers[t].of = "tcp" THEN "close" ELSE "ended"
<1>1. readers[t].of \in Managers
  BY ReaderCases DEF Shape, TypeOK
<1>2. pc \in AtRest
  BY DEF AtRest
<1>3. readers' = [readers EXCEPT ![t] = ReaderAt(readers[t].of, pc)] /\ UNCHANGED linkVars
  BY DEF ReadLoopBreaks
<1> HIDE DEF pc
<1>4. open' \in BOOLEAN /\ answers' \in Seq(AnswerType)
  BY <1>3 DEF linkVars, Shape, TypeOK
<1> QED
  BY <1>1, <1>2, <1>3, <1>4, RestShape DEF linkVars

(* self.conn is closed, and forgotten.                                      *)
LEMMA GoneShape ==
  ASSUME Shape, NEW t \in Threads, NEW pc \in AtRest, ConnGone(t, pc)
  PROVE  Shape'
<1>1. "tcp" \in Managers
  BY DEF Managers
<1>2. /\ readers' = [readers EXCEPT ![t] = ReaderAt("tcp", pc)]
      /\ UNCHANGED <<mode, stop, eof, sends, clicks, countVars, doubled, answers, configVars>>
      /\ line' = line \/ line' = << >>
  BY DEF ConnGone
<1>3. open' \in BOOLEAN
  BY DEF ConnGone, Shape, TypeOK
<1>4. answers' \in Seq(AnswerType)
  BY <1>2 DEF Shape, TypeOK
<1> QED
  BY <1>1, <1>2, <1>3, <1>4, RestShape

LEMMA RecvShape ==
  ASSUME Shape, NEW t \in Threads, NEW n, Recv(t, n)
  PROVE  Shape'
<1> DEFINE cmd == ParseFrame(SubSeq(line, 1, n))
           r == IF Known(cmd) THEN [ReaderAt(readers[t].of, "lookup") EXCEPT !.cmd = cmd]
                ELSE readers[t]
<1>1. readers[t] \in ReaderType /\ readers[t].pc = "recv"
  BY DEF Shape, TypeOK, Recv
<1>2. readers[t].of \in Managers /\ readers[t] = ReaderAt(readers[t].of, "recv")
  BY <1>1, ReaderCases DEF AtRest
<1>3. r \in ReaderType /\ r.cfg = NoSetting
  <2> HIDE DEF cmd
  <2>1. CASE Known(cmd)
    <3>1. cmd \in CmdIds
      BY <2>1 DEF Known
    <3> QED
      BY <1>2, <2>1, <3>1, ReaderMade
  <2>2. CASE ~Known(cmd)
    BY <1>1, <1>2, <2>2, ReaderMade DEF AtRest
  <2> QED
    BY <2>1, <2>2
<1>4. readers' = [readers EXCEPT ![t] = r]
  BY DEF Recv
<1>5. line' \in Seq(Token)
  <2>1. line \in Seq(Token) /\ n \in 1 .. Len(line)
    BY DEF Shape, TypeOK, Recv
  <2>2. line' = SubSeq(line, n + 1, Len(line))
    BY DEF Recv
  <2> QED
    BY <2>1, <2>2, SubSeqProperties
<1>6. /\ UNCHANGED <<mode, stop, open, eof, sends, clicks, countVars, doubled, answers, configVars>>
  BY DEF Recv
<1> HIDE DEF r, cmd
<1>7. /\ last_cmd_id' \in CmdIds \union {NoCmd} /\ consecutive_count' \in Nat
      /\ received' \in Seq(CmdIds) /\ answers' \in Seq(AnswerType)
  BY <1>6 DEF countVars, Shape, TypeOK
<1>8. open' \in BOOLEAN
  BY <1>6 DEF Shape, TypeOK
<1> QED
  BY <1>3, <1>4, <1>5, <1>6, <1>7, <1>8, ReaderShape, SlaveConstants

LEMMA LookUpShape == ASSUME Shape, NEW t \in Threads, LookUp(t) PROVE Shape'
<1>0. UNCHANGED <<sends, clicks, countVars, doubled, answers, configVars>>
  BY DEF LookUp
<1>1. CASE settings[readers[t].cmd] = NoSetting
  BY <1>0, <1>1, BreaksShape DEF LookUp
<1>2. CASE settings[readers[t].cmd] # NoSetting
  <2> DEFINE r == [of |-> readers[t].of, pc |-> "count", cmd |-> readers[t].cmd, cfg |-> Live,
                   same |-> (last_cmd_id = readers[t].cmd)]
  <2>1. readers[t] \in ReaderType /\ readers[t].pc = "lookup"
    BY DEF Shape, TypeOK, LookUp
  <2>2. /\ readers[t].of \in Managers /\ readers[t].cmd \in CmdIds
        /\ readers[t] = [of |-> readers[t].of, pc |-> "lookup", cmd |-> readers[t].cmd,
                         cfg |-> NoSetting, same |-> FALSE]
    BY <2>1, ReaderCases
  <2>3. (last_cmd_id = readers[t].cmd) \in BOOLEAN
    OBVIOUS
  <2>4. r \in BusyReader /\ r.cmd = readers[t].cmd
    <3>1. ASSUME NEW m \in Managers, NEW c \in CmdIds, NEW S, NEW b \in S
          PROVE  [of |-> m, pc |-> "count", cmd |-> c, cfg |-> Live, same |-> b]
                   \in [of : Managers, pc : {"count", "decide"}, cmd : CmdIds,
                        cfg : Setting \union {Live}, same : S]
      <4>1. "count" \in {"count", "decide"} /\ Live \in Setting \union {Live}
        OBVIOUS
      <4> HIDE DEF Managers
      <4> QED
        BY <3>1, <4>1
    <3>2. r \in BusyReader
      BY <2>2, <2>3, <3>1, Zenon DEF BusyReader
    <3>3. r.cmd = readers[t].cmd
      OBVIOUS
    <3> QED
      BY <3>2, <3>3
  <2>5. r \in ReaderType
    BY <2>4 DEF ReaderType
  <2>6. settings[r.cmd] # NoSetting
    BY <1>2, <2>4
  <2>7. readers' = [readers EXCEPT ![t] = r] /\ UNCHANGED linkVars
    BY <1>2 DEF LookUp
  <2> HIDE DEF r
  <2>8. open' \in BOOLEAN
    BY <2>7 DEF linkVars, Shape, TypeOK
  <2>9. /\ line' \in Seq(Token)
        /\ last_cmd_id' \in CmdIds \union {NoCmd} /\ consecutive_count' \in Nat
        /\ received' \in Seq(CmdIds) /\ answers' \in Seq(AnswerType)
    BY <1>0, <2>7 DEF linkVars, countVars, Shape, TypeOK
  <2>10. UNCHANGED <<mode, stop, eof, sends, clicks, doubled, configVars>>
    BY <1>0, <2>7 DEF linkVars
  <2> QED
    BY <2>5, <2>6, <2>7, <2>8, <2>9, <2>10, ReaderShape
<1> QED
  BY <1>1, <1>2

LEMMA CountShape == ASSUME Shape, NEW t \in Threads, CountRun(t) PROVE Shape'
<1>0. UNCHANGED <<linkVars, sends, clicks, doubled, answers, configVars>>
  BY DEF CountRun
<1> DEFINE r == [readers[t] EXCEPT !.pc = "decide"]
<1>1. readers[t] \in BusyReader /\ readers[t].cmd \in CmdIds
  BY CfgType DEF Shape, CountRun
<1>2. r \in BusyReader /\ r.cfg = readers[t].cfg /\ r.cmd = readers[t].cmd
  BY <1>1 DEF BusyReader
<1>3. r \in ReaderType
  BY <1>2 DEF ReaderType
<1>4. r.cfg = Live => settings[r.cmd] # NoSetting
  BY <1>2 DEF Shape, LiveSettings
<1>5. readers' = [readers EXCEPT ![t] = r]
  BY DEF CountRun
<1> HIDE DEF r
<1>6. received' \in Seq(CmdIds)
  <2>1. received \in Seq(CmdIds)
    BY DEF Shape, TypeOK
  <2> QED
    BY <1>1, <2>1, AppendProperties DEF CountRun
<1>7. consecutive_count' \in Nat /\ last_cmd_id' \in CmdIds \union {NoCmd}
  BY <1>1 DEF CountRun, Shape, TypeOK
<1>8. open' \in BOOLEAN
  BY <1>0 DEF linkVars, Shape, TypeOK
<1>9. line' \in Seq(Token) /\ answers' \in Seq(AnswerType)
  BY <1>0 DEF linkVars, Shape, TypeOK
<1>10. UNCHANGED <<mode, stop, eof, sends, clicks, doubled, configVars>>
  BY <1>0 DEF linkVars
<1> QED
  BY <1>3, <1>4, <1>5, <1>6, <1>7, <1>8, <1>9, <1>10, ReaderShape

LEMMA DecideShape == ASSUME Shape, NEW t \in Threads, Decide(t) PROVE Shape'
<1>0. UNCHANGED <<sends, clicks, countVars, doubled, configVars>>
  BY DEF Decide
<1>1. CASE Cfg(t).start_after = Unreadable
  BY <1>0, <1>1, BreaksShape DEF Decide
<1>2. CASE Cfg(t).start_after # Unreadable
  <2>1. /\ readers[t].of \in Managers /\ readers[t].cmd \in CmdIds /\ Cfg(t) \in Setting
    BY CfgType DEF Shape, Decide
  <2>2. "recv" \in AtRest
    BY DEF AtRest
  <2>3. readers' = [readers EXCEPT ![t] = ReaderAt(readers[t].of, "recv")] /\ UNCHANGED linkVars
    BY <1>2 DEF Decide
  <2>4. answers' \in Seq(AnswerType)
    <3>1. answers \in Seq(AnswerType)
      BY DEF Shape, TypeOK
    <3>2. NewAnswer(t) \in AnswerType
      BY <2>1 DEF Setting, AnswerType, NewAnswer
    <3>3. Append(answers, NewAnswer(t)) \in Seq(AnswerType)
      BY <3>1, <3>2, AppendProperties
    <3> QED
      BY <1>2, <3>1, <3>3 DEF Decide
  <2>5. open' \in BOOLEAN
    BY <2>3 DEF linkVars, Shape, TypeOK
  <2> QED
    BY <1>0, <2>1, <2>2, <2>3, <2>4, <2>5, RestShape DEF linkVars
<1> QED
  BY <1>1, <1>2

LEMMA EndsShape == ASSUME Shape, NEW t \in Threads, ReaderEnds(t) PROVE Shape'
<1>0. UNCHANGED <<sends, clicks, countVars, doubled, answers, configVars>>
  BY DEF ReaderEnds
<1>1. CASE readers[t].pc = "accept"
  <2>1. readers[t].of \in Managers /\ "ended" \in AtRest
    BY ReaderCases DEF Shape, TypeOK, AtRest
  <2>2. readers' = [readers EXCEPT ![t] = ReaderAt(readers[t].of, "ended")] /\ UNCHANGED linkVars
    BY <1>1 DEF ReaderEnds
  <2>3. open' \in BOOLEAN /\ answers' \in Seq(AnswerType)
    BY <1>0, <2>2 DEF linkVars, Shape, TypeOK
  <2> QED
    BY <1>0, <2>1, <2>2, <2>3, RestShape DEF linkVars
<1>2. CASE readers[t].pc # "accept"
  BY <1>0, <1>2, BreaksShape DEF ReaderEnds
<1> QED
  BY <1>1, <1>2

(* An answer is taken out of those that wait.                               *)
LEMMA AnswersLeft ==
  ASSUME Shape, NEW k, AnswerGoes(k)
  PROVE  /\ answers' \in Seq(AnswerType)
         /\ \A j \in 1 .. Len(answers') : \E i \in 1 .. Len(answers) : answers'[j] = answers[i]
<1>1. answers \in Seq(AnswerType) /\ k \in 1 .. Len(answers)
  BY DEF Shape, TypeOK, AnswerGoes
<1> DEFINE u == SubSeq(answers, 1, k - 1)
           v == SubSeq(answers, k + 1, Len(answers))
<1>2. /\ u \in Seq(AnswerType) /\ Len(u) = k - 1
      /\ \A j \in 1 .. Len(u) : u[j] = answers[j]
  BY <1>1, SubSeqProperties
<1>3. /\ v \in Seq(AnswerType) /\ Len(v) = Len(answers) - k
      /\ \A j \in 1 .. Len(v) : v[j] = answers[k + j]
  BY <1>1, SubSeqProperties
<1>4. answers' = u \o v
  BY DEF AnswerGoes, RemoveAt
<1> HIDE DEF u, v
<1>5. answers' \in Seq(AnswerType) /\ Len(answers') = Len(u) + Len(v)
  BY <1>2, <1>3, <1>4, ConcatProperties
<1>6. ASSUME NEW j \in 1 .. Len(answers')
      PROVE  \E i \in 1 .. Len(answers) : answers'[j] = answers[i]
  <2>1. CASE j <= Len(u)
    BY <1>1, <1>2, <1>3, <1>4, <1>5, <2>1
  <2>2. CASE ~(j <= Len(u))
    <3>1. j - Len(u) \in 1 .. Len(v) /\ answers'[j] = v[j - Len(u)]
      BY <1>1, <1>2, <1>3, <1>4, <1>5, <2>2
    <3>2. answers'[j] = answers[j + 1] /\ j + 1 \in 1 .. Len(answers)
      BY <1>1, <1>2, <1>3, <3>1
    <3> QED
      BY <3>2
  <2> QED
    BY <2>1, <2>2
<1> QED
  BY <1>5, <1>6

LEMMA AnswerGoesShape == ASSUME Shape, NEW k, AnswerGoes(k) PROVE Shape'
<1>1. answers' \in Seq(AnswerType)
  BY AnswersLeft
<1>2. UNCHANGED <<linkVars, sends, clicks, readers, countVars, doubled, configVars>>
  BY DEF AnswerGoes
<1>3. ConfigTypeOK' /\ FieldsBuilt'
  BY <1>2 DEF configVars, Shape, TypeOK, ConfigTypeOK, FieldsBuilt
<1>4. LiveSettings'
  BY <1>2 DEF configVars, Shape, LiveSettings
<1> QED
  BY <1>1, <1>2, <1>3, <1>4 DEF Shape, TypeOK, linkVars, countVars

(* Every step of a reader, and every step.                                  *)
LEMMA ReaderStepShape == ASSUME Shape, NEW t \in Threads, Reader(t) PROVE Shape'
<1>1. CASE RecvFails(t)
  BY <1>1, BreaksShape DEF RecvFails
<1>2. CASE LookUp(t) \/ CountRun(t) \/ Decide(t) \/ ReaderEnds(t)
  BY <1>2, LookUpShape, CountShape, DecideShape, EndsShape
<1>3. CASE CloseConn(t) \/ ForgetConn(t)
  <2>1. "forget" \in AtRest /\ "accept" \in AtRest
    BY DEF AtRest
  <2> QED
    BY <1>3, <2>1, GoneShape DEF CloseConn, ForgetConn
<1>4. ASSUME NEW n, Recv(t, n) PROVE Shape'
  BY <1>4, RecvShape
<1> QED
  BY <1>1, <1>2, <1>3, <1>4 DEF Reader

LEMMA ShapeStep == ASSUME Shape, [Next]_slaveVars PROVE Shape'
<1>1. CASE Load \/ Configure
  BY <1>1, LoadShape, ConfigureShape
<1>2. ASSUME NEW m \in Managers, Connect(m) PROVE Shape'
  BY <1>2, ConnectShape
<1>3. CASE DisconnectBegin \/ DisconnectEnd
  BY <1>3, DisconnectShape
<1>4. CASE ClientConnects \/ ClientCloses \/ (\E c \in Sendable : ClientSends(c))
  BY <1>4, ClientShape
<1>5. ASSUME NEW t \in Threads, Reader(t) PROVE Shape'
  BY <1>5, ReaderStepShape
<1>6. ASSUME NEW k, AnswerGoes(k) PROVE Shape'
  BY <1>6, AnswerGoesShape
<1>7. CASE UNCHANGED slaveVars
  <2>1. UNCHANGED <<linkVars, sends, clicks, readers, countVars, doubled, answers, configVars>>
    BY <1>7 DEF slaveVars
  <2>2. ConfigTypeOK' /\ FieldsBuilt'
    BY <2>1 DEF configVars, Shape, TypeOK, ConfigTypeOK, FieldsBuilt
  <2>3. LiveSettings'
    BY <2>1 DEF configVars, Shape, LiveSettings
  <2> QED
    BY <2>1, <2>2, <2>3 DEF Shape, TypeOK, linkVars, countVars
<1> QED
  BY <1>1, <1>2, <1>3, <1>4, <1>5, <1>6, <1>7 DEF Next

(* The slave's state has the types it is meant to have, whatever is loaded,  *)
(* edited, saved, sent or closed, and in whatever order: the fields a reader *)
(* works with are there although the table is being reloaded.               *)
THEOREM SlaveTypeCorrect == Spec => []TypeOK
<1>1. Init => Shape
  BY ShapeInit
<1>2. Shape /\ [Next]_slaveVars => Shape'
  BY ShapeStep
<1>3. Shape => TypeOK
  BY DEF Shape
<1> QED
  BY <1>1, <1>2, <1>3, PTL DEF Spec

-----------------------------------------------------------------------------
(* What a step of a reader does, seen from outside                          *)

(* A reader without a command in its hand has no settings in it either.     *)
LEMMA RestHasNone ==
  ASSUME NEW m, NEW pc
  PROVE  ReaderAt(m, pc).of = m /\ ReaderAt(m, pc).pc = pc /\ ReaderAt(m, pc).cfg = NoSetting
BY DEF ReaderAt

(* Leaving the read loop, it has none.                                      *)
LEMMA Breaks ==
  ASSUME NEW t \in Threads, ReadLoopBreaks(t)
  PROVE  /\ \E pc \in AtRest \ {"recv"} :
              readers' = [readers EXCEPT ![t] = ReaderAt(readers[t].of, pc)]
         /\ UNCHANGED linkVars
<1> DEFINE pc == IF readers[t].of = "tcp" THEN "close" ELSE "ended"
<1>1. pc \in AtRest \ {"recv"}
  BY DEF AtRest
<1>2. readers' = [readers EXCEPT ![t] = ReaderAt(readers[t].of, pc)] /\ UNCHANGED linkVars
  BY DEF ReadLoopBreaks
<1> HIDE DEF pc
<1> QED
  BY <1>1, <1>2

(* The steps of a reader that has no command in its hand.                   *)
Resting(t) == RecvFails(t) \/ ReaderEnds(t) \/ CloseConn(t) \/ ForgetConn(t)

LEMMA Rests ==
  ASSUME Shape, NEW t \in Threads, Resting(t)
  PROVE  /\ \E m \in Managers : \E pc \in AtRest \ {"recv"} :
              readers' = [readers EXCEPT ![t] = ReaderAt(m, pc)]
         /\ UNCHANGED <<mode, stop, eof, sends, clicks, countVars, doubled, answers, configVars>>
         /\ readers[t].pc # "ended"
<1>1. readers[t].of \in Managers /\ "tcp" \in Managers
  BY ReaderCases DEF Shape, TypeOK, Managers
<1>2. "ended" \in AtRest \ {"recv"} /\ "forget" \in AtRest \ {"recv"}
      /\ "accept" \in AtRest \ {"recv"}
  BY DEF AtRest
<1>3. CASE RecvFails(t) \/ (ReaderEnds(t) /\ readers[t].pc # "accept")
  <2>1. /\ ReadLoopBreaks(t) /\ readers[t].pc # "ended"
        /\ UNCHANGED <<sends, clicks, countVars, doubled, answers, configVars>>
    BY <1>3 DEF RecvFails, ReaderEnds
  <2> QED
    BY <1>1, <2>1, Breaks DEF linkVars
<1>4. CASE ReaderEnds(t) /\ readers[t].pc = "accept"
  <2>1. /\ readers' = [readers EXCEPT ![t] = ReaderAt(readers[t].of, "ended")]
        /\ UNCHANGED <<linkVars, sends, clicks, countVars, doubled, answers, configVars>>
    BY <1>4 DEF ReaderEnds
  <2> QED
    BY <1>1, <1>2, <1>4, <2>1 DEF linkVars
<1>5. CASE CloseConn(t)
  <2>1. readers' = [readers EXCEPT ![t] = ReaderAt("tcp", "forget")]
        /\ UNCHANGED <<mode, stop, eof, sends, clicks, countVars, doubled, answers, configVars>>
        /\ readers[t].pc # "ended"
    BY <1>5 DEF CloseConn, ConnGone
  <2> QED
    BY <1>1, <1>2, <2>1
<1>6. CASE ForgetConn(t)
  <2>1. readers' = [readers EXCEPT ![t] = ReaderAt("tcp", "accept")]
        /\ UNCHANGED <<mode, stop, eof, sends, clicks, countVars, doubled, answers, configVars>>
        /\ readers[t].pc # "ended"
    BY <1>6 DEF ForgetConn, ConnGone
  <2> QED
    BY <1>1, <1>2, <2>1
<1> QED
  BY <1>3, <1>4, <1>5, <1>6 DEF Resting

(* What no step of a reader changes.                                        *)
LEMMA ReaderMoves ==
  ASSUME Shape, NEW t \in Threads, Reader(t)
  PROVE  /\ UNCHANGED <<mode, stop, eof, sends, clicks, doubled, configVars>>
         /\ readers[t].pc # "ended"
         /\ \A u \in Threads \ {t} : readers'[u] = readers[u]
<1>1. CASE Resting(t)
  BY <1>1, Rests DEF Shape, TypeOK
<1>2. CASE LookUp(t) \/ Decide(t)
  <2>1. /\ UNCHANGED <<sends, clicks, doubled, configVars>> /\ UNCHANGED linkVars
        /\ readers[t].pc # "ended"
    BY <1>2 DEF LookUp, Decide, ReadLoopBreaks
  <2>2. PICK r : readers' = [readers EXCEPT ![t] = r]
    BY <1>2 DEF LookUp, Decide, ReadLoopBreaks
  <2>3. \A u \in Threads \ {t} : readers'[u] = readers[u]
    BY <2>2 DEF Shape, TypeOK
  <2> QED
    BY <2>1, <2>3 DEF linkVars
<1>3. CASE CountRun(t)
  BY <1>3 DEF CountRun, linkVars, Shape, TypeOK
<1>4. ASSUME NEW n, Recv(t, n)
      PROVE  /\ UNCHANGED <<mode, stop, eof, sends, clicks, doubled, configVars>>
             /\ readers[t].pc # "ended"
             /\ \A u \in Threads \ {t} : readers'[u] = readers[u]
  <2>1. PICK r : readers' = [readers EXCEPT ![t] = r]
    BY <1>4 DEF Recv
  <2>2. \A u \in Threads \ {t} : readers'[u] = readers[u]
    BY <2>1 DEF Shape, TypeOK
  <2> QED
    BY <1>4, <2>2 DEF Recv
<1> QED
  BY <1>1, <1>2, <1>3, <1>4 DEF Reader, Resting

-----------------------------------------------------------------------------
(* Whose data is sent                                                       *)

(* As long as no save has mixed the rows of two files, whatever holds data  *)
(* holds it for its own command: the files and the rows loaded from them,   *)
(* the table, the settings a reader kept, and the answers that wait.        *)
OwnRows(rows) == \A i \in 1 .. Len(rows) : rows[i].resp_hex.of = rows[i].cmd_id
OwnFiles    == (\A f \in Files : OwnRows(files[f])) /\ OwnRows(commands)
OwnSettings == \A c \in CmdIds : settings[c] # NoSetting => settings[c].resp_hex.of = c
OwnReaders  ==
  \A t \in Threads : readers[t].cfg \in Setting => readers[t].cfg.resp_hex.of = readers[t].cmd
Own == ~mixed => OwnFiles /\ OwnSettings /\ OwnReaders /\ OwnAnswers

LEMMA OwnInit == ASSUME Init PROVE Own
<1>1. OwnFiles
  <2>1. \A f \in Files : OwnRows(FirstRows[f])
    BY SlaveConfigAssumption DEF SlaveConfigAssumption, OwnRows
  <2>2. files = FirstRows /\ commands = << >>
    BY DEF Init, ConfigInit
  <2> QED
    BY <2>1, <2>2 DEF OwnFiles, OwnRows
<1>2. OwnSettings
  BY DEF Init, ConfigInit, OwnSettings
<1>3. OwnReaders
  BY ConfigConstants DEF Init, OwnReaders, ReaderAt
<1>4. OwnAnswers
  BY DEF Init, OwnAnswers
<1> QED
  BY <1>1, <1>2, <1>3, <1>4 DEF Own

(* A save in which nothing is mixed writes, into each row, the field of that *)
(* row.                                                                     *)
LEMMA SaveOwn ==
  ASSUME ConfigTypeOK, FieldsBuilt, OwnFiles, OwnSettings, SaveConfig, ~mixed'
  PROVE  OwnFiles'
<1> DEFINE old == files[SaveTarget]
           rows == IF old = << >> THEN commands ELSE old
           saved == [k \in 1 .. Len(rows) |-> SavedRow(rows[k], k)]
<1>1. /\ SaveTarget \in Files /\ rows \in Seq(RowType)
      /\ \A k \in 1 .. Len(rows) :
           /\ SavedRow(rows[k], k).cmd_id = rows[k].cmd_id
           /\ SavedRow(rows[k], k).resp_hex =
                IF k <= Len(commands) THEN Shown(commands[k]) ELSE rows[k].resp_hex
      /\ files' = [files EXCEPT ![SaveTarget] = saved]
  BY SavedRows
<1>2. \A k \in 1 .. Len(rows) : k <= Len(commands) => rows[k].cmd_id = commands[k].cmd_id
  BY DEF SaveConfig
<1>3. OwnRows(rows)
  BY <1>1 DEF OwnFiles
<1>4. commands' = commands
  BY DEF SaveConfig
<1> HIDE DEF rows
<1>5. ASSUME NEW k \in 1 .. Len(rows)
      PROVE  SavedRow(rows[k], k).resp_hex.of = SavedRow(rows[k], k).cmd_id
  <2>1. CASE k <= Len(commands)
    <3>1. k \in 1 .. Len(commands)
      BY <1>1, <2>1 DEF ConfigTypeOK
    <3>2. /\ commands[k] \in RowType /\ settings[commands[k].cmd_id] \in Setting
          /\ Shown(commands[k]).of = settings[commands[k].cmd_id].resp_hex.of
      BY <3>1, ShownText DEF SaveConfig, UserActs
    <3>3. settings[commands[k].cmd_id].resp_hex.of = commands[k].cmd_id
      BY <3>2, ConfigConstants DEF OwnSettings, RowType
    <3> QED
      BY <1>1, <1>2, <2>1, <3>2, <3>3
  <2>2. CASE ~(k <= Len(commands))
    BY <1>1, <1>3, <2>2 DEF OwnRows
  <2> QED
    BY <2>1, <2>2
<1>6. Len(saved) = Len(rows) /\ \A k \in 1 .. Len(rows) : saved[k] = SavedRow(rows[k], k)
  <2>1. Len(rows) \in Nat
    BY <1>1
  <2> QED
    BY <2>1
<1>7. OwnRows(saved)
  <2> HIDE DEF saved
  <2> QED
    BY <1>5, <1>6 DEF OwnRows
<1>8. \A f \in Files : OwnRows(files'[f])
  <2> HIDE DEF saved
  <2> QED
    BY <1>1, <1>7 DEF OwnFiles, ConfigTypeOK
<1> QED
  BY <1>4, <1>8 DEF OwnFiles

(* What the GUI thread does to files, rows and fields.                      *)
LEMMA OwnConfig ==
  ASSUME ConfigTypeOK, FieldsBuilt, OwnFiles, OwnSettings, GuiStep, ~mixed'
  PROVE  OwnFiles' /\ OwnSettings'
<1>1. CASE \E f \in Files : BrowseConfigFile(f)
  BY <1>1 DEF BrowseConfigFile, OwnFiles, OwnSettings
<1>2. CASE LoadConfigFile
  <2>1. OwnRows(files[current])
    BY <1>2 DEF LoadConfigFile, OwnFiles, ConfigTypeOK
  <2>2. files' = files /\ commands' = files[current]
    BY <1>2 DEF LoadConfigFile
  <2>3. OwnSettings'
    BY <1>2 DEF LoadConfigFile, OwnSettings
  <2> QED
    BY <2>1, <2>2, <2>3 DEF OwnFiles
<1>3. CASE CreateCommandUi
  <2>1. built' \in 1 .. Len(commands)
    BY <1>3 DEF ConfigTypeOK, FieldsBuilt, CreateCommandUi
  <2>2. commands[built'] \in RowType /\ commands[built'].cmd_id \in CmdIds
        /\ commands[built'].resp_hex.of = commands[built'].cmd_id
    BY <2>1, RowLoaded DEF OwnFiles, OwnRows
  <2>3. Fields(commands[built']).resp_hex.of = commands[built'].cmd_id
    BY <2>2, FieldsOfRow
  <2>4. OwnSettings'
    BY <1>3, <2>2, <2>3 DEF CreateCommandUi, ConfigTypeOK, OwnSettings
  <2> QED
    BY <1>3, <2>4 DEF CreateCommandUi, OwnFiles
<1>4. ASSUME NEW c \in CmdIds, FieldEdit(c) PROVE OwnFiles' /\ OwnSettings'
  <2>1. /\ UNCHANGED <<files, commands, mixed>>
        /\ settings[c] \in Setting
        /\ settings'[c].resp_hex.of \in {settings[c].resp_hex.of, c}
        /\ \A d \in CmdIds \ {c} : settings'[d] = settings[d]
    BY <1>4, EditStep
  <2> QED
    BY <2>1, ConfigConstants DEF OwnFiles, OwnSettings
<1>5. CASE SaveConfig
  BY <1>5, SaveOwn DEF SaveConfig, OwnSettings
<1> QED
  BY <1>1, <1>2, <1>3, <1>4, <1>5 DEF GuiStep

(* A save once mixed stays in the history.                                  *)
LEMMA MixedStays ==
  ASSUME Shape, [Next]_slaveVars, ~mixed'
  PROVE  ~mixed
<1>1. CASE GuiStep
  BY <1>1 DEF GuiStep, FieldEdit, BrowseConfigFile, LoadConfigFile, CreateCommandUi,
              EditStartAfter, TypeRespHex, FocusOut, SaveConfig
<1>2. CASE UNCHANGED mixed
  BY <1>2
<1>3. CASE Load \/ Configure
  BY <1>1, <1>3 DEF Load, Configure, GuiStep, FieldEdit
<1>4. ASSUME NEW t \in Threads, Reader(t) PROVE UNCHANGED mixed
  BY <1>4, ReaderMoves DEF configVars
<1> QED
  BY <1>2, <1>3, <1>4
     DEF Next, Connect, DisconnectBegin, DisconnectEnd, ClientConnects, ClientCloses,
         ClientSends, AnswerGoes, slaveVars, configVars

(* A step that replaces a reader by one that keeps its settings, or has none *)
(* of its own.                                                              *)
LEMMA OwnReaderReplaced ==
  ASSUME TypeOK, OwnReaders, NEW t \in Threads, NEW r,
         r.cfg \in Setting => r.cfg = readers[t].cfg /\ r.cmd = readers[t].cmd,
         readers' = [readers EXCEPT ![t] = r]
  PROVE  OwnReaders'
BY DEF TypeOK, OwnReaders

(* The data of an answer.                                                   *)
LEMMA OwnCfg ==
  ASSUME Shape, OwnSettings, OwnReaders, NEW t \in Threads, readers[t].pc = "decide"
  PROVE  Cfg(t).resp_hex.of = readers[t].cmd
<1>1. readers[t] \in BusyReader /\ readers[t].cmd \in CmdIds /\ Cfg(t) \in Setting
  BY CfgType DEF Shape
<1> QED
  BY <1>1, ConfigConstants DEF Cfg, OwnSettings, OwnReaders

(* What the readers do: a reader that decides to answer copies its data.    *)
LEMMA OwnReaderStep ==
  ASSUME Shape, OwnSettings, OwnReaders, OwnAnswers, ~mixed, NEW t \in Threads, Reader(t)
  PROVE  OwnReaders' /\ OwnAnswers'
<1>1. readers[t] \in ReaderType /\ readers[t].of \in Managers
  BY ReaderCases DEF Shape, TypeOK
<1>2. ASSUME NEW m, NEW pc, readers' = [readers EXCEPT ![t] = ReaderAt(m, pc)]
      PROVE  OwnReaders'
  <2> DEFINE r == ReaderAt(m, pc)
  <2>1. r.cfg = NoSetting
    BY RestHasNone
  <2>2. readers' = [readers EXCEPT ![t] = r]
    BY <1>2
  <2> HIDE DEF r
  <2> QED
    BY <2>1, <2>2, ConfigConstants, OwnReaderReplaced DEF Shape
<1>3. CASE LookUp(t)
  <2>1. CASE settings[readers[t].cmd] = NoSetting
    BY <1>2, <1>3, <2>1, Breaks DEF LookUp, OwnAnswers
  <2>2. CASE settings[readers[t].cmd] # NoSetting
    <3> DEFINE r == [of |-> readers[t].of, pc |-> "count", cmd |-> readers[t].cmd, cfg |-> Live,
                     same |-> (last_cmd_id = readers[t].cmd)]
    <3>1. r.cfg = Live
      OBVIOUS
    <3>2. readers' = [readers EXCEPT ![t] = r] /\ UNCHANGED <<answers, mixed>>
      BY <1>3, <2>2 DEF LookUp, configVars
    <3> HIDE DEF r
    <3> QED
      BY <3>1, <3>2, SlaveConstants, OwnReaderReplaced DEF Shape, OwnAnswers
  <2> QED
    BY <2>1, <2>2
<1>4. CASE CountRun(t)
  <2> DEFINE r == [readers[t] EXCEPT !.pc = "decide"]
  <2>1. r.cfg = readers[t].cfg /\ r.cmd = readers[t].cmd
    BY <1>4, CfgType DEF Shape, CountRun, BusyReader
  <2>2. readers' = [readers EXCEPT ![t] = r] /\ UNCHANGED <<answers, mixed>>
    BY <1>4 DEF CountRun, configVars
  <2> HIDE DEF r
  <2> QED
    BY <2>1, <2>2, OwnReaderReplaced DEF Shape, OwnAnswers
<1>5. CASE Decide(t)
  <2>1. CASE Cfg(t).start_after = Unreadable
    BY <1>2, <1>5, <2>1, Breaks DEF Decide, OwnAnswers
  <2>2. CASE Cfg(t).start_after # Unreadable
    <3> DEFINE answer == NewAnswer(t)
    <3>1. readers' = [readers EXCEPT ![t] = ReaderAt(readers[t].of, "recv")]
          /\ (answers' = answers \/ answers' = Append(answers, answer))
      BY <1>5, <2>2 DEF Decide
    <3>2. answer.hex.of = answer.cmd
      BY <1>5, OwnCfg DEF Decide, NewAnswer
    <3>3. answers \in Seq(AnswerType) /\ answer \in AnswerType
      BY <1>5, CfgType DEF Shape, TypeOK, Decide, AnswerType, Setting, NewAnswer
    <3> HIDE DEF answer
    <3>4. OwnReaders'
      BY <1>2, <3>1
    <3>5. OwnAnswers'
      BY <3>1, <3>2, <3>3, AppendProperties DEF OwnAnswers
    <3> QED
      BY <3>4, <3>5
  <2> QED
    BY <2>1, <2>2
<1>6. CASE Resting(t)
  BY <1>2, <1>6, Rests DEF OwnAnswers
<1>7. ASSUME NEW n, Recv(t, n) PROVE OwnReaders' /\ OwnAnswers'
  <2> DEFINE cmd == ParseFrame(SubSeq(line, 1, n))
             r == IF Known(cmd) THEN [ReaderAt(readers[t].of, "lookup") EXCEPT !.cmd = cmd]
                  ELSE readers[t]
  <2>1. r.cfg \in Setting => r.cfg = readers[t].cfg /\ r.cmd = readers[t].cmd
    <3> HIDE DEF cmd
    <3>1. CASE Known(cmd)
      <4>1. cmd \in CmdIds
        BY <3>1 DEF Known
      <4> QED
        BY <1>1, <3>1, <4>1, ReaderMade, ConfigConstants
    <3> QED
      BY <3>1
  <2>2. readers' = [readers EXCEPT ![t] = r] /\ UNCHANGED <<answers, mixed>>
    BY <1>7 DEF Recv, configVars
  <2> HIDE DEF r
  <2> QED
    BY <2>1, <2>2, OwnReaderReplaced DEF Shape, OwnAnswers
<1> QED
  BY <1>3, <1>4, <1>5, <1>6, <1>7 DEF Reader, Resting

(* A reload: what the readers keep is what the table had.                   *)
LEMMA OwnLoad ==
  ASSUME Shape, OwnFiles, OwnSettings, OwnReaders, OwnAnswers, ~mixed, Load
  PROVE  OwnFiles' /\ OwnSettings' /\ OwnReaders' /\ OwnAnswers'
<1>1. ~mixed'
  BY DEF Load, LoadConfigFile
<1>2. OwnFiles' /\ OwnSettings'
  BY <1>1, OwnConfig DEF Load, GuiStep, Shape, TypeOK
<1>3. ASSUME NEW t \in Threads, readers'[t].cfg \in Setting
      PROVE  readers'[t].cfg.resp_hex.of = readers'[t].cmd
  <2>1. CASE readers[t].cfg = Live
    <3>1. readers[t] \in BusyReader
      BY <2>1, ReaderCases, SlaveConstants DEF Shape, TypeOK
    <3>2. readers[t].cmd \in CmdIds /\ settings[readers[t].cmd] # NoSetting
      BY <2>1, <3>1 DEF BusyReader, Shape, LiveSettings
    <3>3. readers'[t] = [readers[t] EXCEPT !.cfg = settings[readers[t].cmd]]
      BY <2>1 DEF Load, SettingsKept
    <3>4. readers'[t].cfg = settings[readers[t].cmd] /\ readers'[t].cmd = readers[t].cmd
      BY <3>1, <3>3 DEF BusyReader
    <3> QED
      BY <3>2, <3>4 DEF OwnSettings
  <2>2. CASE readers[t].cfg # Live
    BY <1>3, <2>2 DEF Load, SettingsKept, OwnReaders
  <2> QED
    BY <2>1, <2>2
<1>4. OwnReaders'
  BY <1>3 DEF OwnReaders
<1>5. OwnAnswers'
  BY DEF OwnAnswers, Load, LoadConfigFile
<1> QED
  BY <1>2, <1>4, <1>5

(* Connections and clients leave files, fields and answers alone.           *)
LEMMA OwnLink ==
  ASSUME Shape, OwnFiles, OwnSettings, OwnReaders, OwnAnswers, ~mixed,
         \/ \E m \in Managers : Connect(m)
         \/ DisconnectBegin \/ DisconnectEnd
         \/ ClientConnects \/ ClientCloses \/ \E c \in Sendable : ClientSends(c)
  PROVE  OwnFiles' /\ OwnSettings' /\ OwnReaders' /\ OwnAnswers'
<1>1. UNCHANGED <<files, commands, settings, mixed, answers>>
  BY DEF Connect, DisconnectBegin, DisconnectEnd, ClientConnects, ClientCloses, ClientSends,
         configVars
<1>2. OwnFiles' /\ OwnSettings' /\ OwnAnswers'
  BY <1>1 DEF OwnFiles, OwnSettings, OwnAnswers
<1>3. ASSUME NEW m, NEW pc, NEW t \in Threads, readers' = [readers EXCEPT ![t] = ReaderAt(m, pc)]
      PROVE  OwnReaders'
  <2>1. ReaderAt(m, pc).cfg = NoSetting
    BY DEF ReaderAt
  <2> QED
    BY <1>3, <2>1, ConfigConstants, OwnReaderReplaced DEF Shape
<1>4. CASE \E m \in Managers : Connect(m)
  <2>1. PICK m \in Managers : Connect(m)
    BY <1>4
  <2>2. PICK t \in Threads :
          readers' = [readers EXCEPT ![t] = ReaderAt(m, IF m = "tcp" THEN "accept" ELSE "recv")]
    BY <2>1 DEF Connect
  <2>3. OwnReaders'
    BY <1>3, <2>2, Zenon
  <2> QED
    BY <1>2, <2>3
<1>5. CASE ClientConnects
  BY <1>2, <1>3, <1>5 DEF ClientConnects
<1>6. CASE UNCHANGED readers
  BY <1>2, <1>6 DEF OwnReaders
<1> QED
  BY <1>4, <1>5, <1>6 DEF DisconnectBegin, DisconnectEnd, ClientCloses, ClientSends

LEMMA OwnStep == ASSUME Shape, Own, [Next]_slaveVars PROVE Own'
<1> SUFFICES ASSUME ~mixed' PROVE OwnFiles' /\ OwnSettings' /\ OwnReaders' /\ OwnAnswers'
  BY DEF Own
<1>1. ~mixed /\ OwnFiles /\ OwnSettings /\ OwnReaders /\ OwnAnswers
  BY MixedStays DEF Own
<1>2. CASE Load
  BY <1>1, <1>2, OwnLoad
<1>3. CASE Configure
  <2>1. OwnFiles' /\ OwnSettings'
    BY <1>1, <1>3, OwnConfig DEF Configure, GuiStep, FieldEdit, Shape, TypeOK
  <2>2. UNCHANGED <<readers, answers>>
    BY <1>3 DEF Configure
  <2> QED
    BY <1>1, <2>1, <2>2 DEF OwnReaders, OwnAnswers
<1>4. ASSUME NEW t \in Threads, Reader(t)
      PROVE  OwnFiles' /\ OwnSettings' /\ OwnReaders' /\ OwnAnswers'
  <2>1. OwnReaders' /\ OwnAnswers'
    BY <1>1, <1>4, OwnReaderStep
  <2>2. UNCHANGED <<files, commands, settings>>
    BY <1>4, ReaderMoves DEF configVars
  <2> QED
    BY <1>1, <2>1, <2>2 DEF OwnFiles, OwnSettings
<1>5. ASSUME NEW k, AnswerGoes(k)
      PROVE  OwnFiles' /\ OwnSettings' /\ OwnReaders' /\ OwnAnswers'
  <2>1. UNCHANGED <<files, commands, settings, readers>>
    BY <1>5 DEF AnswerGoes, configVars
  <2>2. OwnAnswers'
    BY <1>1, <1>5, AnswersLeft DEF OwnAnswers
  <2> QED
    BY <1>1, <2>1, <2>2 DEF OwnFiles, OwnSettings, OwnReaders
<1>6. CASE UNCHANGED slaveVars
  BY <1>1, <1>6 DEF slaveVars, configVars, OwnFiles, OwnSettings, OwnReaders, OwnAnswers
<1>7. CASE \/ \E m \in Managers : Connect(m)
           \/ DisconnectBegin \/ DisconnectEnd
           \/ ClientConnects \/ ClientCloses \/ \E c \in Sendable : ClientSends(c)
  BY <1>1, <1>7, OwnLink
<1> QED
  BY <1>2, <1>3, <1>4, <1>5, <1>6, <1>7 DEF Next

(* An answer carries the data of the command it answers, whatever is         *)
(* edited, reloaded or saved while a reader has the command in hand, unless  *)
(* a save has put fields into a file with other rows (on_save_config).       *)
THEOREM AnswersAreOwn == Spec => []OwnAnswers
<1>1. Init => Shape /\ Own
  BY ShapeInit, OwnInit
<1>2. Shape /\ Own /\ [Next]_slaveVars => Shape' /\ Own'
  BY ShapeStep, OwnStep
<1>3. Own => OwnAnswers
  BY DEF Own, OwnAnswers
<1> QED
  BY <1>1, <1>2, <1>3, PTL DEF Spec

-----------------------------------------------------------------------------
(* The run that start_after counts                                          *)

(* As long as no reader was started beside another, one reader at most      *)
(* runs; what it found of the last command is still so when it counts; and  *)
(* the counter reaches back to where another command was received.          *)
OneReader ==
  \A t, u \in Threads : t # u => readers[t].pc = "ended" \/ readers[u].pc = "ended"
SameKept ==
  \A t \in Threads : readers[t].pc = "count" =>
    (readers[t].same <=> last_cmd_id = readers[t].cmd)
RunBack ==
  \/ received = << >> /\ consecutive_count = 0 /\ last_cmd_id = NoCmd
  \/ /\ consecutive_count \in 1 .. Len(received)
     /\ last_cmd_id = received[Len(received)]
     /\ \A k \in 1 .. Len(received) : k > Len(received) - consecutive_count =>
          received[k] = received[Len(received)]
     /\ consecutive_count < Len(received) =>
          received[Len(received) - consecutive_count] # received[Len(received)]
Counting == ~doubled => OneReader /\ SameKept /\ RunBack

LEMMA CountingInit == ASSUME Init PROVE Counting
<1>1. \A t \in Threads : readers[t].pc = "ended"
  BY DEF Init, ReaderAt
<1>2. OneReader /\ SameKept
  BY <1>1 DEF OneReader, SameKept
<1>3. RunBack
  BY DEF Init, RunBack
<1> QED
  BY <1>2, <1>3 DEF Counting

(* The counter is then the length of the last run.                          *)
LEMMA RunBackCounts ==
  ASSUME TypeOK, RunBack
  PROVE  consecutive_count = RunLength /\ (received # << >> => last_cmd_id = Last(received))
<1> DEFINE n == Len(received)
           other == {0} \union {k \in 1 .. n : received[k] # received[n]}
           m == n - consecutive_count
<1>0. n \in Nat /\ consecutive_count \in Nat /\ (n = 0 <=> received = << >>)
  BY DEF TypeOK
<1>1. CASE received = << >>
  BY <1>0, <1>1 DEF RunBack, RunLength
<1>2. CASE received # << >>
  <2>1. /\ consecutive_count \in 1 .. n /\ last_cmd_id = received[n]
        /\ \A k \in 1 .. n : k > m => received[k] = received[n]
        /\ consecutive_count < n => received[m] # received[n]
    BY <1>2 DEF RunBack
  <2>2. m \in other /\ \A k \in other : k <= m
    <3>1. m \in 0 .. n /\ (m > 0 => m \in 1 .. n /\ received[m] # received[n])
      BY <1>0, <2>1
    <3>2. m \in other
      BY <1>0, <3>1
    <3>3. ASSUME NEW k \in other PROVE k <= m
      <4>1. k = 0 \/ (k \in 1 .. n /\ received[k] # received[n])
        OBVIOUS
      <4> HIDE DEF other, m
      <4> QED
        BY <1>0, <2>1, <3>1, <4>1
    <3> QED
      BY <3>2, <3>3
  <2>3. other \subseteq Int
    BY <1>0
  <2>4. Max(other) = m
    <3> HIDE DEF other, m
    <3>1. m \in Int
      BY <2>2, <2>3
    <3>2. \A x \in other : (\A y \in other : x >= y) => x = m
      BY <2>2, <2>3, <3>1
    <3>3. \A y \in other : m >= y
      BY <2>2, <2>3, <3>1
    <3> QED
      BY <2>2, <3>2, <3>3 DEF Max
  <2>5. RunLength = n - Max(other)
    BY <1>0, <1>2 DEF RunLength
  <2>6. n - m = consecutive_count
    BY <1>0
  <2>7. Last(received) = received[n]
    BY DEF Last
  <2> HIDE DEF other, m
  <2> QED
    BY <2>1, <2>4, <2>5, <2>6, <2>7
<1> QED
  BY <1>1, <1>2

(* The reader that counts.                                                  *)
LEMMA CountRunBack ==
  ASSUME Shape, OneReader, SameKept, RunBack, NEW t \in Threads, CountRun(t)
  PROVE  RunBack'
<1> DEFINE n == Len(received)
           m == Len(received')
           c == readers[t].cmd
           j == consecutive_count'
<1>1. /\ received \in Seq(CmdIds) /\ n \in Nat /\ c \in CmdIds /\ c # NoCmd
      /\ consecutive_count \in Nat /\ received' = Append(received, c)
  BY CfgType, SlaveConstants DEF Shape, TypeOK, CountRun
<1>2. /\ m = n + 1 /\ received'[m] = c
      /\ \A k \in 1 .. n : received'[k] = received[k]
  BY <1>1, AppendProperties
<1>3. n = 0 <=> received = << >>
  BY <1>1
<1>4. /\ j \in 1 .. m /\ last_cmd_id' = c
      /\ \A k \in 1 .. n : k > m - j => received[k] = c
      /\ j < m => received[m - j] # c
  <2>1. CASE readers[t].same
    <3>1. last_cmd_id = c /\ last_cmd_id' = c
      BY <2>1 DEF CountRun, SameKept
    <3>2. j = consecutive_count + 1
      BY <2>1 DEF CountRun
    <3>3. /\ consecutive_count \in 1 .. n /\ c = received[n]
          /\ \A k \in 1 .. n : k > n - consecutive_count => received[k] = received[n]
          /\ consecutive_count < n => received[n - consecutive_count] # received[n]
      BY <1>1, <3>1 DEF RunBack
    <3> HIDE DEF c, n, m, j
    <3>4. m - j = n - consecutive_count
      BY <1>1, <1>2, <3>2
    <3> QED
      BY <1>1, <1>2, <3>1, <3>2, <3>3, <3>4
  <2>2. CASE ~readers[t].same
    <3>1. last_cmd_id # c /\ last_cmd_id' = c
      BY <2>2 DEF CountRun, SameKept
    <3>2. j = 1
      BY <2>2 DEF CountRun
    <3>3. n > 0 => received[n] # c
      BY <1>1, <1>3, <3>1 DEF RunBack
    <3> HIDE DEF c, n, m, j
    <3>4. m - j = n
      BY <1>1, <1>2, <3>2
    <3> QED
      BY <1>1, <1>2, <3>1, <3>2, <3>3, <3>4
  <2> QED
    BY <2>1, <2>2
<1> HIDE DEF c, n, m, j
<1>5. j \in 1 .. m /\ last_cmd_id' = received'[m]
  BY <1>2, <1>4
<1>6. ASSUME NEW k \in 1 .. m, k > m - j PROVE received'[k] = received'[m]
  <2>1. k \in 1 .. n \/ k = m
    BY <1>1, <1>2
  <2> QED
    BY <1>2, <1>4, <1>6, <2>1
<1>7. j < m => received'[m - j] # received'[m]
  <2>1. j < m => m - j \in 1 .. n
    BY <1>1, <1>2, <1>4
  <2> QED
    BY <1>2, <1>4, <2>1
<1> QED
  BY <1>5, <1>6, <1>7 DEF RunBack, m, j

(* A reader that runs is replaced by one that does not count.               *)
LEMMA OneReaderStep ==
  ASSUME TypeOK, OneReader, SameKept, NEW t \in Threads, readers[t].pc # "ended", NEW r,
         readers' = [readers EXCEPT ![t] = r], r.pc # "count"
  PROVE  OneReader' /\ SameKept'
<1>1. \A u \in Threads \ {t} : readers[u].pc = "ended" /\ readers'[u] = readers[u]
  BY DEF OneReader, TypeOK
<1>2. readers'[t] = r
  BY DEF TypeOK
<1>3. OneReader'
  BY <1>1 DEF OneReader
<1>4. SameKept'
  <2>1. \A u \in Threads : readers'[u].pc # "count"
    BY <1>1, <1>2
  <2> QED
    BY <2>1 DEF SameKept
<1> QED
  BY <1>3, <1>4

LEMMA CountingReaderStep ==
  ASSUME Shape, OneReader, SameKept, RunBack, NEW t \in Threads, Reader(t)
  PROVE  OneReader' /\ SameKept' /\ RunBack'
<1>1. ASSUME NEW r, readers[t].pc # "ended", readers' = [readers EXCEPT ![t] = r], r.pc # "count"
      PROVE  OneReader' /\ SameKept'
  BY <1>1, OneReaderStep DEF Shape
<1>2. ASSUME NEW m, NEW pc \in AtRest, readers[t].pc # "ended",
             readers' = [readers EXCEPT ![t] = ReaderAt(m, pc)]
      PROVE  OneReader' /\ SameKept'
  <2>1. ReaderAt(m, pc).pc # "count"
    BY RestHasNone DEF AtRest
  <2> QED
    BY <1>1, <1>2, <2>1
<1>3. ASSUME UNCHANGED countVars PROVE RunBack'
  BY <1>3 DEF countVars, RunBack
<1>4. CASE LookUp(t)
  <2>1. CASE settings[readers[t].cmd] = NoSetting
    BY <1>2, <1>3, <1>4, <2>1, Breaks DEF LookUp
  <2>2. CASE settings[readers[t].cmd] # NoSetting
    <3> DEFINE r == [of |-> readers[t].of, pc |-> "count", cmd |-> readers[t].cmd, cfg |-> Live,
                     same |-> (last_cmd_id = readers[t].cmd)]
    <3>1. /\ r.cmd = readers[t].cmd
          /\ r.same <=> (last_cmd_id = readers[t].cmd)
      OBVIOUS
    <3>2. readers' = [readers EXCEPT ![t] = r] /\ UNCHANGED countVars
      BY <1>4, <2>2 DEF LookUp
    <3> HIDE DEF r
    <3>3. \A u \in Threads \ {t} : readers[u].pc = "ended" /\ readers'[u] = readers[u]
      BY <1>4, <3>2 DEF OneReader, Shape, TypeOK, LookUp
    <3>4. OneReader'
      BY <3>3 DEF OneReader
    <3>5. readers'[t] = r
      BY <3>2 DEF Shape, TypeOK
    <3>6. last_cmd_id' = last_cmd_id
      BY <3>2 DEF countVars
    <3>7. readers'[t].same <=> (last_cmd_id' = readers'[t].cmd)
      BY <3>1, <3>5, <3>6, Zenon
    <3>8. \A u \in Threads : readers'[u].pc = "count" => u = t
      BY <3>3
    <3>9. SameKept'
      BY <3>7, <3>8, Zenon DEF SameKept
    <3> QED
      BY <1>3, <3>2, <3>4, <3>9
  <2> QED
    BY <2>1, <2>2
<1>5. CASE CountRun(t)
  <2> DEFINE r == [readers[t] EXCEPT !.pc = "decide"]
  <2>1. r.pc = "decide" /\ readers[t].pc # "ended"
    BY <1>5, CfgType DEF Shape, CountRun, BusyReader
  <2>2. readers' = [readers EXCEPT ![t] = r]
    BY <1>5 DEF CountRun
  <2> HIDE DEF r
  <2> QED
    BY <1>1, <1>5, <2>1, <2>2, CountRunBack
<1>6. CASE Decide(t)
  <2>1. UNCHANGED countVars /\ readers[t].pc # "ended"
    BY <1>6 DEF Decide
  <2>2. CASE Cfg(t).start_after = Unreadable
    BY <1>2, <1>3, <1>6, <2>1, <2>2, Breaks DEF Decide
  <2>3. CASE Cfg(t).start_after # Unreadable
    <3>1. readers' = [readers EXCEPT ![t] = ReaderAt(readers[t].of, "recv")]
      BY <1>6, <2>3 DEF Decide
    <3>2. "recv" \in AtRest
      BY DEF AtRest
    <3> QED
      BY <1>2, <1>3, <2>1, <3>1, <3>2
  <2> QED
    BY <2>2, <2>3
<1>7. CASE Resting(t)
  BY <1>2, <1>3, <1>7, Rests
<1>8. ASSUME NEW n, Recv(t, n) PROVE OneReader' /\ SameKept' /\ RunBack'
  <2> DEFINE cmd == ParseFrame(SubSeq(line, 1, n))
             r == IF Known(cmd) THEN [ReaderAt(readers[t].of, "lookup") EXCEPT !.cmd = cmd]
                  ELSE readers[t]
  <2>1. r.pc # "count"
    <3> HIDE DEF cmd
    <3>1. [ReaderAt(readers[t].of, "lookup") EXCEPT !.cmd = cmd].pc = "lookup"
      BY DEF ReaderAt
    <3> QED
      BY <1>8, <3>1 DEF Recv
  <2>2. readers' = [readers EXCEPT ![t] = r] /\ UNCHANGED countVars /\ readers[t].pc # "ended"
    BY <1>8 DEF Recv
  <2> HIDE DEF r
  <2> QED
    BY <1>1, <1>3, <2>1, <2>2
<1> QED
  BY <1>4, <1>5, <1>6, <1>7, <1>8 DEF Reader, Resting

LEMMA CountingStep == ASSUME Shape, Counting, [Next]_slaveVars PROVE Counting'
<1> SUFFICES ASSUME ~doubled' PROVE OneReader' /\ SameKept' /\ RunBack'
  BY DEF Counting
<1>1. ASSUME NEW m \in Managers, Connect(m) PROVE OneReader' /\ SameKept' /\ RunBack'
  <2>1. PICK t \in Threads :
          readers' = [readers EXCEPT ![t] = ReaderAt(m, IF m = "tcp" THEN "accept" ELSE "recv")]
    BY <1>1 DEF Connect
  <2>2. ~doubled /\ \A u \in Threads : readers[u].pc = "ended"
    BY <1>1 DEF Connect
  <2>3. ReaderAt(m, IF m = "tcp" THEN "accept" ELSE "recv").pc # "count"
    BY DEF ReaderAt
  <2>4. \A u \in Threads \ {t} : readers'[u].pc = "ended"
    BY <2>1, <2>2 DEF Shape, TypeOK
  <2>5. \A u \in Threads : readers'[u].pc # "count"
    BY <2>1, <2>3, <2>4 DEF Shape, TypeOK
  <2>6. OneReader' /\ SameKept'
    BY <2>4, <2>5 DEF OneReader, SameKept
  <2>7. UNCHANGED countVars
    BY <1>1 DEF Connect
  <2> QED
    BY <2>2, <2>6, <2>7 DEF countVars, Counting, RunBack
<1>2. ASSUME NEW t \in Threads, Reader(t) PROVE OneReader' /\ SameKept' /\ RunBack'
  <2>1. doubled' = doubled
    BY <1>2, ReaderMoves
  <2> QED
    BY <1>2, <2>1, CountingReaderStep DEF Counting
<1>3. ASSUME UNCHANGED <<doubled, countVars>>,
             \A t \in Threads : readers'[t].pc = readers[t].pc /\ readers'[t].cmd = readers[t].cmd
                                /\ readers'[t].same = readers[t].same
      PROVE  OneReader' /\ SameKept' /\ RunBack'
  <2>1. OneReader /\ SameKept /\ RunBack
    BY <1>3 DEF Counting
  <2>2. RunBack'
    BY <1>3, <2>1 DEF countVars, RunBack
  <2>3. OneReader'
    BY <1>3, <2>1 DEF OneReader
  <2>4. last_cmd_id' = last_cmd_id
    BY <1>3 DEF countVars
  <2>5. SameKept'
    BY <1>3, <2>1, <2>4, Zenon DEF SameKept
  <2> QED
    BY <2>2, <2>3, <2>5
<1>4. CASE Load
  <2>1. UNCHANGED <<doubled, countVars>>
    BY <1>4 DEF Load
  <2>2. ASSUME NEW t \in Threads
        PROVE  readers'[t].pc = readers[t].pc /\ readers'[t].cmd = readers[t].cmd
               /\ readers'[t].same = readers[t].same
    <3>1. CASE readers[t].cfg = Live
      <4>1. readers[t] \in BusyReader
        BY <3>1, ReaderCases, SlaveConstants DEF Shape, TypeOK
      <4>2. readers'[t] = [readers[t] EXCEPT !.cfg = settings[readers[t].cmd]]
        BY <1>4, <3>1 DEF Load, SettingsKept
      <4> QED
        BY <4>1, <4>2 DEF BusyReader
    <3>2. CASE readers[t].cfg # Live
      BY <1>4, <3>2 DEF Load, SettingsKept
    <3> QED
      BY <3>1, <3>2
  <2> QED
    BY <1>3, <2>1, <2>2
<1>5. CASE ClientConnects
  <2>1. PICK t \in Threads : /\ readers[t] = ReaderAt("tcp", "accept")
                             /\ readers' = [readers EXCEPT ![t] = ReaderAt("tcp", "recv")]
    BY <1>5 DEF ClientConnects
  <2>2. readers[t].pc # "ended" /\ ReaderAt("tcp", "recv").pc # "count"
    BY <2>1 DEF ReaderAt
  <2>3. UNCHANGED <<doubled, countVars>>
    BY <1>5 DEF ClientConnects
  <2>4. OneReader /\ SameKept /\ RunBack
    BY <2>3 DEF Counting
  <2>5. OneReader' /\ SameKept'
    BY <2>1, <2>2, <2>3, <2>4, OneReaderStep DEF Shape, countVars
  <2> QED
    BY <2>3, <2>4, <2>5 DEF countVars, RunBack
<1>6. CASE UNCHANGED <<doubled, countVars, readers>>
  BY <1>3, <1>6
<1> QED
  BY <1>1, <1>2, <1>4, <1>5, <1>6
     DEF Next, Configure, DisconnectBegin, DisconnectEnd, ClientCloses, ClientSends,
         AnswerGoes, slaveVars

(* The counter that start_after is compared with is the length of the run of *)
(* one command received last, over reloads, saves, lost connections and      *)
(* changes between TCP and serial, as long as one thread counts              *)
(* (process_received_data keeps it on the application, not on a connection). *)
THEOREM RunIsCounted == Spec => []RunCounted
<1>1. Init => Shape /\ Counting
  BY ShapeInit, CountingInit
<1>2. Shape /\ Counting /\ [Next]_slaveVars => Shape' /\ Counting'
  BY ShapeStep, CountingStep
<1>3. Shape /\ Counting => RunCounted
  BY RunBackCounts DEF Shape, Counting, RunCounted
<1> QED
  BY <1>1, <1>2, <1>3, PTL DEF Spec

-----------------------------------------------------------------------------
(* When a reader gives up its connection                                    *)

(* A manager that is being joined was told to stop.                         *)
Joining == gui = "joining" => mode \in Managers /\ stop[mode]

(* As long as no reader was started beside another, a reader in its read    *)
(* loop has its connection, or its port, unless it was told to stop.        *)
Linked ==
  ~doubled => \A t \in Threads : readers[t].pc \in Serving =>
                stop[readers[t].of] \/ HasLink(t)

LEMMA LinkedInit == ASSUME Init PROVE Joining /\ Linked
<1>1. \A t \in Threads : readers[t].pc = "ended"
  BY DEF Init, ReaderAt
<1> QED
  BY <1>1 DEF Init, ConfigInit, Joining, Linked, Serving

LEMMA JoiningStep == ASSUME Shape, Joining, [Next]_slaveVars PROVE Joining'
<1>1. CASE Load \/ Configure
  <2>1. UNCHANGED linkVars
    BY <1>1 DEF Load, Configure
  <2>2. gui' # "joining"
    BY <1>1 DEF Load, Configure, BrowseConfigFile, LoadConfigFile, CreateCommandUi, EditStartAfter,
                TypeRespHex, FocusOut, SaveConfig, UserActs
  <2> QED
    BY <2>1, <2>2 DEF linkVars, Joining
<1>2. ASSUME NEW m \in Managers, Connect(m) PROVE Joining'
  BY <1>2 DEF Connect, Clicks, configVars, Joining, Managers
<1>3. CASE DisconnectBegin
  <2>1. /\ mode' = mode /\ mode # "none"
        /\ stop' = [stop EXCEPT ![mode] = TRUE]
    BY <1>3 DEF DisconnectBegin
  <2>2. mode \in Managers /\ stop'[mode]
    BY <2>1 DEF Shape, TypeOK
  <2> QED
    BY <2>1, <2>2 DEF Joining
<1>4. CASE DisconnectEnd
  BY <1>4 DEF DisconnectEnd, Joining
<1>5. CASE ClientConnects \/ ClientCloses \/ (\E c \in Sendable : ClientSends(c))
  BY <1>5 DEF ClientConnects, ClientCloses, ClientSends, configVars, Joining
<1>6. ASSUME NEW t \in Threads, Reader(t) PROVE Joining'
  BY <1>6, ReaderMoves DEF configVars, Joining
<1>7. CASE (\E k \in 1 .. MaxFrames : AnswerGoes(k)) \/ UNCHANGED slaveVars
  BY <1>7 DEF AnswerGoes, slaveVars, linkVars, configVars, Joining
<1> QED
  BY <1>1, <1>2, <1>3, <1>4, <1>5, <1>6, <1>7 DEF Next

(* Where a reader goes from its read loop, and what for.                    *)
GivesUp(t) == readers[t].pc \in Serving /\ readers'[t].pc \notin Serving
Reason(t) ==
  \/ eof \/ stop[readers[t].of] \/ doubled
  \/ readers[t].pc = "lookup" /\ ~Known(readers[t].cmd)
  \/ readers[t].pc = "decide" /\ Cfg(t).start_after = Unreadable

(* A step of a reader that goes on serving closes nothing, and it serves for *)
(* the same manager; it gives up for one of the reasons.                    *)
LEMMA ReaderServes ==
  ASSUME Shape, Linked, NEW t \in Threads, Reader(t)
  PROVE  /\ readers'[t].pc \in Serving =>
              /\ readers[t].pc \in Serving /\ readers'[t].of = readers[t].of
              /\ open' = open
         /\ GivesUp(t) => Reason(t)
<1> USE DEF Serving
<1>0. ASSUME NEW r, readers' = [readers EXCEPT ![t] = r] PROVE readers'[t] = r
  BY <1>0 DEF Shape, TypeOK
<1>1. ASSUME NEW m, NEW pc \in AtRest \ {"recv"},
             readers' = [readers EXCEPT ![t] = ReaderAt(m, pc)]
      PROVE  readers'[t].pc \notin Serving
  <2>1. readers'[t] = ReaderAt(m, pc)
    BY <1>0, <1>1
  <2> QED
    BY <2>1, RestHasNone DEF AtRest
<1>2. CASE LookUp(t)
  <2>1. CASE settings[readers[t].cmd] = NoSetting
    <3>1. readers'[t].pc \notin Serving
      BY <1>1, <1>2, <2>1, Breaks DEF LookUp
    <3> QED
      BY <1>2, <2>1, <3>1 DEF LookUp, Reason, Known
  <2>2. CASE settings[readers[t].cmd] # NoSetting
    <3> DEFINE r == [of |-> readers[t].of, pc |-> "count", cmd |-> readers[t].cmd, cfg |-> Live,
                     same |-> (last_cmd_id = readers[t].cmd)]
    <3>1. r.pc = "count" /\ r.of = readers[t].of
      OBVIOUS
    <3>2. readers' = [readers EXCEPT ![t] = r] /\ open' = open /\ readers[t].pc = "lookup"
      BY <1>2, <2>2 DEF LookUp, linkVars
    <3> HIDE DEF r
    <3> QED
      BY <1>0, <3>1, <3>2 DEF GivesUp
  <2> QED
    BY <2>1, <2>2
<1>3. CASE CountRun(t)
  <2> DEFINE r == [readers[t] EXCEPT !.pc = "decide"]
  <2>1. r.pc = "decide" /\ r.of = readers[t].of
    BY <1>3, CfgType DEF Shape, CountRun, BusyReader
  <2>2. readers' = [readers EXCEPT ![t] = r] /\ open' = open /\ readers[t].pc = "count"
    BY <1>3 DEF CountRun, linkVars
  <2> HIDE DEF r
  <2> QED
    BY <1>0, <2>1, <2>2 DEF GivesUp
<1>4. CASE Decide(t)
  <2>1. CASE Cfg(t).start_after = Unreadable
    <3>1. readers'[t].pc \notin Serving
      BY <1>1, <1>4, <2>1, Breaks DEF Decide
    <3> QED
      BY <1>4, <2>1, <3>1 DEF Decide, Reason
  <2>2. CASE Cfg(t).start_after # Unreadable
    <3>1. /\ readers' = [readers EXCEPT ![t] = ReaderAt(readers[t].of, "recv")]
          /\ open' = open /\ readers[t].pc = "decide"
      BY <1>4, <2>2 DEF Decide, linkVars
    <3>2. readers'[t] = ReaderAt(readers[t].of, "recv")
      BY <1>0, <3>1
    <3> QED
      BY <3>1, <3>2, RestHasNone DEF GivesUp
  <2> QED
    BY <2>1, <2>2
<1>5. CASE Resting(t)
  <2>1. readers'[t].pc \notin Serving
    BY <1>1, <1>5, Rests
  <2>2. ASSUME readers[t].pc \in Serving PROVE Reason(t)
    <3>1. CASE RecvFails(t)
      BY <2>2, <3>1 DEF RecvFails, Reason, Linked
    <3>2. CASE ReaderEnds(t)
      BY <3>2 DEF ReaderEnds, Reason
    <3> QED
      BY <1>5, <2>2, <3>1, <3>2 DEF Resting, CloseConn, ForgetConn
  <2> QED
    BY <2>1, <2>2 DEF GivesUp
<1>6. ASSUME NEW n, Recv(t, n)
      PROVE  /\ readers[t].pc \in Serving /\ readers'[t].of = readers[t].of
             /\ open' = open /\ readers'[t].pc \in Serving
  <2> DEFINE cmd == ParseFrame(SubSeq(line, 1, n))
             l == [ReaderAt(readers[t].of, "lookup") EXCEPT !.cmd = cmd]
             r == IF Known(cmd) THEN l ELSE readers[t]
  <2>1. l.pc = "lookup" /\ l.of = readers[t].of
    BY DEF ReaderAt
  <2>2. readers' = [readers EXCEPT ![t] = r] /\ open' = open /\ readers[t].pc = "recv"
    BY <1>6 DEF Recv
  <2> HIDE DEF l, cmd
  <2>3. r.pc \in {"lookup", "recv"} /\ r.of = readers[t].of
    BY <2>1, <2>2
  <2> HIDE DEF r
  <2> QED
    BY <1>0, <2>2, <2>3
<1> QED
  BY <1>2, <1>3, <1>4, <1>5, <1>6 DEF Reader, Resting, GivesUp

(* A reload leaves the readers where they are.                              *)
LEMMA LoadStays ==
  ASSUME Shape, Load, NEW t \in Threads
  PROVE  readers'[t].pc = readers[t].pc /\ readers'[t].of = readers[t].of
<1>1. CASE readers[t].cfg = Live
  <2>1. readers[t] \in BusyReader
    BY <1>1, ReaderCases, SlaveConstants DEF Shape, TypeOK
  <2>2. readers'[t] = [readers[t] EXCEPT !.cfg = settings[readers[t].cmd]]
    BY <1>1 DEF Load, SettingsKept
  <2> QED
    BY <2>1, <2>2 DEF BusyReader
<1>2. CASE readers[t].cfg # Live
  BY <1>2 DEF Load, SettingsKept
<1> QED
  BY <1>1, <1>2

LEMMA LinkedStep ==
  ASSUME Shape, Counting, Joining, Linked, [Next]_slaveVars
  PROVE  Linked'
<1> SUFFICES ASSUME ~doubled', NEW u \in Threads, readers'[u].pc \in Serving
             PROVE  stop'[readers'[u].of] \/ (readers'[u].of = mode' /\ open')
  BY DEF Linked, HasLink
<1>0. ASSUME ~doubled, UNCHANGED <<mode, open, stop>>,
             readers'[u].pc = readers[u].pc, readers'[u].of = readers[u].of
      PROVE  stop'[readers'[u].of] \/ (readers'[u].of = mode' /\ open')
  BY <1>0 DEF Linked, HasLink
<1>1. CASE Load
  BY <1>0, <1>1, LoadStays DEF Load, linkVars
<1>2. ASSUME NEW m \in Managers, Connect(m)
      PROVE  stop'[readers'[u].of] \/ (readers'[u].of = mode' /\ open')
  <2> DEFINE pc == IF m = "tcp" THEN "accept" ELSE "recv"
  <2>1. PICK t \in Threads : readers' = [readers EXCEPT ![t] = ReaderAt(m, pc)]
    BY <1>2 DEF Connect
  <2>2. \A v \in Threads : readers[v].pc = "ended"
    BY <1>2 DEF Connect
  <2>3. u = t /\ readers'[u] = ReaderAt(m, pc)
    BY <2>1, <2>2 DEF Shape, TypeOK, Serving
  <2>4. readers'[u].of = m /\ readers'[u].pc = pc
    BY <2>3, RestHasNone
  <2>5. m = "serial"
    BY <2>4 DEF Serving, Managers
  <2> QED
    BY <1>2, <2>4, <2>5 DEF Connect
<1>3. CASE DisconnectBegin
  <2>1. /\ UNCHANGED <<mode, open, doubled, readers>> /\ mode # "none"
        /\ stop' = [stop EXCEPT ![mode] = TRUE]
    BY <1>3 DEF DisconnectBegin
  <2>2. readers[u].of \in Managers
    BY ReaderCases DEF Shape, TypeOK
  <2>3. stop[readers[u].of] \/ HasLink(u)
    BY <2>1 DEF Linked
  <2>4. stop[readers[u].of] => stop'[readers[u].of]
    BY <2>1, <2>2 DEF Shape, TypeOK
  <2> QED
    BY <2>1, <2>3, <2>4 DEF HasLink
<1>4. CASE DisconnectEnd
  <2>1. UNCHANGED <<stop, doubled, readers>> /\ gui = "joining"
    BY <1>4 DEF DisconnectEnd
  <2>2. stop[mode]
    BY <2>1 DEF Joining
  <2>3. stop[readers[u].of] \/ readers[u].of = mode
    BY <2>1 DEF Linked, HasLink
  <2> QED
    BY <2>1, <2>2, <2>3
<1>5. CASE ClientConnects
  <2>1. PICK t \in Threads : /\ readers[t] = ReaderAt("tcp", "accept")
                             /\ readers' = [readers EXCEPT ![t] = ReaderAt("tcp", "recv")]
    BY <1>5 DEF ClientConnects
  <2>2. UNCHANGED <<mode, stop, doubled>> /\ mode = "tcp" /\ open'
    BY <1>5 DEF ClientConnects
  <2>3. readers[t].pc # "ended"
    BY <2>1, RestHasNone
  <2>4. \A v \in Threads \ {t} : readers[v].pc = "ended" /\ readers'[v] = readers[v]
    BY <2>1, <2>2, <2>3 DEF Counting, OneReader, Shape, TypeOK
  <2>5. u = t
    BY <2>4 DEF Serving
  <2>6. readers'[u] = ReaderAt("tcp", "recv")
    BY <2>1, <2>5 DEF Shape, TypeOK
  <2> QED
    BY <2>2, <2>6, RestHasNone
<1>6. ASSUME NEW t \in Threads, Reader(t)
      PROVE  stop'[readers'[u].of] \/ (readers'[u].of = mode' /\ open')
  <2>1. /\ UNCHANGED <<mode, stop, doubled>> /\ readers[t].pc # "ended"
        /\ \A v \in Threads \ {t} : readers'[v] = readers[v]
    BY <1>6, ReaderMoves
  <2>2. u = t
    <3>1. \A v \in Threads \ {t} : readers[v].pc = "ended"
      BY <2>1 DEF Counting, OneReader
    <3> QED
      BY <2>1, <3>1 DEF Serving
  <2>3. readers[u].pc \in Serving /\ readers'[u].of = readers[u].of /\ open' = open
    BY <1>6, <2>2, ReaderServes
  <2> QED
    BY <2>1, <2>3 DEF Linked, HasLink
<1>7. CASE UNCHANGED <<mode, open, stop, doubled, readers>>
  BY <1>0, <1>7
<1> QED
  BY <1>1, <1>2, <1>3, <1>4, <1>5, <1>6, <1>7
     DEF Next, Configure, ClientCloses, ClientSends, AnswerGoes, slaveVars, linkVars

LEMMA GivesUpStep ==
  ASSUME Shape, Linked, [Next]_slaveVars, NEW u \in Threads, GivesUp(u)
  PROVE  Reason(u)
<1>1. ASSUME NEW t \in Threads, Reader(t) PROVE Reason(u)
  <2>1. u = t
    BY <1>1, ReaderMoves DEF GivesUp
  <2> QED
    BY <1>1, <2>1, ReaderServes
<1>2. ASSUME readers'[u].pc = readers[u].pc PROVE FALSE
  BY <1>2 DEF GivesUp
<1>3. CASE Load
  BY <1>2, <1>3, LoadStays
<1>4. ASSUME NEW m \in Managers, Connect(m) PROVE FALSE
  <2>1. PICK t \in Threads :
          /\ readers[t].pc = "ended"
          /\ readers' = [readers EXCEPT ![t] = ReaderAt(m, IF m = "tcp" THEN "accept" ELSE "recv")]
    BY <1>4 DEF Connect
  <2> QED
    BY <1>2, <2>1 DEF GivesUp, Serving, Shape, TypeOK
<1>5. CASE ClientConnects
  <2>1. PICK t \in Threads : /\ readers[t] = ReaderAt("tcp", "accept")
                             /\ readers' = [readers EXCEPT ![t] = ReaderAt("tcp", "recv")]
    BY <1>5 DEF ClientConnects
  <2>2. readers[t].pc = "accept"
    BY <2>1, RestHasNone
  <2> QED
    BY <1>2, <2>1, <2>2 DEF GivesUp, Serving, Shape, TypeOK
<1>6. CASE UNCHANGED readers
  BY <1>2, <1>6
<1> QED
  BY <1>1, <1>3, <1>4, <1>5, <1>6
     DEF Next, Configure, DisconnectBegin, DisconnectEnd, ClientCloses, ClientSends, AnswerGoes,
         slaveVars

(* A reader gives up its client, or the port, only when the client closed,  *)
(* the user disconnects, the command is gone from the table since it was    *)
(* read, or a field was not readable: it never finds its connection closed  *)
(* under it, and never gives up for what it read, as long as the user does  *)
(* not connect again while an older reader still runs.  (When he does,      *)
(* nothing is said: then the older reader can close the new one's client.)  *)
THEOREM LinkIsKept == Spec => LinkKept
<1>1. Init => Shape /\ Counting /\ Joining /\ Linked
  BY ShapeInit, CountingInit, LinkedInit
<1>2. Shape /\ Counting /\ Joining /\ Linked /\ [Next]_slaveVars
        => Shape' /\ Counting' /\ Joining' /\ Linked'
  BY ShapeStep, CountingStep, JoiningStep, LinkedStep
<1> DEFINE Kept == \A t \in Threads : GivesUp(t) => Reason(t)
<1>3. Shape /\ Linked /\ [Next]_slaveVars => [Kept]_slaveVars
  BY GivesUpStep
<1>4. Spec => [][Kept]_slaveVars
  <2> HIDE DEF Kept
  <2> QED
    BY <1>1, <1>2, <1>3, PTL DEF Spec
<1> QED
  BY <1>4 DEF LinkKept, GivesUp, Reason

-----------------------------------------------------------------------------
(* The master's table                                                       *)

LEMMA TableRows ==
  /\ Len(CmdTable) = 23
  /\ \A i \in 1 .. 23 : /\ CmdTable[i].send_cmd_id \in Nat
                        /\ CmdTable[i].resp_cmd_id = CmdTable[i].send_cmd_id + 1
                        /\ CmdTable[i].timeout = 1000 /\ CmdTable[i].retry_count = 3
BY DEF CmdTable, Row

LEMMA KeysDistinct ==
  \A i, j \in 1 .. 23 : CmdTable[i].send_cmd_id = CmdTable[j].send_cmd_id => i = j
BY DEF CmdTable, Row

(* A lookup finds the row of its key, when no other row has that key.       *)
LEMMA LookupOfRow ==
  ASSUME NEW key, NEW field, NEW i \in 1 .. 23,
         \A j \in 1 .. 23 : CmdTable[j][key] = CmdTable[i][key] => j = i
  PROVE  Lookup(key, CmdTable[i][key], field) = CmdTable[i][field]
<1> DEFINE id == CmdTable[i][key]
           hits == {j \in 1 .. Len(CmdTable) : CmdTable[j][key] = id}
<1>1. hits = {i}
  BY TableRows
<1>2. (CHOOSE j \in hits : \A k \in hits : j <= k) = i
  BY <1>1
<1> QED
  BY <1>1, <1>2 DEF Lookup

LEMMA LookupMisses ==
  ASSUME NEW key, NEW id, NEW field, Lookup(key, id, field) # NotFound
  PROVE  \E i \in 1 .. 23 : CmdTable[i][key] = id
BY TableRows DEF Lookup

(* comm_table.c agrees with itself: the answer's identifier leads back to    *)
(* the command, with one timeout and one retry count, for every command     *)
(* the table has.                                                           *)
THEOREM TablePaired ==
  ASSUME NEW c, GetRespBySend(c) # NotFound
  PROVE  LET r == GetRespBySend(c)
         IN  /\ GetSendByResp(r) = c
             /\ GetTimeoutBySend(c) = GetTimeoutByResp(r)
             /\ GetRetryBySend(c) = GetRetryByResp(r)
<1>1. PICK i \in 1 .. 23 : CmdTable[i]["send_cmd_id"] = c
  BY LookupMisses DEF GetRespBySend
<1> DEFINE r == CmdTable[i]["resp_cmd_id"]
<1>2. \A j \in 1 .. 23 : CmdTable[j]["send_cmd_id"] = CmdTable[i]["send_cmd_id"] => j = i
  BY KeysDistinct
<1>3. \A j \in 1 .. 23 : CmdTable[j]["resp_cmd_id"] = CmdTable[i]["resp_cmd_id"] => j = i
  <2>1. ASSUME NEW j \in 1 .. 23, CmdTable[j]["resp_cmd_id"] = CmdTable[i]["resp_cmd_id"]
        PROVE  j = i
    <3>1. CmdTable[j].send_cmd_id + 1 = CmdTable[i].send_cmd_id + 1
      BY <2>1, TableRows
    <3>2. CmdTable[j].send_cmd_id = CmdTable[i].send_cmd_id
      BY <3>1, TableRows
    <3> QED
      BY <3>2, KeysDistinct
  <2> QED
    BY <2>1
<1>4. GetRespBySend(c) = r
  BY <1>1, <1>2, LookupOfRow DEF GetRespBySend
<1>5. GetSendByResp(r) = c
  BY <1>1, <1>3, LookupOfRow DEF GetSendByResp
<1>6. GetTimeoutBySend(c) = CmdTable[i]["timeout"] /\ GetTimeoutByResp(r) = CmdTable[i]["timeout"]
  BY <1>1, <1>2, <1>3, LookupOfRow DEF GetTimeoutBySend, GetTimeoutByResp
<1>7. /\ GetRetryBySend(c) = CmdTable[i]["retry_count"]
      /\ GetRetryByResp(r) = CmdTable[i]["retry_count"]
  BY <1>1, <1>2, <1>3, LookupOfRow DEF GetRetryBySend, GetRetryByResp
<1> HIDE DEF r
<1> QED
  BY <1>4, <1>5, <1>6, <1>7

(* A command of the table is answered with the identifier after it.         *)
LEMMA AnswerIsNext ==
  ASSUME NEW c, GetRespBySend(c) # NotFound
  PROVE  GetRespBySend(c) = c + 1
<1>1. PICK i \in 1 .. 23 : CmdTable[i]["send_cmd_id"] = c
  BY LookupMisses DEF GetRespBySend
<1>2. \A j \in 1 .. 23 : CmdTable[j]["send_cmd_id"] = CmdTable[i]["send_cmd_id"] => j = i
  BY KeysDistinct
<1>3. GetRespBySend(c) = CmdTable[i]["resp_cmd_id"]
  BY <1>1, <1>2, LookupOfRow DEF GetRespBySend
<1> QED
  BY <1>1, <1>3, TableRows

-----------------------------------------------------------------------------
(* What is answered suits the master                                        *)

(* An answer r of up to n bytes to c: the identifier is the table's, if the *)
(* table has c, and the bytes fit, but for DATA_GET.                        *)
Suits(c, r, n) ==
  /\ GetRespBySend(c) \in {NotFound, r}
  /\ n >= 1
  /\ n + 1 <= MaxAnswerLen \/ c = 144

RowsSuit(rows) ==
  \A i \in 1 .. Len(rows) : Suits(rows[i].cmd_id, rows[i].resp_id, rows[i].resp_data_len)

(* Every row of the files there are at the start suits the master.          *)
FilesSuitMaster == \A f \in Files : RowsSuit(FirstRows[f])

(* Whole bytes, n at most.                                                  *)
Whole(text, n) == text.digits % 2 = 0 /\ text.digits <= 2 * n

(* Settings that suit: also the text, if it is not being typed.             *)
SettingSuits(c, s) ==
  /\ Suits(c, s.resp_id, s.resp_data_len)
  /\ ~s.resp_hex.raw => Whole(s.resp_hex, s.resp_data_len)

SuitFiles    == (\A f \in Files : RowsSuit(files[f])) /\ RowsSuit(commands)
SuitSettings == \A c \in CmdIds : settings[c] # NoSetting => SettingSuits(c, settings[c])
SuitReaders  ==
  \A t \in Threads : readers[t].cfg \in Setting => SettingSuits(readers[t].cmd, readers[t].cfg)
Suit == SuitFiles /\ SuitSettings /\ SuitReaders /\ AnswersSuitMaster

LEMMA SuitInit == ASSUME FilesSuitMaster, Init PROVE Suit
<1>1. SuitFiles
  <2>1. files = FirstRows /\ commands = << >>
    BY DEF Init, ConfigInit
  <2> QED
    BY <2>1 DEF SuitFiles, FilesSuitMaster, RowsSuit
<1>2. SuitSettings
  BY DEF Init, ConfigInit, SuitSettings
<1>3. SuitReaders
  BY ConfigConstants DEF Init, SuitReaders, ReaderAt
<1>4. AnswersSuitMaster
  BY DEF Init, AnswersSuitMaster
<1> QED
  BY <1>1, <1>2, <1>3, <1>4 DEF Suit

(* What sanitize_hex_input leaves are whole bytes, max of them at most.     *)
LEMMA SanitizeWhole ==
  ASSUME NEW text \in Text, NEW max \in Nat, max >= 1
  PROVE  Whole(Sanitize(text, max), max)
<1> DEFINE pairs == text.digits \div 2
           kept  == IF max > 0 /\ pairs > max THEN max ELSE pairs
<1>1. pairs \in Nat
  BY DEF Text
<1>2. kept \in Nat /\ kept <= max
  <2> HIDE DEF pairs
  <2> QED
    BY <1>1
<1>3. Sanitize(text, max) = [text EXCEPT !.digits = 2 * kept, !.raw = FALSE]
  BY DEF Sanitize
<1> HIDE DEF kept
<1>4. Sanitize(text, max).digits = 2 * kept
  BY <1>3 DEF Text
<1>5. ((2 * kept) % 2) = 0 /\ 2 * kept <= 2 * max
  BY <1>2
<1> QED
  BY <1>4, <1>5 DEF Whole

(* The fields made for a row that suits.                                    *)
LEMMA FieldsSuit ==
  ASSUME NEW cmd \in RowType, Suits(cmd.cmd_id, cmd.resp_id, cmd.resp_data_len)
  PROVE  SettingSuits(cmd.cmd_id, Fields(cmd))
<1> DEFINE given == Sanitize(cmd.resp_hex, cmd.resp_data_len)
           zeros == [of |-> cmd.cmd_id, digits |-> 2 * cmd.resp_data_len, raw |-> FALSE]
           hex == IF given.digits = 0 THEN zeros ELSE given
<1>1. cmd.resp_hex \in Text /\ cmd.resp_data_len \in Nat /\ cmd.resp_data_len >= 1
  BY DEF RowType, Suits
<1>2. Whole(given, cmd.resp_data_len)
  BY <1>1, SanitizeWhole
<1>3. Whole(zeros, cmd.resp_data_len)
  <2>1. ((2 * cmd.resp_data_len) % 2) = 0 /\ 2 * cmd.resp_data_len <= 2 * cmd.resp_data_len
    BY <1>1
  <2>2. zeros.digits = 2 * cmd.resp_data_len
    OBVIOUS
  <2> HIDE DEF zeros
  <2> QED
    BY <2>1, <2>2 DEF Whole
<1>4. Fields(cmd) = [resp_id |-> cmd.resp_id, resp_data_len |-> cmd.resp_data_len,
                     resp_hex |-> hex, start_after |-> 0]
  BY DEF Fields
<1> HIDE DEF given, zeros
<1>5. Whole(hex, cmd.resp_data_len)
  BY <1>2, <1>3
<1> HIDE DEF hex
<1>6. /\ Fields(cmd).resp_id = cmd.resp_id /\ Fields(cmd).resp_data_len = cmd.resp_data_len
      /\ Fields(cmd).resp_hex = hex
  BY <1>4
<1> QED
  BY <1>5, <1>6 DEF SettingSuits

(* What the user types may be anything, and is cut when the field is left.  *)
LEMMA SuitEdit ==
  ASSUME ConfigTypeOK, SuitSettings, NEW c \in CmdIds, FieldEdit(c)
  PROVE  SuitSettings'
<1>1. settings \in [CmdIds -> Setting \union {NoSetting}] /\ settings[c] \in Setting
      /\ SettingSuits(c, settings[c])
  BY DEF ConfigTypeOK, SuitSettings, FieldEdit, EditStartAfter, TypeRespHex, FocusOut, Typing
<1>2. ASSUME NEW s, SettingSuits(c, s), settings' = [settings EXCEPT ![c] = s]
      PROVE  SuitSettings'
  BY <1>1, <1>2 DEF SuitSettings
<1>3. ASSUME NEW hex, ~hex.raw => Whole(hex, settings[c].resp_data_len),
             settings' = [settings EXCEPT ![c] = [settings[c] EXCEPT !.resp_hex = hex]]
      PROVE  SuitSettings'
  <2> DEFINE s == [settings[c] EXCEPT !.resp_hex = hex]
  <2>1. /\ s.resp_id = settings[c].resp_id /\ s.resp_data_len = settings[c].resp_data_len
        /\ s.resp_hex = hex
    BY <1>1 DEF Setting
  <2> HIDE DEF s
  <2>2. SettingSuits(c, s)
    BY <1>1, <1>3, <2>1 DEF SettingSuits
  <2> QED
    BY <1>2, <1>3, <2>2 DEF s
<1>4. ASSUME NEW n, EditStartAfter(c, n) PROVE SuitSettings'
  <2> DEFINE s == [settings[c] EXCEPT !.start_after = n]
  <2>1. SettingSuits(c, s)
    BY <1>1 DEF SettingSuits, Setting
  <2>2. settings' = [settings EXCEPT ![c] = s]
    BY <1>4 DEF EditStartAfter
  <2> HIDE DEF s
  <2> QED
    BY <1>2, <2>1, <2>2
<1>5. ASSUME NEW n, TypeRespHex(c, n) PROVE SuitSettings'
  <2> DEFINE hex == [of |-> c, digits |-> n, raw |-> TRUE]
  <2>1. hex.raw
    OBVIOUS
  <2>2. settings' = [settings EXCEPT ![c] = [settings[c] EXCEPT !.resp_hex = hex]]
    BY <1>1, <1>5 DEF TypeRespHex
  <2> HIDE DEF hex
  <2> QED
    BY <1>3, <2>1, <2>2
<1>6. CASE FocusOut(c)
  <2> DEFINE hex == Sanitize(settings[c].resp_hex, settings[c].resp_data_len)
  <2>1. /\ settings[c].resp_hex \in Text /\ settings[c].resp_data_len \in Nat
        /\ settings[c].resp_data_len >= 1
    BY <1>1 DEF Setting, SettingSuits, Suits
  <2>2. Whole(hex, settings[c].resp_data_len)
    BY <2>1, SanitizeWhole
  <2>3. settings' = [settings EXCEPT ![c] = [settings[c] EXCEPT !.resp_hex = hex]]
    BY <1>6 DEF FocusOut
  <2> HIDE DEF hex
  <2> QED
    BY <1>3, <2>2, <2>3
<1> QED
  BY <1>4, <1>5, <1>6 DEF FieldEdit

(* A save changes the data of rows, and nothing else of them.               *)
LEMMA SaveSuit ==
  ASSUME ConfigTypeOK, FieldsBuilt, SuitFiles, SaveConfig
  PROVE  SuitFiles'
<1> DEFINE old == files[SaveTarget]
           rows == IF old = << >> THEN commands ELSE old
           saved == [k \in 1 .. Len(rows) |-> SavedRow(rows[k], k)]
<1>1. /\ SaveTarget \in Files /\ rows \in Seq(RowType)
      /\ \A k \in 1 .. Len(rows) :
           /\ SavedRow(rows[k], k).cmd_id = rows[k].cmd_id
           /\ SavedRow(rows[k], k).resp_id = rows[k].resp_id
           /\ SavedRow(rows[k], k).resp_data_len = rows[k].resp_data_len
      /\ files' = [files EXCEPT ![SaveTarget] = saved]
  BY SavedRows
<1>2. RowsSuit(rows)
  BY <1>1 DEF SuitFiles
<1>3. commands' = commands
  BY DEF SaveConfig
<1> HIDE DEF rows
<1>4. Len(saved) = Len(rows) /\ \A k \in 1 .. Len(rows) : saved[k] = SavedRow(rows[k], k)
  <2>1. Len(rows) \in Nat
    BY <1>1
  <2> QED
    BY <2>1
<1> HIDE DEF saved
<1>5. RowsSuit(saved)
  BY <1>1, <1>2, <1>4 DEF RowsSuit
<1>6. \A f \in Files : RowsSuit(files'[f])
  BY <1>1, <1>5 DEF SuitFiles, ConfigTypeOK
<1> QED
  BY <1>3, <1>6 DEF SuitFiles

(* What the GUI thread does to files, rows and fields.                      *)
LEMMA SuitConfig ==
  ASSUME ConfigTypeOK, FieldsBuilt, SuitFiles, SuitSettings, GuiStep
  PROVE  SuitFiles' /\ SuitSettings'
<1>1. CASE \E f \in Files : BrowseConfigFile(f)
  BY <1>1 DEF BrowseConfigFile, SuitFiles, SuitSettings
<1>2. CASE LoadConfigFile
  <2>1. RowsSuit(files[current])
    BY <1>2 DEF LoadConfigFile, SuitFiles, ConfigTypeOK
  <2>2. files' = files /\ commands' = files[current]
    BY <1>2 DEF LoadConfigFile
  <2>3. SuitSettings'
    BY <1>2 DEF LoadConfigFile, SuitSettings
  <2> QED
    BY <2>1, <2>2, <2>3 DEF SuitFiles
<1>3. CASE CreateCommandUi
  <2>1. built' \in 1 .. Len(commands)
    BY <1>3 DEF ConfigTypeOK, FieldsBuilt, CreateCommandUi
  <2>2. /\ commands[built'] \in RowType /\ commands[built'].cmd_id \in CmdIds
        /\ Suits(commands[built'].cmd_id, commands[built'].resp_id,
                 commands[built'].resp_data_len)
    BY <2>1, RowLoaded DEF SuitFiles, RowsSuit
  <2>3. SettingSuits(commands[built'].cmd_id, Fields(commands[built']))
    BY <2>2, FieldsSuit
  <2>4. SuitSettings'
    BY <1>3, <2>2, <2>3 DEF CreateCommandUi, ConfigTypeOK, SuitSettings
  <2> QED
    BY <1>3, <2>4 DEF CreateCommandUi, SuitFiles
<1>4. ASSUME NEW c \in CmdIds, FieldEdit(c) PROVE SuitFiles' /\ SuitSettings'
  <2>1. UNCHANGED <<files, commands>>
    BY <1>4 DEF FieldEdit, EditStartAfter, TypeRespHex, FocusOut
  <2> QED
    BY <1>4, <2>1, SuitEdit DEF SuitFiles
<1>5. CASE SaveConfig
  BY <1>5, SaveSuit DEF SaveConfig, SuitSettings
<1> QED
  BY <1>1, <1>2, <1>3, <1>4, <1>5 DEF GuiStep

(* An answer made of settings that suit.                                    *)
AnswerSuits(a) ==
  /\ GetRespBySend(a.cmd) # NotFound =>
       /\ GetRespBySend(a.cmd) = a.resp_id /\ GetSendByResp(a.resp_id) = a.cmd
       /\ GetTimeoutBySend(a.cmd) = GetTimeoutByResp(a.resp_id)
       /\ GetRetryBySend(a.cmd) = GetRetryByResp(a.resp_id)
  /\ ~a.hex.raw => /\ a.hex.digits % 2 = 0
                   /\ a.hex.digits \div 2 + 1 <= MaxAnswerLen \/ a.cmd = 144

LEMMA AllAnswers ==
  AnswersSuitMaster <=> \A k \in 1 .. Len(answers) : AnswerSuits(answers[k])
BY DEF AnswersSuitMaster, AnswerSuits

LEMMA AnswerOfSetting ==
  ASSUME NEW c, NEW s \in Setting, SettingSuits(c, s)
  PROVE  AnswerSuits([cmd |-> c, resp_id |-> s.resp_id, hex |-> s.resp_hex])
<1> DEFINE a == [cmd |-> c, resp_id |-> s.resp_id, hex |-> s.resp_hex]
           d == s.resp_hex.digits
           n == s.resp_data_len
<1>1. a.cmd = c /\ a.resp_id = s.resp_id /\ a.hex = s.resp_hex
  OBVIOUS
<1> HIDE DEF a
<1>2. GetRespBySend(c) # NotFound => GetRespBySend(c) = s.resp_id
  BY DEF SettingSuits, Suits
<1>3. ASSUME ~s.resp_hex.raw
      PROVE  s.resp_hex.digits % 2 = 0 /\ (s.resp_hex.digits \div 2 + 1 <= MaxAnswerLen \/ c = 144)
  <2>1. d \in Nat /\ n \in Nat /\ MaxAnswerLen \in Nat
    BY SlaveAssumption DEF SlaveAssumption, Setting, Text
  <2>2. (d % 2 = 0) /\ d <= 2 * n /\ (n + 1 <= MaxAnswerLen \/ c = 144)
    BY <1>3 DEF SettingSuits, Suits, Whole
  <2> HIDE DEF d, n
  <2>3. (d \div 2) <= n
    BY <2>1, <2>2
  <2>4. (d \div 2) \in Nat
    BY <2>1
  <2>5. (d \div 2) + 1 <= MaxAnswerLen \/ c = 144
    BY <2>1, <2>2, <2>3, <2>4
  <2> QED
    BY <2>2, <2>5 DEF d
<1>4. AnswerSuits(a)
  BY <1>1, <1>2, <1>3, TablePaired DEF AnswerSuits
<1> QED
  BY <1>4 DEF a

(* A step that replaces a reader by one that keeps its settings, or has none *)
(* of its own.                                                              *)
LEMMA SuitReaderReplaced ==
  ASSUME TypeOK, SuitReaders, NEW t \in Threads, NEW r,
         r.cfg \in Setting => r.cfg = readers[t].cfg /\ r.cmd = readers[t].cmd,
         readers' = [readers EXCEPT ![t] = r]
  PROVE  SuitReaders'
BY DEF TypeOK, SuitReaders

LEMMA SuitCfg ==
  ASSUME Shape, SuitSettings, SuitReaders, NEW t \in Threads, readers[t].pc = "decide"
  PROVE  Cfg(t) \in Setting /\ SettingSuits(readers[t].cmd, Cfg(t))
<1>1. readers[t] \in BusyReader /\ readers[t].cmd \in CmdIds /\ Cfg(t) \in Setting
  BY CfgType DEF Shape
<1> QED
  BY <1>1, ConfigConstants DEF Cfg, SuitSettings, SuitReaders

(* What the readers do: an answer is made of the settings the reader has.   *)
LEMMA SuitReaderStep ==
  ASSUME Shape, SuitSettings, SuitReaders, AnswersSuitMaster, NEW t \in Threads, Reader(t)
  PROVE  SuitReaders' /\ AnswersSuitMaster'
<1>1. readers[t] \in ReaderType /\ readers[t].of \in Managers
  BY ReaderCases DEF Shape, TypeOK
<1>0. ASSUME NEW m, NEW pc, readers' = [readers EXCEPT ![t] = ReaderAt(m, pc)]
      PROVE  SuitReaders'
  <2> DEFINE r == ReaderAt(m, pc)
  <2>1. r.cfg = NoSetting
    BY RestHasNone
  <2>2. readers' = [readers EXCEPT ![t] = r]
    BY <1>0
  <2> HIDE DEF r
  <2> QED
    BY <2>1, <2>2, ConfigConstants, SuitReaderReplaced DEF Shape
<1>2. CASE LookUp(t)
  <2>1. answers' = answers
    BY <1>2 DEF LookUp
  <2>2. CASE settings[readers[t].cmd] = NoSetting
    BY <1>0, <1>2, <2>1, <2>2, Breaks DEF LookUp, AnswersSuitMaster
  <2>3. CASE settings[readers[t].cmd] # NoSetting
    <3> DEFINE r == [of |-> readers[t].of, pc |-> "count", cmd |-> readers[t].cmd, cfg |-> Live,
                     same |-> (last_cmd_id = readers[t].cmd)]
    <3>1. r.cfg = Live
      OBVIOUS
    <3>2. readers' = [readers EXCEPT ![t] = r]
      BY <1>2, <2>3 DEF LookUp
    <3> HIDE DEF r
    <3> QED
      BY <2>1, <3>1, <3>2, SlaveConstants, SuitReaderReplaced DEF Shape, AnswersSuitMaster
  <2> QED
    BY <2>2, <2>3
<1>3. CASE CountRun(t)
  <2> DEFINE r == [readers[t] EXCEPT !.pc = "decide"]
  <2>1. r.cfg = readers[t].cfg /\ r.cmd = readers[t].cmd
    BY <1>3, CfgType DEF Shape, CountRun, BusyReader
  <2>2. readers' = [readers EXCEPT ![t] = r] /\ answers' = answers
    BY <1>3 DEF CountRun
  <2> HIDE DEF r
  <2> QED
    BY <2>1, <2>2, SuitReaderReplaced DEF Shape, AnswersSuitMaster
<1>4. CASE Decide(t)
  <2>1. CASE Cfg(t).start_after = Unreadable
    BY <1>0, <1>4, <2>1, Breaks DEF Decide, AnswersSuitMaster
  <2>2. CASE Cfg(t).start_after # Unreadable
    <3> DEFINE answer == NewAnswer(t)
    <3>1. readers' = [readers EXCEPT ![t] = ReaderAt(readers[t].of, "recv")]
          /\ (answers' = answers \/ answers' = Append(answers, answer))
      BY <1>4, <2>2 DEF Decide
    <3>2. AnswerSuits(answer)
      BY <1>4, SuitCfg, AnswerOfSetting DEF Decide, NewAnswer
    <3>3. answers \in Seq(AnswerType) /\ answer \in AnswerType
      BY <1>4, CfgType DEF Shape, TypeOK, Decide, AnswerType, Setting, NewAnswer
    <3>4. \A k \in 1 .. Len(answers) : AnswerSuits(answers[k])
      BY AllAnswers
    <3> HIDE DEF answer
    <3>5. SuitReaders'
      BY <1>0, <3>1
    <3>6. \A k \in 1 .. Len(answers') : AnswerSuits(answers'[k])
      BY <3>1, <3>2, <3>3, <3>4, AppendProperties
    <3>7. AnswersSuitMaster'
      BY <3>6 DEF AnswersSuitMaster, AnswerSuits
    <3> QED
      BY <3>5, <3>7
  <2> QED
    BY <2>1, <2>2
<1>5. CASE Resting(t)
  BY <1>0, <1>5, Rests DEF AnswersSuitMaster
<1>6. ASSUME NEW n, Recv(t, n) PROVE SuitReaders' /\ AnswersSuitMaster'
  <2> DEFINE cmd == ParseFrame(SubSeq(line, 1, n))
             r == IF Known(cmd) THEN [ReaderAt(readers[t].of, "lookup") EXCEPT !.cmd = cmd]
                  ELSE readers[t]
  <2>1. r.cfg \in Setting => r.cfg = readers[t].cfg /\ r.cmd = readers[t].cmd
    <3> HIDE DEF cmd
    <3>1. CASE Known(cmd)
      <4>1. cmd \in CmdIds
        BY <3>1 DEF Known
      <4> QED
        BY <1>1, <3>1, <4>1, ReaderMade, ConfigConstants
    <3> QED
      BY <3>1
  <2>2. readers' = [readers EXCEPT ![t] = r] /\ answers' = answers
    BY <1>6 DEF Recv
  <2> HIDE DEF r
  <2> QED
    BY <2>1, <2>2, SuitReaderReplaced DEF Shape, AnswersSuitMaster
<1> QED
  BY <1>2, <1>3, <1>4, <1>5, <1>6 DEF Reader, Resting

(* A reload: what the readers keep is what the table had.                   *)
LEMMA SuitLoad ==
  ASSUME Shape, Suit, Load
  PROVE  Suit'
<1>1. SuitFiles /\ SuitSettings /\ SuitReaders /\ AnswersSuitMaster
  BY DEF Suit
<1>2. SuitFiles' /\ SuitSettings'
  BY <1>1, SuitConfig DEF Load, GuiStep, Shape, TypeOK
<1>3. ASSUME NEW t \in Threads, readers'[t].cfg \in Setting
      PROVE  SettingSuits(readers'[t].cmd, readers'[t].cfg)
  <2>1. CASE readers[t].cfg = Live
    <3>1. readers[t] \in BusyReader
      BY <2>1, ReaderCases, SlaveConstants DEF Shape, TypeOK
    <3>2. readers[t].cmd \in CmdIds /\ settings[readers[t].cmd] # NoSetting
      BY <2>1, <3>1 DEF BusyReader, Shape, LiveSettings
    <3>3. readers'[t] = [readers[t] EXCEPT !.cfg = settings[readers[t].cmd]]
      BY <2>1 DEF Load, SettingsKept
    <3>4. readers'[t].cfg = settings[readers[t].cmd] /\ readers'[t].cmd = readers[t].cmd
      BY <3>1, <3>3 DEF BusyReader
    <3> QED
      BY <1>1, <3>2, <3>4 DEF SuitSettings
  <2>2. CASE readers[t].cfg # Live
    BY <1>1, <1>3, <2>2 DEF Load, SettingsKept, SuitReaders
  <2> QED
    BY <2>1, <2>2
<1>4. SuitReaders'
  BY <1>3 DEF SuitReaders
<1>5. AnswersSuitMaster'
  BY <1>1 DEF AnswersSuitMaster, Load
<1> QED
  BY <1>2, <1>4, <1>5 DEF Suit

(* Connections and clients leave files, fields and answers alone.           *)
LEMMA SuitLink ==
  ASSUME Shape, Suit,
         \/ \E m \in Managers : Connect(m)
         \/ DisconnectBegin \/ DisconnectEnd
         \/ ClientConnects \/ ClientCloses \/ \E c \in Sendable : ClientSends(c)
  PROVE  Suit'
<1>1. UNCHANGED <<files, commands, settings, answers>>
  BY DEF Connect, DisconnectBegin, DisconnectEnd, ClientConnects, ClientCloses, ClientSends,
         configVars
<1>2. SuitFiles' /\ SuitSettings' /\ AnswersSuitMaster'
  BY <1>1 DEF Suit, SuitFiles, SuitSettings, AnswersSuitMaster
<1>3. ASSUME NEW m, NEW pc, NEW t \in Threads, readers' = [readers EXCEPT ![t] = ReaderAt(m, pc)]
      PROVE  SuitReaders'
  <2>1. ReaderAt(m, pc).cfg = NoSetting
    BY DEF ReaderAt
  <2> QED
    BY <1>3, <2>1, ConfigConstants, SuitReaderReplaced DEF Shape, Suit
<1>4. CASE \E m \in Managers : Connect(m)
  <2>1. PICK m \in Managers : Connect(m)
    BY <1>4
  <2>2. PICK t \in Threads :
          readers' = [readers EXCEPT ![t] = ReaderAt(m, IF m = "tcp" THEN "accept" ELSE "recv")]
    BY <2>1 DEF Connect
  <2>3. SuitReaders'
    BY <1>3, <2>2, Zenon
  <2> QED
    BY <1>2, <2>3 DEF Suit
<1>5. CASE ClientConnects
  BY <1>2, <1>3, <1>5 DEF ClientConnects, Suit
<1>6. CASE UNCHANGED readers
  BY <1>2, <1>6 DEF Suit, SuitReaders
<1> QED
  BY <1>4, <1>5, <1>6 DEF DisconnectBegin, DisconnectEnd, ClientCloses, ClientSends

LEMMA SuitStep == ASSUME Shape, Suit, [Next]_slaveVars PROVE Suit'
<1>1. SuitFiles /\ SuitSettings /\ SuitReaders /\ AnswersSuitMaster
  BY DEF Suit
<1>2. CASE Configure
  <2>1. SuitFiles' /\ SuitSettings'
    BY <1>1, <1>2, SuitConfig DEF Configure, GuiStep, FieldEdit, Shape, TypeOK
  <2>2. UNCHANGED <<readers, answers>>
    BY <1>2 DEF Configure
  <2> QED
    BY <1>1, <2>1, <2>2 DEF Suit, SuitReaders, AnswersSuitMaster
<1>3. ASSUME NEW t \in Threads, Reader(t) PROVE Suit'
  <2>1. SuitReaders' /\ AnswersSuitMaster'
    BY <1>1, <1>3, SuitReaderStep
  <2>2. UNCHANGED <<files, commands, settings>>
    BY <1>3, ReaderMoves DEF configVars
  <2> QED
    BY <1>1, <2>1, <2>2 DEF Suit, SuitFiles, SuitSettings
<1>4. ASSUME NEW k, AnswerGoes(k) PROVE Suit'
  <2>1. UNCHANGED <<files, commands, settings, readers>>
    BY <1>4 DEF AnswerGoes, configVars
  <2>2. AnswersSuitMaster'
    BY <1>1, <1>4, AnswersLeft DEF AnswersSuitMaster
  <2> QED
    BY <1>1, <2>1, <2>2 DEF Suit, SuitFiles, SuitSettings, SuitReaders
<1>5. CASE UNCHANGED slaveVars
  BY <1>1, <1>5 DEF slaveVars, configVars, Suit, SuitFiles, SuitSettings, SuitReaders,
                    AnswersSuitMaster
<1>6. CASE \/ \E m \in Managers : Connect(m)
           \/ DisconnectBegin \/ DisconnectEnd
           \/ ClientConnects \/ ClientCloses \/ \E c \in Sendable : ClientSends(c)
  BY <1>6, SuitLink
<1> QED
  BY <1>2, <1>3, <1>4, <1>5, <1>6, SuitLoad DEF Next

(* If the files at the start suit the master, what the simulator answers     *)
(* agrees with the master's table, whatever is typed, reloaded or saved, and *)
(* although saves mix the rows of two files: no handler changes a row's      *)
(* identifiers.  And an answer that was not taken from a field just being    *)
(* typed into is whole bytes and fits a frame (DATA_GET excepted), because   *)
(* every text that is loaded, left or saved is cut to its row's              *)
(* resp_data_len; of a text taken while it is typed nothing is said.         *)
THEOREM AnswersAlwaysSuit ==
  ASSUME FilesSuitMaster
  PROVE  Spec => []AnswersSuitMaster
<1>1. Init => Shape /\ Suit
  BY ShapeInit, SuitInit
<1>2. Shape /\ Suit /\ [Next]_slaveVars => Shape' /\ Suit'
  BY ShapeStep, SuitStep
<1>3. Suit => AnswersSuitMaster
  BY DEF Suit
<1> QED
  BY <1>1, <1>2, <1>3, PTL DEF Spec

(* The rows of the two files that come with the simulator.                  *)
LEMMA Ap3Rows ==
  /\ Len(Ap3Commands) = 23
  /\ \A k \in 1 .. 23 :
       LET row == Ap3Commands[k]
       IN  /\ row.resp_id = row.cmd_id + 1
           /\ row.resp_data_len \in Nat /\ row.resp_data_len >= 1
           /\ row.resp_data_len <= 30 \/ row.cmd_id = 144
BY DEF Ap3Commands, JsonRow

LEMMA X7Rows ==
  /\ Len(X7Commands) = 16
  /\ \A k \in 1 .. 16 :
       LET row == X7Commands[k]
       IN  /\ row.resp_id = row.cmd_id + 1
           /\ row.resp_data_len \in Nat /\ row.resp_data_len >= 1
           /\ row.resp_data_len <= 30 \/ row.cmd_id = 144
BY DEF X7Commands, JsonRow

(* ap3_cmd.json and x7_cmd.json suit a master that takes 31 bytes or more,   *)
(* and so does every choice of their rows.                                  *)
THEOREM ShippedFilesSuit ==
  ASSUME MaxAnswerLen >= 31,
         \A f \in Files : \A i \in 1 .. Len(FirstRows[f]) :
           \E rows \in {Ap3Commands, X7Commands} : \E k \in 1 .. Len(rows) :
             FirstRows[f][i] = rows[k]
  PROVE  FilesSuitMaster
<1>1. ASSUME NEW f \in Files, NEW i \in 1 .. Len(FirstRows[f])
      PROVE  Suits(FirstRows[f][i].cmd_id, FirstRows[f][i].resp_id,
                   FirstRows[f][i].resp_data_len)
  <2>1. PICK rows \in {Ap3Commands, X7Commands} :
          \E k \in 1 .. Len(rows) : FirstRows[f][i] = rows[k]
    OBVIOUS
  <2>2. PICK k \in 1 .. Len(rows) : FirstRows[f][i] = rows[k]
    BY <2>1
  <2> DEFINE row == rows[k]
  <2>3. /\ row.resp_id = row.cmd_id + 1
        /\ row.resp_data_len \in Nat /\ row.resp_data_len >= 1
        /\ row.resp_data_len <= 30 \/ row.cmd_id = 144
    <3>1. CASE rows = Ap3Commands
      BY <3>1, Ap3Rows
    <3>2. CASE rows = X7Commands
      BY <3>2, X7Rows
    <3> QED
      BY <3>1, <3>2
  <2> HIDE DEF row
  <2>4. GetRespBySend(row.cmd_id) \in {NotFound, row.resp_id}
    BY <2>3, AnswerIsNext
  <2>5. Suits(row.cmd_id, row.resp_id, row.resp_data_len)
    BY <2>3, <2>4, SlaveAssumption DEF Suits, SlaveAssumption
  <2> QED
    BY <2>2, <2>5 DEF row
<1> QED
  BY <1>1 DEF FilesSuitMaster, RowsSuit

=============================================================================
