---------------------------- MODULE SlaveConfig -----------------------------
(***************************************************************************)
(* The slave simulator's answers (NSK_Slave.py): the configuration files    *)
(* they are loaded from, the fields the user edits, the file they are saved *)
(* to.  The GUI thread runs one handler at a time; loading is a step per    *)
(* row, because the thread that answers commands reads cmd_settings in the  *)
(* meantime.  A text of hexadecimal digits is abstracted to the command it  *)
(* was written for and how many digits it has.  This module has the state   *)
(* and the steps of the GUI thread; Slave composes them with the line.      *)
(***************************************************************************)
EXTENDS Integers, Sequences

CONSTANTS
  Files,          \* names of configuration files
  DefaultFile,    \* "cmd.json", where a save without a selection goes
  NoFile,         \* no selection
  CmdIds,         \* identifiers of the commands in the files
  FirstRows,      \* file -> its "commands" at the start
  StartAfters,    \* what the user may set start_after to
  Unreadable,     \* a start_after field being edited: get() raises
  EditSizes,      \* digits the user may type as an answer
  NoSetting,      \* a command that is not in cmd_settings
  MaxActs         \* bound: what the user does to files and fields

(* A raw text is as it was typed: it may have an odd digit, more digits     *)
(* than resp_data_len allows, and other characters besides.                 *)
Text    == [of : CmdIds, digits : Nat, raw : BOOLEAN]
RowType == [cmd_id : CmdIds, resp_id : Nat, resp_data_len : Nat, resp_hex : Text]
Setting == [resp_id : Nat, resp_data_len : Nat, resp_hex : Text,
            start_after : Nat \union {Unreadable}]

ASSUME SlaveConfigAssumption ==
  /\ DefaultFile \in Files /\ NoFile \notin Files
  /\ FirstRows \in [Files -> Seq(RowType)]
  /\ \A f \in Files : \A i \in 1 .. Len(FirstRows[f]) :
       /\ FirstRows[f][i].resp_hex.of = FirstRows[f][i].cmd_id
       /\ \A j \in 1 .. i - 1 : FirstRows[f][j].cmd_id # FirstRows[f][i].cmd_id
  /\ StartAfters \subseteq Nat
  /\ Unreadable \notin Nat
  /\ EditSizes \subseteq Nat
  /\ NoSetting \notin Setting
  /\ MaxActs \in Nat

VARIABLES
  files,       \* file -> its "commands"
  current,     \* current_config_file, or NoFile
  commands,    \* commands: the rows last loaded
  built,       \* how many of them create_command_ui has made fields for
  settings,    \* cmd_settings: command -> its fields, or NoSetting
  gui,         \* the GUI thread: "idle", "loading", or "joining" (Slave)
  mixed,       \* history: a save has gone into the rows of other commands
  acts         \* bound: what the user has done

configVars == <<files, current, commands, built, settings, gui, mixed, acts>>

ConfigTypeOK ==
  /\ files \in [Files -> Seq(RowType)]
  /\ current \in Files \union {NoFile}
  /\ commands \in Seq(RowType) /\ built \in 0 .. Len(commands)
  /\ settings \in [CmdIds -> Setting \union {NoSetting}]
  /\ gui \in {"idle", "loading", "joining"}
  /\ mixed \in BOOLEAN
  /\ acts \in 0 .. MaxActs

(* Nothing is loaded when the program starts.                               *)
ConfigInit ==
  /\ files = FirstRows
  /\ current = NoFile
  /\ commands = << >> /\ built = 0
  /\ settings = [c \in CmdIds |-> NoSetting]
  /\ gui = "idle"
  /\ mixed = FALSE
  /\ acts = 0

-----------------------------------------------------------------------------
(* The user acts, when the GUI thread is free.                              *)
UserActs == gui = "idle" /\ acts < MaxActs /\ acts' = acts + 1

(* Variant: what is over max bytes is kept.                                 *)
SanitizeUncut(text, max) ==
  [text EXCEPT !.digits = text.digits - (text.digits % 2), !.raw = FALSE]

(* sanitize_hex_input: other characters go, an odd digit goes, and what is  *)
(* over max bytes is cut.                                                   *)
Sanitize(text, max) ==
  LET pairs == text.digits \div 2
  IN  [text EXCEPT !.digits = 2 * (IF max > 0 /\ pairs > max THEN max ELSE pairs),
                   !.raw = FALSE]

(* The fields the user has typed into and not left.                         *)
Typing == {c \in CmdIds : settings[c] # NoSetting /\ settings[c].resp_hex.raw}

(* browse_config_file, or the combobox: files that exist are offered.  Both *)
(* take the focus, as the fields do; whether a button does depends on the   *)
(* platform.                                                                *)
BrowseConfigFile(f) ==
  /\ UserActs
  /\ Typing = {}
  /\ f # current
  /\ f # DefaultFile \/ files[f] # << >>
  /\ current' = f
  /\ UNCHANGED <<files, commands, built, settings, gui, mixed>>

(* load_config_file, to the end of clear_command_ui                         *)
LoadConfigFile ==
  /\ UserActs
  /\ current # NoFile
  /\ commands' = files[current]
  /\ built' = 0
  /\ settings' = [c \in CmdIds |-> NoSetting]
  /\ gui' = IF files[current] = << >> THEN "idle" ELSE "loading"
  /\ UNCHANGED <<files, current, mixed>>

(* The fields create_command_ui makes for a row: an empty answer is filled  *)
(* up with zeros.                                                           *)
Fields(cmd) ==
  LET given == Sanitize(cmd.resp_hex, cmd.resp_data_len)
  IN  [resp_id |-> cmd.resp_id, resp_data_len |-> cmd.resp_data_len,
       resp_hex |-> IF given.digits = 0
                    THEN [of |-> cmd.cmd_id, digits |-> 2 * cmd.resp_data_len, raw |-> FALSE]
                    ELSE given,
       start_after |-> 0]

(* One round of create_command_ui                                           *)
CreateCommandUi ==
  /\ gui = "loading"
  /\ built' = built + 1
  /\ settings' = [settings EXCEPT ![commands[built'].cmd_id] = Fields(commands[built'])]
  /\ gui' = IF built' = Len(commands) THEN "idle" ELSE "loading"
  /\ UNCHANGED <<files, current, commands, mixed, acts>>

(* The user types into the fields of c.  What is typed is in the variable   *)
(* behind the field at once;                                                *)
EditStartAfter(c, n) ==
  /\ UserActs
  /\ Typing = {}
  /\ settings[c] # NoSetting
  /\ settings' = [settings EXCEPT ![c].start_after = n]
  /\ UNCHANGED <<files, current, commands, built, gui, mixed>>

TypeRespHex(c, n) ==
  /\ UserActs
  /\ Typing \subseteq {c}
  /\ settings[c] # NoSetting
  /\ settings' = [settings EXCEPT ![c].resp_hex = [of |-> c, digits |-> n, raw |-> TRUE]]
  /\ UNCHANGED <<files, current, commands, built, gui, mixed>>

(* _on_hex_focus_out: it is sanitized when the field is left.               *)
FocusOut(c) ==
  /\ gui = "idle"
  /\ c \in Typing
  /\ settings' = [settings EXCEPT
       ![c].resp_hex = Sanitize(settings[c].resp_hex, settings[c].resp_data_len)]
  /\ UNCHANGED <<files, current, commands, built, gui, mixed, acts>>

(* on_save_config: where it goes, and what a field holds.                   *)
SaveTarget == IF current = NoFile THEN DefaultFile ELSE current
Shown(cmd) == Sanitize(settings[cmd.cmd_id].resp_hex, cmd.resp_data_len)

(* Row k of the file after a save: the k-th field, whatever row it was made *)
(* for, goes into the k-th row.                                             *)
(* Variant: the fields are counted from the second one.                     *)
SavedRowShifted(row, k) ==
  IF k < Len(commands) THEN [row EXCEPT !.resp_hex = Shown(commands[k + 1])] ELSE row
SavedRow(row, k) ==
  IF k <= Len(commands) THEN [row EXCEPT !.resp_hex = Shown(commands[k])] ELSE row

(* on_save_config: a file without rows gets those loaded.                   *)
SaveConfig ==
  /\ UserActs
  /\ LET old == files[SaveTarget]
         rows == IF old = << >> THEN commands ELSE old
     IN  /\ files' = [files EXCEPT ![SaveTarget] =
                        [k \in 1 .. Len(rows) |-> SavedRow(rows[k], k)]]
         /\ mixed' = (mixed \/ \E k \in 1 .. Len(rows) :
                        k <= Len(commands) /\ rows[k].cmd_id # commands[k].cmd_id)
  /\ UNCHANGED <<current, commands, built, settings, gui>>

=============================================================================
