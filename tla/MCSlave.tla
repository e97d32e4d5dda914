------------------------------ MODULE MCSlave -------------------------------
(***************************************************************************)
(* The slave with excerpts of its two configuration files: of ap3_cmd.json  *)
(* FC_CALIB_GET (0x44, one byte, two given) and DATA_GET (0x90, 32 bytes),  *)
(* of x7_cmd.json 0x54, which the table does not have.                      *)
(***************************************************************************)
EXTENDS Slave, SlaveFiles

MCFiles == {"ap3_cmd.json", "x7_cmd.json", "cmd.json"}
MCCmdIds == {68, 84, 144}

Excerpt(rows, ids) == SelectSeq(rows, LAMBDA row : row.cmd_id \in ids)
MCFirstRows == [f \in MCFiles |->
  CASE f = "ap3_cmd.json" -> Excerpt(Ap3Commands, {68, 144})
    [] f = "x7_cmd.json"  -> Excerpt(X7Commands, {84})
    [] f = "cmd.json"     -> << >>]

(* bound: connecting again and again (more than one click) does not go with *)
(* typing, nor with more than three acts.                                   *)
MayAct   == clicks > 1 => acts' <= 3 /\ Typing' = {}
MayClick == clicks' > 1 => acts <= 3 /\ Typing = {}

MCNext ==
  \/ Load /\ MayAct
  \/ Configure /\ MayAct
  \/ \E m \in Managers : Connect(m) /\ MayClick
  \/ DisconnectBegin /\ MayClick
  \/ DisconnectEnd
  \/ ClientConnects \/ ClientCloses
  \/ \E c \in Sendable : ClientSends(c)
  \/ \E t \in Threads : Reader(t)
  \/ \E k \in 1 .. MaxFrames : AnswerGoes(k)

MCSpec == Init /\ [][MCNext]_slaveVars /\ Fairness

=============================================================================
