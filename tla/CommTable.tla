----------------------------- MODULE CommTable ------------------------------
(***************************************************************************)
(* The command table of comm_table.c: which identifier answers which, and   *)
(* how long and how often to try.  No caller is left in comm_ctrl.c (the    *)
(* comparison at 593-597 is commented out), and both ends of the line are   *)
(* configured by it all the same: the slave's files list the same pairs.    *)
(***************************************************************************)
EXTENDS Integers, Sequences

NotFound == -1                         \* a lookup that returns false

(* Every COMM_<command>_REQ, _RESP, _TIMEOUT, _RETRY of the table.          *)
Row(send, resp) ==
  [send_cmd_id |-> send, resp_cmd_id |-> resp, timeout |-> 1000, retry_count |-> 3]

(* comm_cmd_table, in its order                                             *)
CmdTable == <<
  Row(240, 241), Row( 32,  33), Row( 34,  35), Row(  4,   5), Row(  8,   9),
  Row( 14,  15), Row( 64,  65), Row( 66,  67), Row( 68,  69), Row( 70,  71),
  Row( 72,  73), Row( 76,  77), Row( 78,  79), Row( 80,  81), Row( 82,  83),
  Row(128, 129), Row(130, 131), Row(132, 133), Row(134, 135), Row(136, 137),
  Row(140, 141), Row(142, 143), Row(144, 145) >>

(* The loop of every lookup: the first row whose key is id gives the answer.*)
Lookup(key, id, field) ==
  LET hits == {i \in 1 .. Len(CmdTable) : CmdTable[i][key] = id}
  IN  IF hits = {} THEN NotFound
      ELSE CmdTable[CHOOSE i \in hits : \A j \in hits : i <= j][field]

GetRespBySend(id)    == Lookup("send_cmd_id", id, "resp_cmd_id")
GetSendByResp(id)    == Lookup("resp_cmd_id", id, "send_cmd_id")
GetTimeoutBySend(id) == Lookup("send_cmd_id", id, "timeout")
GetTimeoutByResp(id) == Lookup("resp_cmd_id", id, "timeout")
GetRetryBySend(id)   == Lookup("send_cmd_id", id, "retry_count")
GetRetryByResp(id)   == Lookup("resp_cmd_id", id, "retry_count")

=============================================================================
