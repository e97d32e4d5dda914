----------------------------- MODULE SlaveFiles -----------------------------
(***************************************************************************)
(* The two configuration files that come with the slave simulator: of each  *)
(* row the command, its answer's identifier, resp_data_len, and how many    *)
(* bytes resp_hex has.                                                      *)
(***************************************************************************)
EXTENDS Integers, Sequences

JsonRow(cmd, resp, len, given) ==
  [cmd_id |-> cmd, resp_id |-> resp, resp_data_len |-> len,
   resp_hex |-> [of |-> cmd, digits |-> 2 * given, raw |-> FALSE]]

(* ap3_cmd.json                                                             *)
Ap3Commands == <<
  JsonRow(240, 241, 15, 15), JsonRow( 32,  33,  1,  1), JsonRow( 34,  35,  1,  1),
  JsonRow(  4,   5,  2,  2), JsonRow(  8,   9,  2,  2), JsonRow( 14,  15,  2,  2),
  JsonRow( 64,  65,  1,  1), JsonRow( 66,  67,  1,  1), JsonRow( 68,  69,  1,  2),
  JsonRow( 70,  71,  1,  1), JsonRow( 72,  73,  1,  1), JsonRow( 76,  77,  1,  1),
  JsonRow( 78,  79,  1,  1), JsonRow( 80,  81,  1,  1), JsonRow( 82,  83,  1,  1),
  JsonRow(128, 129,  9,  9), JsonRow(130, 131,  9,  9), JsonRow(132, 133,  3,  3),
  JsonRow(134, 135,  3,  3), JsonRow(136, 137,  9,  9), JsonRow(140, 141,  3,  3),
  JsonRow(142, 143,  2,  2), JsonRow(144, 145, 32, 32) >>

(* x7_cmd.json                                                              *)
X7Commands == <<
  JsonRow(240, 241, 13, 13), JsonRow( 32,  33,  1,  1), JsonRow( 34,  35,  1,  1),
  JsonRow( 14,  15,  2,  2), JsonRow( 80,  81,  1,  1), JsonRow( 82,  83,  1,  1),
  JsonRow( 84,  85,  1,  1), JsonRow( 86,  87,  1,  1), JsonRow(128, 129,  9,  9),
  JsonRow(130, 131,  9,  9), JsonRow(132, 133,  3,  3), JsonRow(134, 135,  3,  3),
  JsonRow(136, 137,  9,  9), JsonRow(138, 139,  2,  2), JsonRow(140, 141,  2,  2),
  JsonRow(144, 145,  5,  5) >>

=============================================================================
