-------------------------- MODULE MCCommCtrlOneKind -------------------------
(***************************************************************************)
(* The controller with an application that uses one kind of command at a    *)
(* time, for the properties that are checked with fairness.                 *)
(***************************************************************************)
EXTENDS CommCtrl

(* bound: the application submits single commands as long as it has set no  *)
(* period command, and sets one when no single command is left.             *)
SubmitsSingle(c) == period_cmd = ZeroCmd /\ period_write = NoCmd /\ SendSingleCommand(c)
SetsPeriod(c)    == Todo = << >> /\ SetPeriodBegin(c)

OneKindNext ==
  \/ Control
  \/ TimeoutFires \/ PeriodFires
  \/ StartEvent \/ StartNotify
  \/ \E c \in Singles : SubmitsSingle(c)
  \/ \E c \in Periods : SetsPeriod(c)
  \/ SetPeriodEnd
  \/ GetRecvData
  \/ \E c \in Cmds : Answer(c) \/ Lose(c)
  \/ SaveRecvPush \/ SaveRecvPost

OneKindSpec == Init /\ [][OneKindNext]_vars /\ Fairness

=============================================================================
