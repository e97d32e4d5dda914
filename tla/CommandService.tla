--------------------------- MODULE CommandService ---------------------------
(***************************************************************************)
(* What the controller promises its application: single commands go out     *)
(* in the order submitted, one at a time; each is repeated until an answer   *)
(* is accepted for it, and only then does it make room for the next; a wait  *)
(* that has an accepted answer is not given up; a period command goes out    *)
(* only when no single command is pending.  At most one command is           *)
(* outstanding.  CommCtrl implements this.                                   *)
(***************************************************************************)
EXTENDS Naturals, Sequences

CONSTANTS
  Singles,        \* single commands
  PeriodValues,   \* what a period transmission may carry
  Capacity,       \* single commands pending at once
  NoCmd           \* no command

VARIABLES
  todo,           \* single commands submitted and not yet answered, oldest first
  outstanding,    \* the command sent and neither answered nor given up, with its type
  answered        \* an answer is accepted for it, and not yet acted on

svars == <<todo, outstanding, answered>>

Nothing   == [type |-> "NONE", cmd |-> NoCmd]
Single(c) == [type |-> "SINGLE", cmd |-> c]
Period(c) == [type |-> "PERIOD", cmd |-> c]

Init == todo = << >> /\ outstanding = Nothing /\ answered = FALSE

Submit(c) ==
  /\ Len(todo) < Capacity
  /\ todo' = Append(todo, c)
  /\ UNCHANGED <<outstanding, answered>>

TransmitSingle ==
  /\ outstanding = Nothing
  /\ todo # << >>
  /\ outstanding' = Single(Head(todo))
  /\ UNCHANGED <<todo, answered>>

TransmitPeriod(c) ==
  /\ outstanding = Nothing
  /\ todo = << >>
  /\ outstanding' = Period(c)
  /\ UNCHANGED <<todo, answered>>

Accept ==
  /\ outstanding # Nothing
  /\ ~answered /\ answered' = TRUE
  /\ UNCHANGED <<todo, outstanding>>

Answered ==
  /\ outstanding # Nothing
  /\ answered /\ answered' = FALSE
  /\ outstanding' = Nothing
  /\ todo' = IF outstanding.type = "SINGLE" THEN Tail(todo) ELSE todo

(* The wait is given up; a single command stays at the head of todo.        *)
GiveUp ==
  /\ outstanding # Nothing
  /\ ~answered
  /\ outstanding' = Nothing
  /\ UNCHANGED <<todo, answered>>

Next ==
  \/ \E c \in Singles : Submit(c)
  \/ TransmitSingle
  \/ \E c \in PeriodValues : TransmitPeriod(c)
  \/ Accept
  \/ Answered
  \/ GiveUp

Spec == Init /\ [][Next]_svars

=============================================================================
