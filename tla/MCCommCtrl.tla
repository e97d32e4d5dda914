----------------------------- MODULE MCCommCtrl -----------------------------
(***************************************************************************)
(* The controller on small instances.  Queues are shorter than in the code  *)
(* (messages 2 for 16, single commands 1 or 2 for 6, events 2 or 3 for 4),   *)
(* so that each of them fills up within a few steps.                        *)
(***************************************************************************)
EXTENDS CommCtrl, TLC

(* Single commands are interchangeable: nothing compares them but equality. *)
SinglesSymmetry == Permutations(Singles)

=============================================================================
