---------------------------- MODULE MCEscalation ----------------------------
(* Constant values for the runs of Escalation. *)
EXTENDS Escalation, TLC

OneRule  == {[chain |-> 2, interval |-> 1]}
TwoRules == {[chain |-> 2, interval |-> 1], [chain |-> 1, interval |-> 0]}
=============================================================================
