------------------------------ MODULE MCFleet -------------------------------
(* Constant values for the runs of Fleet. *)
EXTENDS Fleet, TLC

UpOrDown == {-1, 2}
=============================================================================
