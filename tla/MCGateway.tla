----------------------------- MODULE MCGateway ------------------------------
(* Constant values for the runs of Gateway. *)
EXTENDS Gateway, TLC

Interchangeable == Permutations(Slots)

OneEach == [r \in Roles |-> IF r = "super_admin" THEN 2 ELSE 1]

send(token, method, path) == [token |-> token, method |-> method, path |-> path]

(* A permitted read, a write that needs more privilege, one the top role     *)
(* inherits to an upstream that serves its routes under the prefix the       *)
(* gateway strips, a bad token, and an unconfigured upstream.                *)
Traffic ==
  {send("viewer", "GET", <<"fleet", "drones", "7">>),
   send("viewer", "POST", <<"fleet", "drones">>),
   send("super_admin", "POST", <<"missions">>),
   send("missing", "GET", <<"fleet", "drones">>),
   send("viewer", "GET", <<"alerts">>)}
=============================================================================
