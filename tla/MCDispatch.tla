----------------------------- MODULE MCDispatch -----------------------------
(* Constant values for the runs of Dispatch. *)
EXTENDS Dispatch

channel(type, target) == [type |-> type, target |-> target]

(* All three transports; a repeated entry and two recipients of one type; a  *)
(* channel nothing is registered for; in-app twice; no channel at all.       *)
Rules ==
  {<<channel("email", "a"), channel("in_app", NoTarget), channel("whatsapp", "w")>>,
   <<channel("email", "a"), channel("email", "a"), channel("email", "b")>>,
   <<channel("sms", "s"), channel("whatsapp", "w"), channel("whatsapp", "v"),
     channel("email", "a")>>,
   <<channel("in_app", NoTarget), channel("in_app", "ops"), channel("email", "a")>>,
   <<>>}
=============================================================================
