---------------------------- MODULE MCDashboard -----------------------------
(* Constant values for the run of Dashboard. *)
EXTENDS Dashboard

Altitudes == <<7, 3, 7>>

box(angle) == [cx |-> 5, cy |-> 3, w |-> 2, h |-> 1, angle |-> angle]

Detections ==
  {[id |-> "x", drone |-> "d1", frameTs |-> 0, obb |-> box(0)],
   [id |-> "y", drone |-> "d1", frameTs |-> 3, obb |-> box(1)],
   [id |-> "z", drone |-> "d2", frameTs |-> 8, obb |-> box(3)],
   [id |-> "w", drone |-> "d2", frameTs |-> 9, obb |-> box(2)]}
=============================================================================
