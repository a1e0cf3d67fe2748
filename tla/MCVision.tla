------------------------------ MODULE MCVision ------------------------------
(* Constant values for the run of Vision. *)
EXTENDS Vision

box(x) == [cx |-> x, cy |-> 0, w |-> 4, h |-> 2]

sight(cls, conf, x) == [cls |-> cls, conf |-> conf, obb |-> box(x)]

Seen == {sight("person", 90, 0), sight("person", 60, 2), sight("person", 60, 8),
         sight("vehicle", 90, 2)}

ZoneA == {2, 3, 4} \X {0}
AllZones == {ZoneA}

det(id, ts, conf, x) == [id |-> id, ts |-> ts, cls |-> "person", conf |-> conf, obb |-> box(x)]

(* Ids chosen by the service and by the sender, an id two batches share, a   *)
(* batch that has one id twice and one that the schema refuses.              *)
Sent ==
  {[key |-> 1, detections |-> <<det(NoId, 0, 90, 0), det(NoId, 3, 60, 2)>>],
   [key |-> 2, detections |-> <<det(1, 3, 60, 2)>>],
   [key |-> 3, detections |-> <<det(1, 3, 60, 2), det(2, 5, 30, 8)>>],
   [key |-> 4, detections |-> <<det(3, 5, 30, 8), det(3, 5, 30, 8)>>],
   [key |-> 5, detections |-> <<det(4, 5, 101, 8)>>]}

Asked ==
  [from : {NoId, 3}, to : {NoId, 3}, cls : {NoId, "person", "vehicle"},
   minConf : {NoId, 60}, zone : {NoId, ZoneA}]
=============================================================================
