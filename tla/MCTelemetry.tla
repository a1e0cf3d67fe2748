---------------------------- MODULE MCTelemetry -----------------------------
(* Constant values for the runs of Telemetry. *)
EXTENDS Telemetry, TLC

frame(ts, alt, pct, rc, flags) ==
  [ts |-> ts, altitude |-> alt, remainingPct |-> pct, rcSignalStrength |-> rc,
   healthy |-> flags = 0, flags |-> flags]

(* Two readings with the same timestamp, a later one with a GPS fault after  *)
(* a fast descent, and one whose signal strength is out of bounds.           *)
FewFrames ==
  {frame(1, 30, 100, 100, 0), frame(1, 31, 100, 100, 1),
   frame(2, 0, 99, 0, 1), frame(3, 0, 0, 101, 0)}

(* The readings as sent, one of them a microsecond later, and one damaged in *)
(* every way parseFrame can tell.                                            *)
sent == encode(frame(2, 0, 99, 0, 1))

FewWires ==
  {encode(f) : f \in FewFrames} \cup
  {[sent EXCEPT !.stx = "other"], [sent EXCEPT !.bytes = "short"],
   [sent EXCEPT !.signed = TRUE], [sent EXCEPT !.msgid = 0],
   [sent EXCEPT !.crc = "mismatch", !.data.altitude = 1],
   [sent EXCEPT !.arrayId = 0], [sent EXCEPT !.timeUsec = @ + 1], [sent EXCEPT !.data.altitude = NotFinite]}

one == CHOOSE d \in Drones : TRUE

(* Rows around the readings above, and one of another drone among them. *)
FewSeeded ==
  {[drone |-> one, frame |-> frame(0, 5, 100, 100, 0)],
   [drone |-> one, frame |-> frame(4, 7, 100, 100, 0)],
   [drone |-> one, frame |-> frame(7, 3, 100, 100, 0)]}
  \cup [drone : Drones \ {one}, frame : {frame(5, 0, 100, 100, 0)}]

(* Requests that reach every relation, with ranges that are and are not a    *)
(* multiple of the width and starts that are and are not on a granule.       *)
FewQueries ==
  [droneId : {one}, from : {0, 1}, to : {2, 5, 7}, buckets : {1, 2, 9}]
  \cup [droneId : {one}, from : {0}, to : {6}, buckets : {Blank}]
  \cup [droneId : {one, Blank}, from : {3, Blank}, to : {1, Blank}, buckets : {1}]
  \cup [droneId : {one}, from : {1}, to : {2}, buckets : {0}]
=============================================================================
