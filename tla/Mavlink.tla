------------------------------ MODULE Mavlink -------------------------------
(***************************************************************************)
(* The MAVLink export of a plan (export/mavlink.ts): the items of the      *)
(* mission, their binary form and its parser.  Waypoints are in whole      *)
(* degrees and metres, so that the float32 fields are exact.  A buffer is  *)
(* the sequence of the values written, each with its width, in the order   *)
(* of their offsets: reading takes the values at the same places.          *)
(***************************************************************************)
EXTENDS Integers, Sequences, Functions

MAV_CMD_NAV_WAYPOINT == 16
MAV_CMD_NAV_TAKEOFF  == 22
GEO_SCALE == 10000000
MAGIC == 4150
FORMAT_VERSION == 1

UINT16_MAX == 65535

(* sort((a, b) => a.seq - b.seq), which is stable.                           *)
bySeq(plan) ==
  LET places == 1..Len(plan)
      inOrder(p) ==
        \A i, j \in places : i < j =>
          \/ plan[p[i]].seq < plan[p[j]].seq
          \/ plan[p[i]].seq = plan[p[j]].seq /\ p[i] < p[j]
      order == CHOOSE p \in Bijection(places, places) : inOrder(p)
  IN  [i \in places |-> plan[order[i]]]

(* Math.round(deg * 1e7), of whole degrees.                                  *)
encodeDegrees(deg) == deg * GEO_SCALE

item(seq, command, current, wp) ==
  [seq |-> seq, frame |-> 6, command |-> command, current |-> current,
   autocontinue |-> 1, param2 |-> 0, param3 |-> 0, targetSystem |-> 1,
   targetComponent |-> 1, missionType |-> 0,
   param1 |-> IF command = MAV_CMD_NAV_WAYPOINT THEN wp.loiterTime ELSE 0,
   param4 |-> IF command = MAV_CMD_NAV_WAYPOINT THEN wp.gimbalAngle ELSE 0,
   x |-> encodeDegrees(wp.lat), y |-> encodeDegrees(wp.lon), z |-> wp.altitude]

makeHomeItem(wp) == item(0, MAV_CMD_NAV_TAKEOFF, 1, wp)
makeWaypointItem(wp, seq) == item(seq, MAV_CMD_NAV_WAYPOINT, 0, wp)

(* The waypoints of a plan in the order of their numbers, after a takeoff to *)
(* the first of them.                                                        *)
buildMissionItems(plan) ==
  LET sorted == bySeq(plan)
  IN  <<makeHomeItem(sorted[1])>>
      \o [i \in DOMAIN sorted |-> makeWaypointItem(sorted[i], i)]

(* The 15 fields of an item, 38 bytes. *)
ITEM_FIELDS == 15

writeItem(m) ==
  <<m.param1, m.param2, m.param3, m.param4, m.x, m.y, m.z, m.seq, m.command,
    m.targetSystem, m.targetComponent, m.frame, m.current, m.autocontinue, m.missionType>>

(* writeUInt16LE throws on a greater count.                                  *)
encodable(items) == Len(items) <= UINT16_MAX

(* The header, then the items, each at its offset.                           *)
encodeBinary(items) ==
  LET header == <<MAGIC, FORMAT_VERSION, 0, Len(items)>>
      field(k) == writeItem(items[(k \div ITEM_FIELDS) + 1])[(k % ITEM_FIELDS) + 1]
  IN  [n \in 1..4 + Len(items) * ITEM_FIELDS |-> IF n <= 4 THEN header[n] ELSE field(n - 5)]

(* The header is right and the length is the one it declares. *)
parses(buffer) ==
  /\ Len(buffer) >= 4
  /\ buffer[1] = MAGIC /\ buffer[2] = FORMAT_VERSION
  /\ Len(buffer) = 4 + buffer[4] * ITEM_FIELDS

parseMavlink(buffer) ==
  LET at(i, n) == buffer[4 + (i - 1) * ITEM_FIELDS + n]
  IN  [i \in 1..buffer[4] |->
        [param1 |-> at(i, 1), param2 |-> at(i, 2), param3 |-> at(i, 3), param4 |-> at(i, 4),
         x |-> at(i, 5), y |-> at(i, 6), z |-> at(i, 7), seq |-> at(i, 8),
         command |-> at(i, 9), targetSystem |-> at(i, 10), targetComponent |-> at(i, 11),
         frame |-> at(i, 12), current |-> at(i, 13), autocontinue |-> at(i, 14),
         missionType |-> at(i, 15)]]
=============================================================================
