------------------------------ MODULE History ------------------------------
(***************************************************************************)
(* query/history.ts: the downsampled history of a drone, as app.ts serves  *)
(* it.  Times are whole ticks, Second of them to the second; the widths of *)
(* the aggregates are constants so that few samples reach all of them.     *)
(* The relations behind the query are the hypertable and its continuous    *)
(* aggregates, taken to be refreshed (a policy of TimescaleDB).            *)
(***************************************************************************)
EXTENDS Integers, Sequences, FiniteSets, FiniteSetsExt, Selections

CONSTANTS
  Second,                                 \* ticks of a second
  ONE_MINUTE_SECONDS, ONE_HOUR_SECONDS,   \* where an aggregate is preferred
  DEFAULT_BUCKETS, MAX_BUCKETS,
  Blank                                   \* missing, empty or unparseable

ASSUME HistoryAssumption ==
  /\ Second \in Nat \ {0}
  /\ ONE_MINUTE_SECONDS \in Nat \ {0} /\ ONE_HOUR_SECONDS \in Nat \ {0}
  /\ DEFAULT_BUCKETS \in Nat \ {0} /\ MAX_BUCKETS \in Nat \ {0}

ceilDiv(a, b) == (a + b - 1) \div b

(* resolveBuckets: a number below one is no positive integer. *)
resolveBuckets(raw) ==
  IF raw = Blank THEN DEFAULT_BUCKETS ELSE Min({raw, MAX_BUCKETS})

(* validateHistoryQuery does not throw. *)
validQuery(q) ==
  /\ q.droneId # Blank
  /\ q.from # Blank /\ q.to # Blank
  /\ q.from <= q.to
  /\ q.buckets # Blank => q.buckets >= 1

(* Mutant: the width is rounded down. *)
bucketSecondsFloor(q) ==
  Max({1, (q.to - q.from) \div (Second * resolveBuckets(q.buckets))})

bucketSeconds(q) ==
  Max({1, ceilDiv(q.to - q.from, Second * resolveBuckets(q.buckets))})

source(q) ==
  CASE bucketSeconds(q) >= ONE_HOUR_SECONDS -> "1h"
    [] bucketSeconds(q) >= ONE_MINUTE_SECONDS /\ bucketSeconds(q) < ONE_HOUR_SECONDS -> "1m"
    [] OTHER -> "raw"

(* The width of a row of the relation, in ticks; 0 for single samples. *)
granule(q) ==
  CASE source(q) = "1h"  -> ONE_HOUR_SECONDS * Second
    [] source(q) = "1m"  -> ONE_MINUTE_SECONDS * Second
    [] source(q) = "raw" -> 0

(* The time column of the row a sample at ts belongs to. *)
rowTime(q, ts) == IF granule(q) = 0 THEN ts ELSE ts - (ts % granule(q))

(* time_bucket with its origin at the start of the range. *)
bucketOf(q, ts) ==
  LET width == bucketSeconds(q) * Second
  IN  q.from + ((rowTime(q, ts) - q.from) \div width) * width

(* The SELECT: rows of the drone whose time column is in the range, grouped  *)
(* by bucket, ordered, and cut off after the requested number.               *)
queryHistory(samples, q) ==
  LET selected == {s \in samples : /\ s.drone = q.droneId
                                   /\ rowTime(q, s.frame.ts) \in q.from..q.to}
      members(b) == {s \in selected : bucketOf(q, s.frame.ts) = b}
      altitudes(b) == {s.frame.altitude : s \in members(b)}
      begins == {bucketOf(q, s.frame.ts) : s \in selected}
      buckets == inOrder(begins, {p \in begins \X begins : p[1] < p[2]})
      limit == Min({Len(buckets), resolveBuckets(q.buckets)})
  IN  [i \in 1..limit |->
         [ts |-> buckets[i], sampleCount |-> Cardinality(members(buckets[i])),
          minAltitude |-> Min(altitudes(buckets[i])),
          maxAltitude |-> Max(altitudes(buckets[i]))]]

(* GET /telemetry/:droneId/history *)
handleHistory(samples, q) ==
  IF validQuery(q) THEN [status |-> 200, points |-> queryHistory(samples, q)]
  ELSE [status |-> 400, points |-> <<>>]

-----------------------------------------------------------------------------
(* What a series promises of the samples it was made from: buckets ascend,   *)
(* lie in the range and are no more than asked for; every sample that is at  *)
(* least a granule away from the start and before the end is counted once,   *)
(* none further than a granule outside is; and no low or high point of the   *)
(* samples counted for certain is smoothed away.                             *)
Conserves(samples, q, points) ==
  LET own  == {s \in samples : s.drone = q.droneId}
      sure == {s \in own : q.from + granule(q) <= s.frame.ts /\ s.frame.ts < q.to}
      near == {s \in own : q.from <= s.frame.ts /\ s.frame.ts <= q.to + granule(q)}
      counted[n \in 0..Len(points)] == IF n = 0 THEN 0 ELSE points[n].sampleCount + counted[n - 1]
      total == counted[Len(points)]
  IN  /\ Len(points) <= resolveBuckets(q.buckets)
      /\ \A i \in 1..Len(points) :
           /\ q.from <= points[i].ts /\ points[i].ts <= q.to
           /\ i > 1 => points[i - 1].ts < points[i].ts
      /\ Cardinality(sure) <= total /\ total <= Cardinality(near)
      /\ \A s \in sure : \E i \in 1..Len(points) :
           points[i].minAltitude <= s.frame.altitude /\ s.frame.altitude <= points[i].maxAltitude
=============================================================================
