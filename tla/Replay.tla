------------------------------- MODULE Replay -------------------------------
(***************************************************************************)
(* The detection replay page: components/detection-replay.tsx over         *)
(* lib/detection-replay-state.ts.  Of Vision AI only the query: it answers *)
(* with the stored detections in range.  The scrub handle stands           *)
(* at one of Steps + 1 positions; the instant it selects is kept Steps     *)
(* times too large, so that it stays a whole number.  Boxes are turned by  *)
(* quarter turns and kept twice too large, for the same reason.            *)
(***************************************************************************)
EXTENDS Pages

CONSTANTS
  Stored,  \* Vision AI's detections: [id, drone, frameTs, obb]
  Inputs,  \* time stamps an analyst may enter
  Blank,   \* an input left empty, or not valid
  Steps,   \* SCRUB_STEPS
  Half     \* DEFAULT_WINDOW_SECONDS

ASSUME ReplayAssumption ==
  /\ Blank \notin Inputs /\ Inputs \subseteq Int /\ Steps \in Nat \ {0} /\ Half \in Nat
  /\ \A d \in Stored :
       /\ d.frameTs \in Int
       /\ d.obb \in [cx : Int, cy : Int, w : Int, h : Int, angle : 0..3]

VARIABLES
  form,        \* the inputs: [from, to, drone]
  query,       \* the query in flight, or NoQuery: loading
  detections,  \* the detections loaded
  asked,       \* history: the query that loaded them
  scrub,       \* the position of the handle, 0..Steps
  failed       \* an error is displayed

replayVars == <<form, query, detections, asked, scrub, failed>>

replay   == "replay"
NoQuery  == [from |-> Blank, to |-> Blank, drone |-> Blank]
DroneIds == {d.drone : d \in Stored}
loading  == query # NoQuery

-----------------------------------------------------------------------------
(* lib/detection-replay-state.ts *)

buildReplayQuery(f) == [f EXCEPT !.from = Min({f.from, f.to}), !.to = Max({f.from, f.to})]

(* GET /detections of the Vision AI service: it knows of no drone and leaves *)
(* that parameter out of account.                                            *)
matches(d, q) == d.frameTs \in q.from..q.to

computeTimelineBounds(ds) ==
  [from |-> Min({d.frameTs : d \in ds}), to |-> Max({d.frameTs : d \in ds})]

(* The instant of a handle position, times Steps. *)
scrubFractionToTime(bounds, n) == bounds.from * Steps + n * (bounds.to - bounds.from)

timeToScrubFraction(bounds, t) ==
  IF bounds.to = bounds.from THEN 0 ELSE (t - bounds.from * Steps) \div (bounds.to - bounds.from)

selectDetectionsAt(ds, t) ==
  {d \in ds : d.frameTs * Steps - t \in -Half * Steps..Half * Steps}

(* Cosine and sine of a number of quarter turns. *)
quarter(n) == <<<<1, 0>>, <<0, 1>>, <<-1, 0>>, <<0, -1>>>>[n + 1]

(* The corners of [cx, cy, w, h, angle], in frame coordinates times two.     *)
obbCornersInFrame(obb) ==
  LET turn == quarter(obb.angle)
      local == <<<<-obb.w, -obb.h>>, <<obb.w, -obb.h>>, <<obb.w, obb.h>>, <<-obb.w, obb.h>>>>
  IN  [i \in 1..4 |-> <<2 * obb.cx + local[i][1] * turn[1] - local[i][2] * turn[2],
                        2 * obb.cy + local[i][1] * turn[2] + local[i][2] * turn[1]>>]

(* Frame columns run west to east and rows north to south: a footprint whose *)
(* north-west corner is the origin and whose scale is that of the frame.     *)
projectFramePoint(p) == [lat |-> -p[2], lon |-> p[1]]

obbToMapOverlay(d) ==
  [id |-> d.id, frameTs |-> d.frameTs,
   center  |-> projectFramePoint(<<2 * d.obb.cx, 2 * d.obb.cy>>),
   corners |-> [i \in 1..4 |-> projectFramePoint(obbCornersInFrame(d.obb)[i])]]

currentTime == scrubFractionToTime(computeTimelineBounds(detections), scrub)

overlays ==
  IF detections = {} THEN {}
  ELSE {obbToMapOverlay(d) : d \in selectDetectionsAt(detections, currentTime)}

-----------------------------------------------------------------------------
ReplayInit ==
  /\ form = NoQuery /\ query = NoQuery /\ detections = {} /\ asked = NoQuery
  /\ scrub = 0 /\ failed = FALSE

ReplayLoad ==
  /\ form' = NoQuery /\ query' = NoQuery /\ detections' = {} /\ asked' = NoQuery
  /\ scrub' = 0 /\ failed' = FALSE

Enter(f) ==
  /\ page = replay /\ form' = f
  /\ UNCHANGED <<query, detections, asked, scrub, failed>>

(* loadRange: its button is disabled while a query is in flight. *)
LoadRange ==
  /\ page = replay /\ ~loading
  /\ IF Blank \in {form.from, form.to}
     THEN failed' = TRUE /\ UNCHANGED query
     ELSE failed' = FALSE /\ query' = buildReplayQuery(form)
  /\ UNCHANGED <<form, detections, asked, scrub>>

(* Mutant: the detections of a failed query's predecessor stay. *)
RangeFailsKeeping ==
  /\ loading /\ query' = NoQuery /\ failed' = TRUE /\ asked' = NoQuery
  /\ UNCHANGED <<form, detections, scrub>>

RangeFails ==
  /\ loading /\ query' = NoQuery /\ failed' = TRUE /\ asked' = NoQuery
  /\ detections' = {}
  /\ UNCHANGED <<form, scrub>>

RangeLoaded ==
  /\ loading /\ query' = NoQuery /\ asked' = query
  /\ detections' = {d \in Stored : matches(d, query)}
  /\ scrub' = 0
  /\ UNCHANGED <<form, failed>>

(* The handle is disabled while there is no timeline. *)
Scrub(n) ==
  /\ detections # {} /\ scrub' = n
  /\ UNCHANGED <<form, query, detections, asked, failed>>

ReplayNext ==
  \/ \E from, to \in Inputs \cup {Blank}, drone \in DroneIds \cup {Blank} :
       Enter([from |-> from, to |-> to, drone |-> drone])
  \/ LoadRange \/ RangeFails \/ RangeLoaded
  \/ \E n \in 0..Steps : Scrub(n)

-----------------------------------------------------------------------------
ReplayTypeOK ==
  /\ detections \subseteq Stored /\ scrub \in 0..Steps /\ failed \in BOOLEAN
  /\ query = NoQuery \/ query.from <= query.to

(* The map never shows a detection outside the range that was asked for,     *)
(* nor any of a query that failed; and when the handle's step is no longer   *)
(* than the window, no loaded detection falls between two positions: every   *)
(* one of them can be scrubbed to.  A turned box keeps its centre.           *)
ReplayShowsRange ==
  LET bounds == computeTimelineBounds(detections)
      shown(n) == selectDetectionsAt(detections, scrubFractionToTime(bounds, n))
  IN  /\ ReplayTypeOK
      /\ \A d \in detections : asked # NoQuery /\ matches(d, asked)
      /\ failed => ~loading
      /\ detections # {} =>
           /\ currentTime \in bounds.from * Steps..bounds.to * Steps
           /\ timeToScrubFraction(bounds, currentTime) \in {0, scrub}
           /\ (bounds.to - bounds.from <= 2 * Half * Steps) =>
                \A d \in detections : \E n \in 0..Steps : d \in shown(n)
           /\ \A o \in overlays : \A i \in {1, 2} :
                /\ o.corners[i].lat + o.corners[i + 2].lat = 2 * o.center.lat
                /\ o.corners[i].lon + o.corners[i + 2].lon = 2 * o.center.lon
=============================================================================
