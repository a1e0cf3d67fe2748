------------------------------- MODULE Tracks -------------------------------
(***************************************************************************)
(* Track stitching (app/services/tracking.py) and scene events             *)
(* (app/services/scene.py) of the Vision AI service.  Nothing in src/      *)
(* calls them but tests: the driver assumed here does with them what their *)
(* comments say, frame after frame.  It stitches the frame's detections,   *)
(* adds their centroids to the histories of their tracks, and classifies   *)
(* and forwards the scene events of the active tracks.  Boxes are upright, *)
(* with even sides, so that their overlaps are whole numbers.              *)
(***************************************************************************)
EXTENDS Integers, Sequences, FiniteSets, SequencesExt, FiniteSetsExt, Selections

CONSTANTS
  Sightings,          \* what a camera may see: [cls, conf, obb]
  MaxPerFrame,        \* bound: detections of a frame
  MaxFrames,          \* bound: frames
  Intervals,          \* dt: the time between two frames
  Gate,               \* IOU_GATE, in percent
  MaxAge,             \* TRACK_MAX_AGE
  Zones,              \* the zones: sets of points
  MoveEps,            \* MOVE_EPS
  StoppedSeconds,     \* VEHICLE_STOPPED_SECONDS
  GroupThreshold      \* GROUP_GATHERING_THRESHOLD

(* The frames of a camera follow one another in time. *)
ASSUME TracksAssumption ==
  /\ Sightings \subseteq [cls : STRING, conf : Int,
                         obb : [cx : Int, cy : Int, w : Int, h : Int]]
  /\ MaxPerFrame \in 0..9
  /\ Intervals \subseteq Nat \ {0} /\ IsFiniteSet(Intervals)
  /\ MaxAge \in Nat /\ StoppedSeconds \in Nat /\ GroupThreshold \in Nat

VARIABLES
  frame,     \* frames processed
  now,       \* time stamp of the last one
  tracks,    \* the active tracks, in the order of the stitcher's dictionary
  history,   \* centroids seen: [track, cls, frame, ts, x, y]
  events,    \* the scene events of the last frame
  delivered  \* those the alert service took

trackVars == <<frame, now, tracks, history, events, delivered>>

-----------------------------------------------------------------------------
(* app/services/tracking.py *)

predict(track, dt) ==
  [track.obb EXCEPT !.cx = @ + track.vx * dt, !.cy = @ + track.vy * dt]

(* The common length of two intervals given by centre and length. *)
common(c1, l1, c2, l2) ==
  Max({0, Min({2 * c1 + l1, 2 * c2 + l2}) - Max({2 * c1 - l1, 2 * c2 - l2})}) \div 2

(* Intersection over union, as the pair of both. *)
obb_iou(a, b) ==
  LET inter == common(a.cx, a.w, b.cx, b.w) * common(a.cy, a.h, b.cy, b.h)
  IN  [inter |-> inter, union |-> a.w * a.h + b.w * b.h - inter]

passesGate(iou) == iou.inter > 0 /\ iou.inter * 100 >= Gate * iou.union
greater(i, j) == i.inter * j.union > j.inter * i.union

(* Mutant: a track of any class may be matched. *)
candidatesAnyClass(active, det, dt, matched) ==
  {i \in DOMAIN active : /\ active[i].id \notin matched
                         /\ passesGate(obb_iou(det.obb, predict(active[i], dt)))}

(* The unmatched active tracks of the class whose prediction overlaps enough. *)
candidates(active, det, dt, matched) ==
  {i \in DOMAIN active : /\ active[i].id \notin matched
                         /\ active[i].cls = det.cls
                         /\ passesGate(obb_iou(det.obb, predict(active[i], dt)))}

(* The scan of the active tracks: the first candidate is taken, a later one   *)
(* only for a greater overlap.  0 when there is none.                        *)
best(active, det, dt, matched) ==
  LET c == candidates(active, det, dt, matched)
      iou(i) == obb_iou(det.obb, predict(active[i], dt))
      scan[i \in 0..Len(active)] ==
        IF i = 0 THEN 0
        ELSE IF i \in c /\ (scan[i - 1] = 0 \/ greater(iou(i), iou(scan[i - 1])))
             THEN i ELSE scan[i - 1]
  IN  scan[Len(active)]

observed(track, det, dt) ==
  [track EXCEPT !.obb = det.obb, !.last = det.ts,
     !.vx = IF dt > 0 THEN (det.obb.cx - track.obb.cx) \div dt ELSE @,
     !.vy = IF dt > 0 THEN (det.obb.cy - track.obb.cy) \div dt ELSE @]

newTrack(det) ==
  [id |-> det.id, cls |-> det.cls, obb |-> det.obb, last |-> det.ts, vx |-> 0, vy |-> 0]

(* One detection's turn: [assigned, matched, assignment] so far.             *)
associate(active, dt, acc, det) ==
  LET i == best(active, det, dt, acc.matched)
  IN  IF i # 0
      THEN [assigned   |-> [acc.assigned EXCEPT ![i] = observed(@, det, dt)],
            matched    |-> acc.matched \cup {active[i].id},
            assignment |-> acc.assignment \cup {<<det.id, active[i].id>>}]
      ELSE [acc EXCEPT !.assigned = Append(@, newTrack(det)),
                       !.assignment = @ \cup {<<det.id, det.id>>}]

detectionOrder(a, b) == a.conf > b.conf \/ (a.conf = b.conf /\ a.id < b.id)

(* Step 3: the tracks not unseen for longer than MaxAge. *)
retire(assigned, at) == kept(assigned, {i \in DOMAIN assigned : at - assigned[i].last <= MaxAge})

stitch_tracks(detections, active, dt, at) ==
  LET order == inOrder(detections, {p \in detections \X detections : detectionOrder(p[1], p[2])})
      after[n \in 0..Len(order)] ==
        IF n = 0 THEN [assigned |-> active, matched |-> {}, assignment |-> {}]
        ELSE associate(active, dt, after[n - 1], order[n])
      done == after[Len(order)]
  IN  [active |-> retire(done.assigned, at), assignment |-> done.assignment]

-----------------------------------------------------------------------------
(* app/services/scene.py *)

pointOrder(p, q) ==
  \/ p.ts < q.ts
  \/ p.ts = q.ts /\ (p.x < q.x \/ (p.x = q.x /\ p.y < q.y))

pointsOf(seen, t) ==
  LET points == {[ts |-> p.ts, x |-> p.x, y |-> p.y] : p \in {s \in seen : s.track = t}}
  IN  inOrder(points, {p \in points \X points : pointOrder(p[1], p[2])})

inside(zone, p) == <<p.x, p.y>> \in zone

sq(n) == n * n
nearby(p, q) == sq(p.x - q.x) + sq(p.y - q.y) < sq(MoveEps)

(* How long the last points have been a step shorter than MoveEps apart.     *)
trailingStationarySpan(pts) ==
  LET still(i) == \A j \in i..Len(pts) - 1 : nearby(pts[j], pts[j + 1])
  IN  Last(pts).ts - pts[Min({i \in DOMAIN pts : still(i)})].ts

(* Mutant: a person first seen inside the zone has entered it. *)
enteredFirstSeen(t, zone, pts) ==
  /\ t.cls = "person" /\ inside(zone, Last(pts))
  /\ Len(pts) >= 2 => ~inside(zone, pts[Len(pts) - 1])

entered(t, zone, pts) ==
  /\ t.cls = "person" /\ Len(pts) >= 2
  /\ inside(zone, Last(pts)) /\ ~inside(zone, pts[Len(pts) - 1])

stopped(t, zone, pts) ==
  t.cls = "vehicle" /\ inside(zone, Last(pts)) /\ trailingStationarySpan(pts) > StoppedSeconds

classify_scene_events(active, seen) ==
  LET pts == [i \in DOMAIN active |-> pointsOf(seen, active[i].id)]
      event(kind, z, is) ==
        [kind |-> kind, zone |-> z, tracks |-> {active[i].id : i \in is},
         ts |-> Max({Last(pts[i]).ts : i \in is})]
      members(z) == {i \in DOMAIN active :
                       active[i].cls = "person" /\ inside(z, Last(pts[i]))}
      eventsIn(z) ==
        {event("person_entered_zone", z, {i}) :
           i \in {i \in DOMAIN active : entered(active[i], z, pts[i])}}
        \cup {event("vehicle_stopped", z, {i}) :
                i \in {i \in DOMAIN active : stopped(active[i], z, pts[i])}}
        \cup IF Cardinality(members(z)) > GroupThreshold
             THEN {event("group_gathering", z, members(z))} ELSE {}
  IN  UNION {eventsIn(z) : z \in Zones}

-----------------------------------------------------------------------------
TracksInit ==
  /\ frame = 0 /\ now = 0 /\ tracks = <<>> /\ history = {}
  /\ events = {} /\ delivered = {}

(* The detections of a frame: sightings, each with an id of its own.         *)
detectionsOf(seen, at) ==
  {[id |-> 10 * (frame + 1) + i, ts |-> at, cls |-> seen[i].cls, conf |-> seen[i].conf,
    obb |-> seen[i].obb] : i \in DOMAIN seen}

(* One frame.  A post that fails concerns its own event only.                *)
Frame(seen, dt) ==
  LET at  == now + dt
      ds  == detectionsOf(seen, at)
      out == stitch_tracks(ds, tracks, dt, at)
      sighting(a, d) == [track |-> a[2], cls |-> d.cls, frame |-> frame + 1, ts |-> at,
                         x |-> d.obb.cx, y |-> d.obb.cy]
      new == UNION {{sighting(a, d) : a \in {a \in out.assignment : a[1] = d.id}} : d \in ds}
  IN  /\ frame < MaxFrames
      /\ frame' = frame + 1 /\ now' = at
      /\ tracks' = out.active
      /\ history' = history \cup new
      /\ events' = classify_scene_events(out.active, history')
      /\ delivered' \in SUBSET events'

TracksNext ==
  \E n \in 0..MaxPerFrame : \E seen \in [1..n -> Sightings], dt \in Intervals : Frame(seen, dt)

-----------------------------------------------------------------------------
active(t) == \E i \in DOMAIN tracks : tracks[i].id = t

(* Stitching: a track has one class and at most one detection of a frame;    *)
(* none has been unseen for longer than MaxAge, and none was ever continued  *)
(* after a longer silence than MaxAge and the interval of one frame.         *)
TracksSound ==
  /\ \A p, q \in history : p.track = q.track =>
       /\ p.cls = q.cls
       /\ p.frame = q.frame => p = q
       /\ p.frame < q.frame =>
            \/ q.ts - p.ts <= MaxAge + Max(Intervals)
            \/ \E h \in history : h.track = p.track /\ h.frame > p.frame /\ h.frame < q.frame
  /\ \A i \in DOMAIN tracks :
       /\ now - tracks[i].last <= MaxAge
       /\ \A j \in DOMAIN tracks : tracks[i].id = tracks[j].id => i = j
  /\ \A p \in history : (now - p.ts <= MaxAge) => active(p.track)

(* Every scene event rests on sightings: a gathering on more than            *)
(* GroupThreshold tracks of persons, each seen inside the zone at most       *)
(* MaxAge ago; a stop on sightings of one vehicle, the first more than       *)
(* StoppedSeconds before the last, near to one another and with no gap longer *)
(* than a track survives;                                                    *)
(* an entry on a sighting outside and a later one inside.  And a zone with   *)
(* that many persons seen in this very frame has its gathering.              *)
EventsHaveEvidence ==
  LET seenIn(t, z, since) ==
        \E p \in history : p.track = t /\ inside(z, p) /\ p.ts >= since
  IN  /\ delivered \subseteq events
      /\ \A e \in events :
           /\ \A t \in e.tracks : active(t) /\ seenIn(t, e.zone, now - MaxAge)
           /\ e.kind = "group_gathering" => Cardinality(e.tracks) > GroupThreshold
           /\ e.kind = "vehicle_stopped" =>
                \E p, q \in {h \in history : h.track \in e.tracks} :
                  /\ q.ts - p.ts > StoppedSeconds
                  /\ \A h \in history : h.track = p.track /\ h.ts >= p.ts /\ h.ts < q.ts =>
                       \E k \in history : /\ k.track = p.track /\ k.ts > h.ts
                                          /\ k.ts - h.ts <= MaxAge + Max(Intervals)
                                          /\ nearby(h, k)
           /\ e.kind = "person_entered_zone" =>
                \E p, q \in {h \in history : h.track \in e.tracks} :
                  ~inside(e.zone, p) /\ inside(e.zone, q) /\ p.frame < q.frame
      /\ \A z \in Zones :
           Cardinality({p.track : p \in {h \in history : h.frame = frame /\ h.cls = "person"
                                                          /\ inside(z, h)}}) > GroupThreshold
             => \E e \in events : e.kind = "group_gathering" /\ e.zone = z
=============================================================================
