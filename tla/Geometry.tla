------------------------------ MODULE Geometry ------------------------------
(***************************************************************************)
(* Plane geometry of mission planning: geofences/geometry.ts and           *)
(* geofences/geofence-validation.ts, on whole-number coordinates.  A point *)
(* is <<lon, lat>>; a ring is the sequence of its points, the first one    *)
(* repeated at the end.  The last section is PostGIS, which decides in     *)
(* production: it is defined by separating axes, another way altogether.   *)
(***************************************************************************)
EXTENDS Integers, Sequences, FiniteSets, FiniteSetsExt

orientation(a, b, c) ==
  (b[1] - a[1]) * (c[2] - a[2]) - (b[2] - a[2]) * (c[1] - a[1])

sign(n) == CASE n > 0 -> 1 [] n < 0 -> -1 [] OTHER -> 0

side(a, b, c) == sign(orientation(a, b, c))

between(m, n) == Min({m, n})..Max({m, n})

withinBoundingBox(a, b, p) == p[1] \in between(a[1], b[1]) /\ p[2] \in between(a[2], b[2])

(* Mutant: touching does not count. *)
segmentsCross(p1, p2, p3, p4) ==
  side(p3, p4, p1) * side(p3, p4, p2) < 0 /\ side(p1, p2, p3) * side(p1, p2, p4) < 0

segmentsIntersect(p1, p2, p3, p4) ==
  \/ side(p3, p4, p1) # side(p3, p4, p2) /\ side(p1, p2, p3) # side(p1, p2, p4)
  \/ side(p3, p4, p1) = 0 /\ withinBoundingBox(p3, p4, p1)
  \/ side(p3, p4, p2) = 0 /\ withinBoundingBox(p3, p4, p2)
  \/ side(p1, p2, p3) = 0 /\ withinBoundingBox(p1, p2, p3)
  \/ side(p1, p2, p4) = 0 /\ withinBoundingBox(p1, p2, p4)

(* The even-odd rule: an odd number of edges lies to the right of the point. *)
pointInPolygon(p, ring) ==
  LET n == Len(ring)
      previous(i) == IF i = 1 THEN ring[n] ELSE ring[i - 1]
      right(v, u) ==   \* x < ((xj - xi) * (y - yi)) / (yj - yi) + xi, without the division
        LET dy == u[2] - v[2]
        IN  (p[1] - v[1]) * dy * sign(dy) < (u[1] - v[1]) * (p[2] - v[2]) * sign(dy)
      crossed == {i \in 1..n : LET v == ring[i] u == previous(i)
                               IN  (v[2] > p[2]) # (u[2] > p[2]) /\ right(v, u)}
  IN  Cardinality(crossed) % 2 = 1

segmentIntersectsPolygon(s, ring) ==
  \E i \in 1..Len(ring) - 1 : segmentsIntersect(s[1], s[2], ring[i], ring[i + 1])

(* Algorithm 1, for one segment and one zone. *)
touchesOrEnters(s, ring) ==
  \/ segmentIntersectsPolygon(s, ring)
  \/ pointInPolygon(s[1], ring) \/ pointInPolygon(s[2], ring)

-----------------------------------------------------------------------------
pointStrictlyOnSegment(p, a, b) ==
  /\ orientation(a, b, p) = 0
  /\ withinBoundingBox(a, b, p)
  /\ \/ p[1] \notin {a[1], b[1]} /\ a[1] # b[1]
     \/ p[2] \notin {a[2], b[2]} /\ a[2] # b[2]

(* Edges [a1, a2] and [b1, b2] that share the end point s. *)
collinearOverlapBeyondPoint(a1, a2, b1, b2, s) ==
  LET otherA == IF a1 = s THEN a2 ELSE a1
      otherB == IF b1 = s THEN b2 ELSE b1
  IN  \/ otherA = otherB
      \/ pointStrictlyOnSegment(otherA, b1, b2)
      \/ pointStrictlyOnSegment(otherB, a1, a2)

isSelfIntersecting(ring) ==
  LET n == Len(ring) - 1
      a(k) == ring[k]
      b(k) == ring[(k % n) + 1]
      adjacent(i, j) == j = i + 1 \/ (i = 1 /\ j = n)
      shared(i, j) == {a(i), b(i)} \cap {a(j), b(j)}
  IN  n >= 3 /\ \E i, j \in 1..n :
        /\ i < j /\ segmentsIntersect(a(i), b(i), a(j), b(j))
        /\ \/ ~adjacent(i, j)
           \/ shared(i, j) = {}
           \/ collinearOverlapBeyondPoint(a(i), b(i), a(j), b(j),
                CHOOSE s \in shared(i, j) : s = a(i) \/ a(i) \notin shared(i, j))

(* validateGeofencePolygon reports no error. *)
validRing(ring) ==
  /\ Len(ring) >= 4
  /\ \A i \in 1..Len(ring) : ring[i] \in (-180..180) \X (-90..90)
  /\ ring[1] = ring[Len(ring)]
  /\ ~isSelfIntersecting(ring)

-----------------------------------------------------------------------------
(* ST_Intersects: two convex shapes, given by their corners in order, are    *)
(* apart when some line parallel or perpendicular to an edge separates them. *)
Separated(P, Q) ==
  LET edges(S) == {<<S[i][1] - S[(i % Len(S)) + 1][1], S[i][2] - S[(i % Len(S)) + 1][2]>> :
                     i \in 1..Len(S)}
      dirs == edges(P) \cup edges(Q)
      axes == dirs \cup {<<-d[2], d[1]>> : d \in dirs}
      on(S, d) == {S[i][1] * d[1] + S[i][2] * d[2] : i \in 1..Len(S)}
  IN  \E d \in axes : Max(on(P, d)) < Min(on(Q, d)) \/ Max(on(Q, d)) < Min(on(P, d))

(* A zone is its ring and the convex parts it is made of. *)
ST_Intersects(zone, s) == \E part \in zone.parts : ~Separated(part, s)

(* No edge of a ring is a point; edges in a row meet in the one corner they  *)
(* have in common, and no others meet.                                       *)
Simple(ring) ==
  LET n == Len(ring) - 1
      ends(k) == {ring[k], ring[k + 1]}
      edge(k) == <<ring[k], ring[k + 1]>>
      inARow(i, j) == j = (i % n) + 1 \/ i = (j % n) + 1
      on(p, s) == ~Separated(<<p>>, s)
  IN  /\ \A i \in 1..n : ring[i] # ring[i + 1]
      /\ \A i, j \in 1..n : i # j =>
           IF inARow(i, j)
           THEN /\ \E p \in ends(i) : ends(i) \cap ends(j) = {p}
                /\ \A p \in ends(i) \ ends(j) : ~on(p, edge(j))
           ELSE Separated(edge(i), edge(j))
=============================================================================
