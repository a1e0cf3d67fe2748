---------------------------- MODULE MCMissions -----------------------------
(* Constant values for the runs of Missions. *)
EXTENDS Missions, TLC

wp(seq, lat, altitude) ==
  [seq |-> seq, lat |-> lat, lon |-> 2, altitude |-> altitude, speed |-> 1,
   gimbalAngle |-> 0, loiterTime |-> 0]

Interchangeable == Permutations(Calls)

(* A plan out of order, one of a single point, one with a repeated number    *)
(* and one above the ceiling.                                                *)
SomePlans ==
  {<<wp(1, 3, 2), wp(0, 0, 1)>>, <<wp(0, 0, 2)>>,
   <<wp(0, 0, 1), wp(0, 3, 1)>>, <<wp(0, 0, 3)>>}

(* One template like the built-in point inspection; parameters that are      *)
(* right, out of range, no number, missing, and a placeholder themselves.    *)
PointInspection ==
  [title |-> "n1", name |-> "poi", status |-> "draft", requiredParams |-> {"poi", "altitude"},
   waypoints |-> <<[seq |-> literal(0), lat |-> literal(0), lon |-> literal(2),
                    altitude |-> placeholder("altitude"), speed |-> literal(1),
                    gimbalAngle |-> literal(0), loiterTime |-> literal(0)]>>]

Templated == {PointInspection}

number(n) == [text |-> "", number |-> n]
text(t)   == [text |-> t, number |-> 0]

SomeParams ==
  [poi : {text(BadText), text(Dangling), text(NoValue)},
   altitude : {number(2), number(3), text(BadText), text(NoValue)}]

zone(ring, parts) == [ring |-> ring, parts |-> parts]

(* A concave zone that cuts the route, and rings to be refused: a bow tie, a *)
(* ring that is not closed, one that folds back onto itself, one that visits *)
(* a corner twice and one with an edge that is a point.                      *)
Notch == zone(<<<<1, 1>>, <<4, 1>>, <<4, 4>>, <<3, 2>>, <<1, 2>>, <<1, 1>>>>,
              {<<<<1, 1>>, <<4, 1>>, <<3, 2>>, <<1, 2>>>>, <<<<4, 1>>, <<4, 4>>, <<3, 2>>>>})
BowTie == zone(<<<<0, 0>>, <<2, 2>>, <<2, 0>>, <<0, 2>>, <<0, 0>>>>, {})
Open   == zone(<<<<0, 0>>, <<2, 0>>, <<2, 2>>, <<0, 2>>>>, {})
Flat   == zone(<<<<0, 0>>, <<4, 0>>, <<2, 0>>, <<0, 0>>>>, {})
Twice  == zone(<<<<0, 0>>, <<2, 0>>, <<1, 1>>, <<2, 2>>, <<0, 2>>, <<1, 1>>, <<0, 0>>>>, {})
Still  == zone(<<<<0, 0>>, <<2, 0>>, <<2, 0>>, <<2, 2>>, <<0, 0>>>>, {})

SomeZones == {Notch, BowTie, Open, Flat, Twice, Still}

Points == (0..4) \X (0..4)
=============================================================================
