------------------------------- MODULE Vision -------------------------------
(***************************************************************************)
(* The Vision AI service: the detection store and the stitcher with its    *)
(* scene events.  No code connects the two, so their steps are not         *)
(* interleaved: a behaviour is one of the store or one of the stitcher.    *)
(***************************************************************************)
EXTENDS Detections, Tracks

vars == <<storeVars, trackVars>>

Init == StoreInit /\ TracksInit

Next ==
  \/ frame = 0 /\ StoreNext /\ UNCHANGED trackVars
  \/ requests = <<>> /\ TracksNext /\ UNCHANGED storeVars

Spec == Init /\ [][Next]_vars
=============================================================================
