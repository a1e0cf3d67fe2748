------------------------------ MODULE Planner -------------------------------
(***************************************************************************)
(* The mission planner page: components/mission-planner.tsx over the       *)
(* reducers of lib/mission-planner-state.ts.  A position is an opaque      *)
(* point, the other flight parameters keep their defaults, messages are    *)
(* left out.  What Mission Planning makes of a transmission is left open:  *)
(* any set of conflicting segments, acceptance, or failure.                *)
(***************************************************************************)
EXTENDS Pages, Selections

CONSTANTS
  Points,        \* places on the map
  Slots,         \* requests the page may have in flight together
  MaxWaypoints,  \* bound on a route's length
  MaxGeofences,  \* bound on the geofences of a draft
  MaxEdits       \* bound on the map clicks and drags

ASSUME PlannerAssumption ==
  {MaxWaypoints, MaxGeofences, MaxEdits} \subseteq Nat \ {0}

VARIABLES
  draft,      \* MissionDraft
  drawing,    \* the ring being drawn
  conflicts,  \* segment indices reported by the last conflict check
  calls,      \* requests in flight, NoCall when the slot is free
  retryTimer, \* the route the armed timer will send, or NoTimer
  storage,    \* what local storage holds under DRAFT_STORAGE_KEY
  restored,   \* the draft the mount has read and not rendered yet, or NoDraft
  edits,      \* edits made
  work,       \* history: the route as the planner's last edit left it
  interrupted \* history: a mount was left before it rendered what it had read

plannerVars ==
  <<draft, drawing, conflicts, calls, retryTimer, storage, restored, edits, work, interrupted>>

NoCall  == [kind |-> "none", body |-> <<>>]
NoTimer == <<>>    \* a transmitted route is never empty
NoRing  == <<>>
planner == "mission-planner"

emptyDraft == [waypoints |-> <<>>, geofences |-> <<>>, transmission |-> "idle"]
NoDraft == [emptyDraft EXCEPT !.transmission = "none"]

-----------------------------------------------------------------------------
(* Waypoint-list reduction; seq and ordinal positions count from 0. *)

resequence(wps) == [i \in 1..Len(wps) |-> [wps[i] EXCEPT !.seq = i - 1]]

addWaypoint(wps, p) == Append(wps, [seq |-> Len(wps), at |-> p])

updateWaypoint(wps, n, p) ==
  [i \in 1..Len(wps) |-> IF wps[i].seq = n THEN [wps[i] EXCEPT !.at = p] ELSE wps[i]]

moveWaypoint(wps, n, p) == updateWaypoint(wps, n, p)

removeWaypoint(wps, n) == resequence(kept(wps, {i \in DOMAIN wps : wps[i].seq # n}))

reorderWaypoints(wps, from, to) ==
  IF {from, to} \subseteq 0..Len(wps) - 1 /\ from # to
  THEN resequence(InsertAt(RemoveAt(wps, from + 1), to + 1, wps[from + 1]))
  ELSE wps

(* A ring is submitted with its first point repeated last. *)
isClosedRing(ring) == Len(ring) >= 4 /\ ring[1] = ring[Len(ring)]

closeRing(vs) ==
  LET ring == IF vs[1] = vs[Len(vs)] THEN vs ELSE Append(vs, vs[1])
  IN  IF Len(vs) >= 3 /\ isClosedRing(ring) THEN ring ELSE NoRing

(* Indices of the segments drawn red: those the route still has. *)
mapConflictSegments(wps, reported) == {n \in reported : n + 1 < Len(wps)}

-----------------------------------------------------------------------------
(* Transmission state and persistence *)

(* The attempts counted only set the length of the retry's delay: left out. *)
markPending(d)   == [d EXCEPT !.transmission = "pending"]
markSubmitted(d) == [d EXCEPT !.transmission = "submitted"]
markFailed(d)    == [d EXCEPT !.transmission = "failed"]

canTransmit(d) == d.transmission \in {"idle", "failed"}

(* Mutant: a draft left pending is restored as it was. *)
loadDraftAsIs(saved) == saved

(* A draft left pending is one whose transmission was interrupted. *)
loadDraft(saved) ==
  IF saved.transmission = "pending" THEN markFailed(saved) ELSE saved

(* setDraft: the effect that follows writes every new draft to storage. *)
setDraft(d) == draft' = d /\ storage' = d

PlannerBlank ==
  /\ draft = emptyDraft /\ drawing = <<>> /\ conflicts = {}
  /\ calls = [s \in Slots |-> NoCall] /\ retryTimer = NoTimer

PlannerInit ==
  /\ PlannerBlank /\ storage = NoDraft /\ restored = NoDraft
  /\ edits = 0 /\ work = <<>> /\ interrupted = FALSE

(* Loading page p.  The effects of the planner's first commit read the saved *)
(* draft, queue it to be rendered, and write the empty draft of that commit  *)
(* over it.                                                                  *)
PlannerLoad(p) ==
  /\ IF p = planner
     THEN setDraft(emptyDraft) /\ restored' = loadDraft(storage)
     ELSE draft' = emptyDraft /\ restored' = NoDraft /\ UNCHANGED storage
  /\ drawing' = <<>> /\ conflicts' = {}
  /\ calls' = [s \in Slots |-> NoCall] /\ retryTimer' = NoTimer
  /\ interrupted' = (interrupted \/ restored # NoDraft)
  /\ UNCHANGED <<edits, work>>

(* The next render shows the draft that was read, and its effect saves it    *)
(* again.                                                                    *)
Restore ==
  /\ restored # NoDraft
  /\ setDraft(restored) /\ restored' = NoDraft
  /\ UNCHANGED <<drawing, conflicts, calls, retryTimer, edits, work, interrupted>>

-----------------------------------------------------------------------------
(* Editing: map clicks, drags and right clicks.  A click that comes before   *)
(* the restored draft is rendered is applied after it.                       *)

editing == page = planner /\ restored = NoDraft /\ edits < MaxEdits /\ edits' = edits + 1

Edit(wps) ==
  /\ editing
  /\ setDraft([draft EXCEPT !.waypoints = wps])
  /\ conflicts' = {} /\ work' = wps /\ interrupted' = FALSE
  /\ UNCHANGED <<drawing, calls, retryTimer, restored>>

AddWaypoint(p) ==
  Len(draft.waypoints) < MaxWaypoints /\ Edit(addWaypoint(draft.waypoints, p))

DragWaypoint(n, p) ==
  n < Len(draft.waypoints) /\ Edit(moveWaypoint(draft.waypoints, n, p))

DropWaypoint(n) ==
  n < Len(draft.waypoints) /\ Edit(removeWaypoint(draft.waypoints, n))

AddVertex(p) ==
  /\ editing
  /\ drawing' = Append(drawing, p)
  /\ UNCHANGED <<draft, conflicts, calls, retryTimer, storage, restored, work, interrupted>>

UndoVertex ==
  /\ drawing # <<>>
  /\ drawing' = Front(drawing)
  /\ UNCHANGED <<draft, conflicts, calls, retryTimer, storage, restored, edits, work, interrupted>>

-----------------------------------------------------------------------------
(* Requests *)

send(kind, body) ==
  \E s \in Slots : calls[s] = NoCall /\ calls' = [calls EXCEPT ![s] = [kind |-> kind, body |-> body]]

ended(s) == calls' = [calls EXCEPT ![s] = NoCall]

(* The button needs three points; a ring that does not close is refused.     *)
(* Bound: one geofence request in flight, so a slot is left to transmissions.*)
SubmitGeofence ==
  /\ page = planner /\ Len(drawing) >= 3 /\ closeRing(drawing) # NoRing
  /\ \A s \in Slots : calls[s].kind # "geofence"
  /\ send("geofence", closeRing(drawing))
  /\ UNCHANGED <<draft, drawing, conflicts, retryTimer, storage, restored, edits, work, interrupted>>

(* An accepted ring joins the draft and clears the drawing, as it now is. *)
GeofenceAnswer(s) ==
  /\ calls[s].kind = "geofence" /\ ended(s)
  /\ \/ /\ Len(draft.geofences) < MaxGeofences
        /\ setDraft([draft EXCEPT !.geofences = Append(@, calls[s].body)])
        /\ drawing' = <<>>
     \/ UNCHANGED <<draft, drawing, storage>>
  /\ UNCHANGED <<conflicts, retryTimer, restored, edits, work, interrupted>>

(* transmitMission with the route its closure was rendered with. *)
transmit(route) ==
  /\ send("check", route)
  /\ setDraft(markPending(draft))
  /\ UNCHANGED <<drawing, conflicts, restored, edits, work, interrupted>>

SubmitMission ==
  /\ page = planner /\ Len(draft.waypoints) >= 2 /\ canTransmit(draft)
  /\ transmit(draft.waypoints)
  /\ UNCHANGED retryTimer

(* The timer calls the failed transmission's own closure again, whatever the *)
(* draft and its status have become.                                         *)
RetryTimerFires ==
  /\ retryTimer # NoTimer
  /\ retryTimer' = NoTimer
  /\ transmit(retryTimer)

(* Conflicts end the transmission; without any, the mission is submitted. *)
CheckAnswer(s, reported) ==
  /\ calls[s].kind = "check"
  /\ reported \subseteq 0..Len(calls[s].body) - 2
  /\ conflicts' = reported
  /\ IF reported = {}
     THEN calls' = [calls EXCEPT ![s].kind = "submit"] /\ UNCHANGED <<draft, storage>>
     ELSE ended(s) /\ setDraft(markFailed(draft))
  /\ UNCHANGED <<drawing, retryTimer, restored, edits, work, interrupted>>

(* Accepted: clearDraft runs before the effect that stores the draft again. *)
SubmitAnswer(s) ==
  /\ calls[s].kind = "submit" /\ ended(s)
  /\ setDraft(markSubmitted(draft))
  /\ conflicts' = {}
  /\ UNCHANGED <<drawing, retryTimer, restored, edits, work, interrupted>>

(* Either request of a transmission fails: the timer is armed, anew if it    *)
(* already was.                                                              *)
TransmissionFails(s) ==
  /\ calls[s].kind \in {"check", "submit"} /\ ended(s)
  /\ setDraft(markFailed(draft))
  /\ retryTimer' = calls[s].body
  /\ UNCHANGED <<drawing, conflicts, restored, edits, work, interrupted>>

PlannerNext ==
  \/ Restore
  \/ \E p \in Points : AddWaypoint(p) \/ AddVertex(p)
  \/ \E n \in 0..MaxWaypoints - 1 : DropWaypoint(n) \/ \E p \in Points : DragWaypoint(n, p)
  \/ UndoVertex \/ SubmitGeofence \/ SubmitMission \/ RetryTimerFires
  \/ \E s \in Slots : GeofenceAnswer(s) \/ SubmitAnswer(s) \/ TransmissionFails(s)
  \/ \E s \in Slots, reported \in SUBSET (0..MaxWaypoints - 2) : CheckAnswer(s, reported)

-----------------------------------------------------------------------------
Waypoint == [seq : 0..MaxWaypoints - 1, at : Points]

PlannerTypeOK ==
  /\ draft.waypoints \in Seq(Waypoint) /\ work \in Seq(Waypoint)
  /\ draft.transmission \in {"idle", "pending", "failed", "submitted"}
  /\ conflicts \subseteq 0..MaxWaypoints - 2
  /\ \A s \in Slots : calls[s].kind \in {"none", "geofence", "check", "submit"}

wellNumbered(wps) == \A i \in 1..Len(wps) : wps[i].seq = i - 1

(* The route the planner's last edit left is on screen and stored, or read   *)
(* and about to be, through failures, retries and page loads, unless the     *)
(* page was left between the two writes of its mount; what is stored is what *)
(* is on screen; every route in play, the ones in flight or awaiting a retry *)
(* included, is numbered 0, 1, ... as Mission Planning demands, whatever is  *)
(* moved next; and a planner that shows "pending", which disables the submit *)
(* button, has a transmission in flight that will end it.                    *)
WorkIsKept ==
  /\ PlannerTypeOK
  /\ draft.transmission = "pending" =>
       \E s \in Slots : calls[s].kind \in {"check", "submit"}
  /\ page = planner => storage = draft
  /\ ~interrupted =>
       (IF restored # NoDraft THEN restored ELSE storage).waypoints = work
  /\ \A wps \in {draft.waypoints, restored.waypoints, retryTimer}
                 \cup {calls[s].body : s \in {s \in Slots : calls[s].kind \in {"check", "submit"}}} :
       /\ wellNumbered(wps)
       /\ \A i, j \in 0..Len(wps) : wellNumbered(reorderWaypoints(wps, i, j))
=============================================================================
