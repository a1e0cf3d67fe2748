----------------------------- MODULE Dashboard ------------------------------
(***************************************************************************)
(* The operations dashboard in one browser tab: one page at a time, each   *)
(* with its own state, and the planner's draft in local storage.           *)
(***************************************************************************)
EXTENDS Planner, AlertFeed, LiveViews, Replay

vars == <<page, plannerVars, feedVars, liveVars, replayVars>>

Init ==
  /\ page = home
  /\ PlannerInit /\ FeedInit /\ LiveInit /\ ReplayInit

(* The address of a page is opened, or the page displayed is reloaded.       *)
(* Bound: once the planner has stored a draft the tab keeps to it and to the *)
(* home page; the other pages neither read nor write local storage.          *)
LoadPage(p) ==
  /\ p \in {planner, home} \/ storage = NoDraft
  /\ page' = p
  /\ PlannerLoad(p) /\ FeedLoad(p) /\ LiveLoad(p) /\ ReplayLoad

Next ==
  \/ \E p \in allPages : LoadPage(p)
  \/ PlannerNext /\ UNCHANGED <<page, feedVars, liveVars, replayVars>>
  \/ FeedNext /\ UNCHANGED <<page, plannerVars, liveVars, replayVars>>
  \/ LiveNext /\ UNCHANGED <<page, plannerVars, feedVars, replayVars>>
  \/ ReplayNext /\ UNCHANGED <<page, plannerVars, feedVars, liveVars>>

Spec == Init /\ [][Next]_vars
=============================================================================
