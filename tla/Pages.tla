------------------------------- MODULE Pages --------------------------------
(***************************************************************************)
(* The operations dashboard's shell (app/, components/app-shell.tsx).      *)
(* Each surface is a document of its own: nothing links one to another, so *)
(* going to a page, the same one included, loads it afresh.  Calls,        *)
(* sockets and timers of the page that is left die with it; what survives  *)
(* is the browser's local storage.  A page module gives                    *)
(*   XInit       its state before any page was loaded,                     *)
(*   XLoad(p)    its state once page p is loaded and its effects have run. *)
(***************************************************************************)
EXTENDS Integers, Sequences, FiniteSets, SequencesExt, FiniteSetsExt

VARIABLE page

NAV_ITEMS == {"fleet-map", "mission-planner", "telemetry", "alerts", "replay"}

home == "home"

allPages == NAV_ITEMS \cup {home}
=============================================================================
