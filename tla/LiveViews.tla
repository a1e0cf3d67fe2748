----------------------------- MODULE LiveViews ------------------------------
(***************************************************************************)
(* The two pages the telemetry socket keeps live: the fleet map            *)
(* (components/fleet-map.tsx, lib/fleet-map-state.ts) and the telemetry    *)
(* panels (components/telemetry-panels.tsx, lib/telemetry-panel-state.ts). *)
(* The services are left open: a push may carry any drone and any time     *)
(* stamp, so pushes come late, repeated and out of order; a list answers   *)
(* with what held when it was asked.  A sample is its time stamp: what it  *)
(* measured is Reading[ts].                                                *)
(***************************************************************************)
EXTENDS Pages, Selections

CONSTANTS
  Drones,        \* drones, numbered: the order in which they are listed
  DroneStatus,   \* DroneStatus; "active" is assumed of a drone not heard of
  MaxTs,         \* bound on the time stamps
  Reading,       \* the altitude measured at each time stamp
  Capacity       \* DEFAULT_SERIES_CAPACITY

ASSUME LiveViewsAssumption ==
  /\ Drones \subseteq Nat \ {0} /\ IsFiniteSet(Drones)
  /\ "active" \in DroneStatus
  /\ MaxTs \in Nat \ {0} /\ Capacity \in Nat \ {0}
  /\ Reading \in [1..MaxTs -> Int]

VARIABLES
  markers,   \* FleetMarkerState: a marker per drone, or NoMarker
  mapList,   \* the answer to the map's listDrones call, if awaited
  heard,     \* history: each drone's last status event and newest sample
  panels,    \* TelemetryPanelState: each drone's series, oldest first
  listed,    \* the registry's drones once the selector knows them, in order
  selected,  \* selectedDroneId, or NoDrone
  history,   \* the drone whose recent telemetry is being asked, or NoDrone
  broken     \* panels whose subtree threw: their boundary stands in for them

mapVars   == <<markers, mapList, heard>>
panelVars == <<panels, listed, selected, history, broken>>
liveVars  == <<mapVars, panelVars>>

fleetMap  == "fleet-map"
telemetry == "telemetry"
Times     == 1..MaxTs
NoDrone   == 0
Silence   == [status |-> "none", ts |-> 0]
NoMarker  == [known |-> FALSE, status |-> "none", ts |-> 0]
PanelTitles == {"Attitude", "Battery", "EKF2 Health", "Altitude"}

ascending(S) == inOrder(S, {p \in S \X S : p[1] < p[2]})

-----------------------------------------------------------------------------
(* Fleet map reducers; known: the registry's metadata is there. *)

isFreshSample(previous, ts) == ts > previous

applyTelemetrySample(state, d, ts) ==
  IF isFreshSample(state[d].ts, ts)
  THEN [state EXCEPT ![d].ts = ts,
                     ![d].status = IF state[d] = NoMarker THEN "active" ELSE @]
  ELSE state

applyStatusEvent(state, d, status) == [state EXCEPT ![d].status = status]

seedDrones(answer) ==
  [d \in Drones |-> IF d \in DOMAIN answer
                    THEN [known |-> TRUE, status |-> answer[d], ts |-> 0] ELSE NoMarker]

(* Mutant: the seed is merged over what the socket delivered. *)
mergeDronesOver(answer) ==
  [d \in Drones |-> IF d \in DOMAIN answer THEN seedDrones(answer)[d] ELSE markers[d]]

mergeDrones(answer) ==
  [d \in Drones |-> IF markers[d] # NoMarker THEN markers[d] ELSE seedDrones(answer)[d]]

-----------------------------------------------------------------------------
(* Panel reducers *)

lastTs(series) == IF series = <<>> THEN 0 ELSE Last(series)

newest(series) == SubSeq(series, Len(series) - Capacity + 1, Len(series))

pushBounded(series, ts) ==
  LET next == Append(series, ts)
  IN  IF Len(next) > Capacity THEN newest(next) ELSE next

applyPanelSample(state, d, ts) ==
  IF isFreshSample(lastTs(state[d]), ts)
  THEN [state EXCEPT ![d] = pushBounded(@, ts)]
  ELSE state

(* The answer replaces the drone's data, sorted and cut to the newest.       *)
seedPanelSamples(state, d, samples) ==
  LET ordered == ascending(samples)
  IN  IF samples = {} THEN state
      ELSE [state EXCEPT ![d] = IF Len(ordered) > Capacity THEN newest(ordered) ELSE ordered]

listPanelDroneIds(state) == ascending({d \in Drones : state[d] # <<>>})

liveOnlyIds ==
  LET ids == listPanelDroneIds(panels)
  IN  kept(ids, {i \in DOMAIN ids : ~ Contains(listed, ids[i])})

firstOf(ids) == IF ids = <<>> THEN NoDrone ELSE ids[1]

effectiveDroneId ==
  IF selected # NoDrone THEN selected
  ELSE firstOf(IF listed # <<>> THEN listed ELSE listPanelDroneIds(panels))

(***************************************************************************)
(* buildSparkline: a point of the series in a box of width by height with  *)
(* a border of padding.  y grows downwards; whole numbers, rounded down.   *)
(***************************************************************************)
buildSparkline(series, width, height, padding) ==
  LET values == {Reading[series[i]] : i \in 1..Len(series)}
      low    == CHOOSE v \in values : \A w \in values : v <= w
      high   == CHOOSE v \in values : \A w \in values : w <= v
      inner  == [w |-> width - 2 * padding, h |-> height - 2 * padding]
  IN  [i \in 1..Len(series) |->
         [x |-> padding + IF Len(series) = 1 THEN inner.w
                          ELSE (inner.w * (i - 1)) \div (Len(series) - 1),
          y |-> padding + IF high = low THEN inner.h \div 2
                          ELSE (inner.h * (high - Reading[series[i]])) \div (high - low)]]

-----------------------------------------------------------------------------
MapBlank ==
  /\ markers = [d \in Drones |-> NoMarker] /\ mapList = {}
  /\ heard = [d \in Drones |-> Silence]

PanelsBlank ==
  /\ panels = [d \in Drones |-> <<>>] /\ listed = <<>> /\ selected = NoDrone
  /\ history = NoDrone /\ broken = {}

LiveInit == MapBlank /\ PanelsBlank

someDrones == UNION {[ds -> DroneStatus] : ds \in SUBSET Drones}

(* The map's mount asks for the drones; the answer is what they are now.     *)
LiveLoad(p) ==
  /\ markers' = [d \in Drones |-> NoMarker] /\ heard' = [d \in Drones |-> Silence]
  /\ mapList' \in IF p = fleetMap THEN {{answer} : answer \in someDrones} ELSE {{}}
  /\ panels' = [d \in Drones |-> <<>>] /\ listed' = <<>> /\ selected' = NoDrone
  /\ history' = NoDrone /\ broken' = {}

(* telemetry:sample, for the page displayed *)
SamplePushed(d, ts) ==
  \/ /\ page = fleetMap
     /\ markers' = applyTelemetrySample(markers, d, ts)
     /\ heard' = [heard EXCEPT ![d].ts = Max({@, ts})]
     /\ UNCHANGED <<mapList, panelVars>>
  \/ /\ page = telemetry
     /\ panels' = applyPanelSample(panels, d, ts)
     /\ UNCHANGED <<mapVars, listed, selected, history, broken>>

(* drone:status *)
StatusPushed(d, status) ==
  /\ page = fleetMap
  /\ markers' = applyStatusEvent(markers, d, status)
  /\ heard' = [heard EXCEPT ![d].status = status]
  /\ UNCHANGED <<mapList, panelVars>>

(* It answers, or fails and leaves the map to the pushes. *)
MapListAnswer ==
  /\ mapList # {} /\ mapList' = {}
  /\ markers' \in {mergeDrones(answer) : answer \in mapList} \cup {markers}
  /\ UNCHANGED <<heard, panelVars>>

(* A change of selection asks for the drone's recent telemetry and cancels   *)
(* the answer still awaited for another.                                     *)
select(d) ==
  /\ selected' = d
  /\ history' = IF d = selected THEN history ELSE d

(* The selector's listDrones, answered once per load; the first is selected. *)
SelectorAnswer(ds) ==
  /\ page = telemetry /\ listed = <<>> /\ ds # {}
  /\ listed' = ascending(ds)
  /\ select(IF selected = NoDrone THEN listed'[1] ELSE selected)
  /\ UNCHANGED <<mapVars, panels, broken>>

SelectDrone(d) ==
  /\ page = telemetry /\ Contains(listed \o liveOnlyIds, d) /\ d # effectiveDroneId
  /\ select(d)
  /\ UNCHANGED <<mapVars, panels, listed, broken>>

(* getRecentTelemetry answers, or fails. *)
HistoryAnswer(samples) ==
  /\ history # NoDrone /\ history' = NoDrone
  /\ panels' \in {seedPanelSamples(panels, history, samples), panels}
  /\ UNCHANGED <<mapVars, listed, selected, broken>>

(* One panel throws: its own boundary shows an error until the next load.    *)
PanelBreaks(title) ==
  /\ page = telemetry /\ title \notin broken
  /\ broken' = broken \cup {title}
  /\ UNCHANGED <<mapVars, panels, listed, selected, history>>

LiveNext ==
  \/ \E d \in Drones, ts \in Times : SamplePushed(d, ts)
  \/ \E d \in Drones, status \in DroneStatus : StatusPushed(d, status)
  \/ MapListAnswer
  \/ \E ds \in SUBSET Drones : SelectorAnswer(ds)
  \/ \E d \in Drones : SelectDrone(d)
  \/ \E samples \in SUBSET Times : HistoryAnswer(samples)
  \/ \E title \in PanelTitles : PanelBreaks(title)

-----------------------------------------------------------------------------
LiveTypeOK ==
  /\ \A d \in Drones : markers[d].ts \in 0..MaxTs /\ panels[d] \in Seq(Times)
  /\ {selected, history} \subseteq Drones \cup {NoDrone}
  /\ broken \subseteq PanelTitles

(* A drone whose status was pushed since the page was loaded shows the last  *)
(* push, although the list, asked before, may answer after it; and a marker  *)
(* stands at the newest sample pushed, in whatever order they came.          *)
MapShowsLatest ==
  \A d \in Drones :
    /\ heard[d].status # "none" => markers[d].status = heard[d].status
    /\ markers[d].ts = heard[d].ts

(* Whatever order samples and history arrive in, a series is bounded and in  *)
(* order, its sparkline fits the box, is drawn left to right and touches the *)
(* right edge with the newest sample; and a history answer still awaited is  *)
(* the one of the drone displayed.                                           *)
PanelsInOrder ==
  /\ history # NoDrone => history = effectiveDroneId
  /\ \A d \in Drones :
       LET series == panels[d]
           width  == 4 + 2 * Capacity
           spark  == buildSparkline(series, width, 10, 2)
       IN  /\ Len(series) <= Capacity
           /\ \A i \in 1..Len(series) - 1 :
                series[i] < series[i + 1] /\ spark[i].x < spark[i + 1].x
           /\ \A i \in 1..Len(series) :
                /\ spark[i].x \in 2..width - 2 /\ spark[i].y \in 2..8
                /\ i = Len(series) => spark[i].x = width - 2

(* Both pages the socket keeps live, seeded by a list that answers late.     *)
LiveViewsCurrent == LiveTypeOK /\ MapShowsLatest /\ PanelsInOrder
=============================================================================
