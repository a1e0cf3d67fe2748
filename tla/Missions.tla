------------------------------ MODULE Missions ------------------------------
(***************************************************************************)
(* Mission planning: versioned missions (missions/                         *)
(* mission-planning.service.ts, typeorm-mission-store.ts), no-fly zones    *)
(* (geofences/geofence.service.ts, typeorm-geofence-store.ts) and the      *)
(* MAVLink export that needs both (export/mavlink-export.service.ts).      *)
(*                                                                         *)
(* An edit reads the latest version twice, once for the fields it carries  *)
(* over and once for its number, and then saves; an export checks a        *)
(* mission's segments against the zones with one query each.  Requests     *)
(* overlap at every await.  Lengths and angles are whole numbers.          *)
(***************************************************************************)
EXTENDS Geometry, Templates, Mavlink, SequencesExt

CONSTANTS
  Ids,          \* mission ids still to be drawn
  Names,        \* mission names
  Plans,        \* waypoint lists a request may carry
  Zones,        \* zones a request may define: [ring, parts], see Geometry
  Grid,         \* the points at which the geometry is compared
  Catalogue,    \* the templates: [title, name, status, requiredParams, waypoints]
  Params,       \* parameters a request may carry: [text, number] each
  maxAltitude,  \* MissionConfig.maxAltitude
  Calls,        \* requests that may be in flight together
  MaxVersion    \* bound on the versions of a mission

Unset == "unset"   \* a field the edit omits

STATUSES == {"draft", "validated", "archived"}

Waypoint == [seq : Nat, lat : Int, lon : Int, altitude : Int, speed : Int,
             gimbalAngle : Int, loiterTime : Int]

ASSUME MissionsAssumption ==
  /\ Unset \notin Names
  /\ Plans \subseteq Seq(Waypoint) \ {<<>>}
  /\ \A plan \in Plans : \A i \in 1..Len(plan) : <<plan[i].lon, plan[i].lat>> \in Grid
  /\ \A z \in Zones : z.ring \in Seq(Int \X Int)
  /\ maxAltitude \in Nat \ {0}
  /\ MaxVersion \in Nat \ {0}

(* A template is a mission body whose fields may be parameters and whose     *)
(* name holds one; a parameter is a finite number or a text.                 *)
ASSUME TemplatesAssumption ==
  \A t \in Catalogue :
    /\ t.title \in Names /\ t.status \in STATUSES /\ t.name # NoValue
    /\ Len(t.waypoints) \in Nat \ {0}
    /\ \A i \in 1..Len(t.waypoints), f \in FIELDS : t.waypoints[i][f].value \in Int
    /\ \A params \in Params, p \in collectPlaceholders(t) : params[p].number \in Int

VARIABLES
  missions,  \* missions[id][v]: version v of mission id, or NoMission
  zones,     \* the geofences table
  call,      \* call[k]: the request k
  exported   \* history: what was exported, with the zones of the time it began

vars == <<missions, zones, call, exported>>

Versions == 1..MaxVersion

NoMission == [name |-> Unset, status |-> Unset, waypoints |-> <<>>]

Idle == [pc |-> "idle", id |-> Unset, body |-> NoMission, version |-> 0,
         segment |-> 0, conflicts |-> FALSE, known |-> {}]

-----------------------------------------------------------------------------
(* waypoint-validation.ts *)

inRange(wp) ==
  /\ wp.lat \in -90..90 /\ wp.lon \in -180..180 /\ wp.gimbalAngle \in -90..90
  /\ wp.altitude \in 1..maxAltitude
  /\ wp.speed > 0 /\ wp.loiterTime >= 0

(* validateSequence: sorted, the numbers are 0, 1, ... *)
contiguous(plan) ==
  {plan[i].seq : i \in 1..Len(plan)} = 0..Len(plan) - 1

(* validateWaypoints reports no error *)
isValid(plan) ==
  contiguous(plan) /\ \A i \in 1..Len(plan) : inRange(plan[i])

-----------------------------------------------------------------------------
(* typeorm-mission-store.ts *)

stored(id) == {v \in Versions : missions[id][v] # NoMission}

latestVersion(id) == CHOOSE v \in stored(id) : \A w \in stored(id) : w <= v

latest(id) == missions[id][latestVersion(id)]

persist(id, v, body) ==
  missions' = [missions EXCEPT ![id][v] = [body EXCEPT !.waypoints = bySeq(@)]]

goto(k, r) == call' = [call EXCEPT ![k] = r]

(* createMission: a random id, version 1. *)
CreateMission(id, name, status, plan) ==
  /\ stored(id) = {}
  /\ isValid(plan)
  /\ persist(id, 1, [name |-> name, status |-> status, waypoints |-> plan])
  /\ UNCHANGED <<zones, call, exported>>

(* The name of the mission: the template's, with its parameter put in. *)
resolveName(t, params) == IF params[t.name].text = Dangling THEN Dangling ELSE t.title

(* POST /templates/:id/instantiate: the mission the template resolves to is  *)
(* created like any other; a field that is no number fails the validation.   *)
Instantiate(id, t, params) ==
  /\ instantiates(t, params)
  /\ allNumeric(t, params)
  /\ CreateMission(id, resolveName(t, params), t.status, resolveWaypoints(t, params))

either(given, kept) == IF given = Unset THEN kept ELSE given

(* updateMission up to addVersion: omitted fields come from the latest       *)
(* version; an edit that is not valid ends here.                             *)
UpdateFind(k, id, name, status, plan) ==
  LET body == [name      |-> either(name, latest(id).name),
               status    |-> either(status, latest(id).status),
               waypoints |-> IF plan = <<>> THEN latest(id).waypoints ELSE plan]
  IN  /\ call[k].pc = "idle"
      /\ stored(id) # {}
      /\ isValid(body.waypoints)
      /\ goto(k, [Idle EXCEPT !.pc = "number", !.id = id, !.body = body])
      /\ UNCHANGED <<missions, zones, exported>>

(* Mutant: the service's own read has added one already: a gap is left. *)
UpdateNumberSkips(k) ==
  /\ call[k].pc = "number"
  /\ latestVersion(call[k].id) + 2 <= MaxVersion
  /\ goto(k, [call[k] EXCEPT !.pc = "save",
                             !.version = latestVersion(call[k].id) + 2])
  /\ UNCHANGED <<missions, zones, exported>>

(* addVersion: one more than the highest version. *)
UpdateNumber(k) ==
  /\ call[k].pc = "number"
  /\ latestVersion(call[k].id) < MaxVersion
  /\ goto(k, [call[k] EXCEPT !.pc = "save",
                             !.version = latestVersion(call[k].id) + 1])
  /\ UNCHANGED <<missions, zones, exported>>

seqsOf(plan) == {plan[i].seq : i \in 1..Len(plan)}

(***************************************************************************)
(* Repository.save inserts the version, or, when another edit has stored   *)
(* that number, updates the row in place and its waypoints with it.  It    *)
(* is refused when a stored waypoint is missing from the new list: its     *)
(* foreign key, part of the primary key, cannot be cleared.  An insert     *)
(* that finds the key taken fails too: see Abort.                          *)
(***************************************************************************)
UpdateSave(k) ==
  LET r == call[k]
  IN  /\ r.pc = "save"
      /\ seqsOf(missions[r.id][r.version].waypoints) \subseteq seqsOf(r.body.waypoints)
      /\ persist(r.id, r.version, r.body)
      /\ goto(k, Idle)
      /\ UNCHANGED <<zones, exported>>

-----------------------------------------------------------------------------
(* defineGeofence: a ring that is not valid is refused. *)
acceptedZones == {z \in Zones : validRing(z.ring)}

DefineZone(z) ==
  /\ z \in acceptedZones
  /\ zones' = zones \cup {z}
  /\ UNCHANGED <<missions, call, exported>>

segmentOf(plan, i) ==
  <<<<plan[i].lon, plan[i].lat>>, <<plan[i + 1].lon, plan[i + 1].lat>>>>

segments(plan) == {segmentOf(plan, i) : i \in 1..Len(plan) - 1}

(* The segments PostGIS finds in conflict with a zone. *)
conflicting == [z \in Zones |-> {s \in Grid \X Grid : ST_Intersects(z, s)}]

(* exportMission: the latest version, if it is validated. *)
ExportLoad(k, id) ==
  /\ call[k].pc = "idle"
  /\ stored(id) # {}
  /\ latest(id).status = "validated"
  /\ goto(k, [Idle EXCEPT !.pc = "export", !.id = id, !.body = latest(id),
                          !.segment = 1, !.known = zones])
  /\ UNCHANGED <<missions, zones, exported>>

(* detectConflicts: one query for each segment. *)
ExportSegment(k) ==
  LET r == call[k]
  IN  /\ r.pc = "export" /\ r.segment < Len(r.body.waypoints)
      /\ goto(k, [r EXCEPT !.segment = @ + 1,
                           !.conflicts = @ \/ \E z \in zones :
                              segmentOf(r.body.waypoints, r.segment) \in conflicting[z]])
      /\ UNCHANGED <<missions, zones, exported>>

(* exportMavlink; JSON carries the same items. *)
export(body, known) ==
  [body |-> body, known |-> known,
   bytes |-> encodeBinary(buildMissionItems(body.waypoints))]

(* Mutant: the mission is read again once the check has passed. *)
ExportEndRereads(k) ==
  LET r == call[k]
  IN  /\ r.pc = "export" /\ r.segment = Len(r.body.waypoints)
      /\ exported' = IF r.conflicts \/ ~encodable(buildMissionItems(r.body.waypoints))
                     THEN exported
                     ELSE exported \cup {export(latest(r.id), r.known)}
      /\ goto(k, Idle)
      /\ UNCHANGED <<missions, zones>>

(* A conflict blocks the export, and a plan with too many items for their    *)
(* count has no binary form.                                                 *)
ExportEnd(k) ==
  LET r == call[k]
  IN  /\ r.pc = "export" /\ r.segment = Len(r.body.waypoints)
      /\ exported' = IF r.conflicts \/ ~encodable(buildMissionItems(r.body.waypoints))
                     THEN exported
                     ELSE exported \cup {export(r.body, r.known)}
      /\ goto(k, Idle)
      /\ UNCHANGED <<missions, zones>>

(* The request fails: the database rejects a query or its constraints a save. *)
Abort(k) ==
  /\ call[k].pc # "idle"
  /\ goto(k, Idle)
  /\ UNCHANGED <<missions, zones, exported>>

-----------------------------------------------------------------------------
Init ==
  /\ missions = [id \in Ids |-> [v \in Versions |-> NoMission]]
  /\ zones    = {}
  /\ call     = [k \in Calls |-> Idle]
  /\ exported = {}

Begin ==
  \/ \E id \in Ids, n \in Names, s \in STATUSES, p \in Plans : CreateMission(id, n, s, p)
  \/ \E id \in Ids, t \in Catalogue, params \in Params : Instantiate(id, t, params)
  \/ \E k \in Calls, id \in Ids, n \in Names \cup {Unset}, s \in STATUSES \cup {Unset},
        p \in Plans \cup {<<>>} : UpdateFind(k, id, n, s, p)
  \/ \E k \in Calls, id \in Ids : ExportLoad(k, id)
  \/ \E z \in Zones : DefineZone(z)

Resume ==
  \E k \in Calls :
    \/ UpdateNumber(k) \/ UpdateSave(k)
    \/ ExportSegment(k) \/ ExportEnd(k) \/ Abort(k)

Next == Begin \/ Resume

Spec == Init /\ [][Next]_vars

-----------------------------------------------------------------------------
(* Properties *)

Mission == [name : Names \cup {Dangling}, status : STATUSES, waypoints : Seq(Waypoint)]

(* The type invariant. *)
TypeOK ==
  /\ missions \in [Ids -> [Versions -> Mission \cup {NoMission}]]
  /\ zones \subseteq Zones
  /\ \A k \in Calls :
       /\ call[k].pc \in {"idle", "number", "save", "export"}
       /\ call[k].pc # "idle" => call[k].id \in Ids /\ call[k].body \in Mission
       /\ call[k].pc = "save" => call[k].version \in Versions
       /\ call[k].pc = "export" => call[k].segment \in 1..Len(call[k].body.waypoints)
       /\ call[k].known \subseteq zones
  /\ \A e \in exported : e.body \in Mission /\ e.known \subseteq zones

(***************************************************************************)
(* P11: the versions of a mission are numbered 1, 2, ... without a gap,    *)
(* whatever edits overlap or fail.                                         *)
(***************************************************************************)
VersionsContiguous ==
  /\ TypeOK
  /\ \A id \in Ids : stored(id) = 1..Cardinality(stored(id))

(***************************************************************************)
(* P10, P14: a stored version is flyable: its waypoints are numbered by    *)
(* their place and within range, also where one edit has overwritten       *)
(* another, and nothing in it is a placeholder, also where a parameter of  *)
(* its template held one.                                                  *)
(***************************************************************************)
StoredFlyable ==
  \A id \in Ids : \A v \in stored(id) :
    LET plan == missions[id][v].waypoints
    IN  /\ missions[id][v].name \in Names
        /\ \A i \in 1..Len(plan) :
             /\ plan[i].seq = i - 1
             /\ plan[i].altitude > 0 /\ plan[i].altitude <= maxAltitude

(***************************************************************************)
(* 7.2, 7.7, P12: whatever is edited meanwhile, an exported plan is one    *)
(* that was validated, and no segment of it touches a zone that had been   *)
(* defined when the export began.  The bytes parse, and what they tell the *)
(* vehicle is that plan: a takeoff to the first waypoint, then every       *)
(* waypoint in its place.                                                  *)
(***************************************************************************)
ExportsAreSafe ==
  \A e \in exported :
    LET plan  == e.body.waypoints
        items == parseMavlink(e.bytes)
    IN  /\ e.body.status = "validated"
        /\ \A z \in e.known : segments(plan) \cap conflicting[z] = {}
        /\ parses(e.bytes) /\ Len(items) = Len(plan) + 1
        /\ \A i \in 1..Len(items) :
             LET w == plan[Max({1, i - 1})]
             IN  /\ items[i].seq = i - 1
                 /\ items[i].x = w.lat * GEO_SCALE /\ items[i].y = w.lon * GEO_SCALE
                 /\ items[i].z = w.altitude
                 /\ (items[i].command = MAV_CMD_NAV_TAKEOFF) = (i = 1)

(* The zones on which Algorithm 1 and PostGIS agree, for every segment of    *)
(* the grid.                                                                 *)
Agreeing ==
  {z \in Zones : \A s \in Grid \X Grid : touchesOrEnters(s, z.ring) = (s \in conflicting[z])}

Simples     == {z \in Zones : Simple(z.ring)}
ClosedRings == {z \in Zones : /\ Len(z.ring) >= 4 /\ z.ring[1] = Last(z.ring)
                              /\ \A i \in 1..Len(z.ring) :
                                   z.ring[i] \in (-180..180) \X (-90..90)}

(* P9: the ring validation accepts simple boundaries and no others. *)
BoundariesSimple == zones \subseteq Simples /\ ClosedRings \cap Simples \subseteq acceptedZones

(***************************************************************************)
(* P6, P7, P9: a zone that was accepted has a simple boundary, every ring  *)
(* with a simple closed boundary is accepted, and the detector of the code *)
(* finds just the segments that cross, touch or lie within it.             *)
(***************************************************************************)
ZonesSound == BoundariesSimple /\ zones \subseteq Agreeing

(* P11: "prior versions are never mutated by any operation".               *)
PriorVersionsKept ==
  [][\A id \in Ids : \A v \in stored(id) : missions'[id][v] = missions[id][v]]_missions
=============================================================================
