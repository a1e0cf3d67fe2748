------------------------------- MODULE Routes -------------------------------
(***************************************************************************)
(* The routing and permission tables of the api-gateway                    *)
(* (auth/route-permissions.ts, routing/upstreams.ts), the path rewrite of  *)
(* its reverse proxy (routing/proxy.service.ts) and the endpoints of the   *)
(* services behind it.  A path is the sequence of its segments.            *)
(***************************************************************************)
EXTENDS Integers, Sequences

Roles == {"viewer", "analyst", "operator", "super_admin"}

ROLE_PRIVILEGE == [viewer |-> 0, analyst |-> 1, operator |-> 2, super_admin |-> 3]

readers == {"viewer", "analyst", "operator"}

ROUTE_PERMISSION_TABLE ==
  <<[method |-> "GET",   path |-> <<"fleet", "drones">>,        roles |-> readers],
    [method |-> "GET",   path |-> <<"fleet", "drones", ":id">>, roles |-> readers],
    [method |-> "POST",  path |-> <<"fleet", "drones">>,        roles |-> {"operator"}],
    [method |-> "PATCH", path |-> <<"fleet", "drones", ":id">>, roles |-> {"operator"}],
    [method |-> "GET",   path |-> <<"missions">>,               roles |-> readers],
    [method |-> "POST",  path |-> <<"missions">>,               roles |-> {"operator"}],
    [method |-> "PATCH", path |-> <<"missions", ":id">>,        roles |-> {"operator"}],
    [method |-> "GET",   path |-> <<"telemetry", "history">>,   roles |-> readers],
    [method |-> "GET",   path |-> <<"vision", "detections">>,   roles |-> {"analyst", "operator"}],
    [method |-> "GET",   path |-> <<"alerts">>,                 roles |-> readers],
    [method |-> "POST",  path |-> <<"alerts", ":id", "acknowledge">>, roles |-> {"operator"}]>>

Entries == 1..Len(ROUTE_PERMISSION_TABLE)

isParam(segment) == segment \in {":id", ":droneId", ":version"}

pathMatchesPattern(path, pattern) ==
  /\ Len(path) = Len(pattern)
  /\ \A i \in 1..Len(pattern) : isParam(pattern[i]) \/ pattern[i] = path[i]

NoEntry == 0

(* The permission entry of a request: an exact one before a pattern, among   *)
(* patterns the first.                                                       *)
matchRoute(method, path) ==
  LET exact   == {i \in Entries : /\ ROUTE_PERMISSION_TABLE[i].method = method
                                  /\ ROUTE_PERMISSION_TABLE[i].path = path}
      pattern == {i \in Entries : /\ ROUTE_PERMISSION_TABLE[i].method = method
                                  /\ pathMatchesPattern(path, ROUTE_PERMISSION_TABLE[i].path)}
  IN  IF exact # {} THEN CHOOSE i \in exact : TRUE
      ELSE IF pattern # {} THEN CHOOSE i \in pattern : \A j \in pattern : i <= j
      ELSE NoEntry

(* Default-deny; super_admin inherits what a lower role is granted. *)
authorize(role, entry) ==
  /\ entry # NoEntry
  /\ LET permitted == ROUTE_PERMISSION_TABLE[entry].roles
     IN  \/ role \in permitted
         \/ /\ role = "super_admin"
            /\ \E r \in permitted : ROLE_PRIVILEGE[r] < ROLE_PRIVILEGE[role]

-----------------------------------------------------------------------------
UPSTREAM_DEFINITIONS ==
  <<[id |-> "fleet-registry",      prefix |-> <<"fleet">>],
    [id |-> "mission-planning",    prefix |-> <<"missions">>],
    [id |-> "telemetry-ingestion", prefix |-> <<"telemetry">>],
    [id |-> "vision-ai",           prefix |-> <<"vision">>],
    [id |-> "alert-notification",  prefix |-> <<"alerts">>]>>

UpstreamIds == {UPSTREAM_DEFINITIONS[i].id : i \in 1..Len(UPSTREAM_DEFINITIONS)}

NoUpstream == "no upstream"

pathHasPrefix(path, prefix) ==
  Len(path) >= Len(prefix) /\ SubSeq(path, 1, Len(prefix)) = prefix

resolveUpstreamId(path) ==
  LET owners == {i \in 1..Len(UPSTREAM_DEFINITIONS) :
                   pathHasPrefix(path, UPSTREAM_DEFINITIONS[i].prefix)}
  IN  IF owners = {} THEN NoUpstream
      ELSE UPSTREAM_DEFINITIONS[CHOOSE i \in owners : \A j \in owners : i <= j].id

(* Mutant: the whole path is sent on. *)
pathRewriteKeeps(path) == path

(* The proxy strips the prefix, one segment for every upstream. *)
pathRewrite(path) == Tail(path)

-----------------------------------------------------------------------------
(* The endpoints each service declares. *)
ENDPOINTS ==
  [s \in UpstreamIds |->
     IF s = "fleet-registry" THEN
       {<<"POST", <<"drones">>>>, <<"GET", <<"drones">>>>,
        <<"GET", <<"drones", ":id">>>>, <<"PATCH", <<"drones", ":id">>>>,
        <<"POST", <<"drones", ":id", "decommission">>>>,
        <<"POST", <<"drones", ":id", "component-usage">>>>,
        <<"GET", <<"drones", ":id", "maintenance">>>>}
     ELSE IF s = "mission-planning" THEN
       {<<"POST", <<"missions">>>>, <<"PUT", <<"missions", ":id">>>>,
        <<"GET", <<"missions", ":id">>>>,
        <<"GET", <<"missions", ":id", "versions", ":version">>>>,
        <<"GET", <<"missions", ":id", "export">>>>,
        <<"GET", <<"templates">>>>, <<"GET", <<"templates", ":id">>>>,
        <<"POST", <<"templates", ":id", "instantiate">>>>,
        <<"POST", <<"geofences">>>>, <<"GET", <<"geofences">>>>,
        <<"POST", <<"geofences", "detect-conflicts">>>>, <<"GET", <<"geofences", ":id">>>>}
     ELSE IF s = "telemetry-ingestion" THEN
       {<<"GET", <<"telemetry", ":droneId", "history">>>>}
     ELSE IF s = "vision-ai" THEN
       {<<"POST", <<"detections">>>>, <<"GET", <<"detections">>>>}
     ELSE
       {<<"POST", <<"rules">>>>, <<"GET", <<"alerts">>>>,
        <<"GET", <<"alerts", "analytics">>>>}]

serves(upstream, method, path) ==
  \E e \in ENDPOINTS[upstream] : e[1] = method /\ pathMatchesPattern(path, e[2])
=============================================================================
