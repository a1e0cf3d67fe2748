# Verification of the drone fleet operations platform

TLA+ models of the platform's services and of its dashboard, TLC configurations
that check them on small instances, and TLAPS proofs about every component.
Source paths below are relative to `src/services/` unless they start with
`src/`.

    tlc -workers 2 -config EscalationSerial.cfg MCEscalation   # one run
    tlapm EscalationProofs.tla                                 # proofs of a module

`PROJECT.json` lists the runs, the source lines of every definition, one
mutation of the code per checked property, the hazards and the disagreements
between code and documentation that the models turned up.

## 1. Inventory

The platform is six services and a dashboard. The browser and the drones talk
to the **API gateway** (HTTP) and to **telemetry ingestion** (WebSocket); the
gateway authenticates, authorizes, meters and proxies to **fleet registry**,
**mission planning**, **alert & notification**, telemetry history and
**vision-ai**. Telemetry ingestion posts anomalies, and the fleet registry
publishes domain events, to the alert service. There is no shared database:
every service owns its Postgres tables, the gateway and the alert service own
Redis keys. All TypeScript services are single-threaded Node processes, so the
unit of interleaving everywhere is *the code between two awaits*.

| component | state | operations | what is hard | correct means |
|---|---|---|---|---|
| escalation (`alert-notification/src/alerts/escalation.*`) | `alerts` rows, Redis sorted set of due times | createAlert, acknowledge, tickEscalations | load - await - save in every operation; calls that die between the row and the timer; the rule edited meanwhile | rows follow the status machine; acknowledged stays quiet; steps announced in order; no alert forgotten |
| alert rules | `alert_rules` | upsertRule (a transaction), evaluateEvent | edited while an escalation uses it | matching independent of rule order |
| history, analytics | none (reads) | query, group by zone and hour | conservation of counts | counts sum to the total |
| dispatch (`notifications/dispatch`) | Redis set of failed channels | dispatch | retries of a send that did arrive; failures inside failure handling | one result per configured entry, fallback once, report true |
| transports, in-app socket | connected clients | send | I/O | - |
| telemetry ingest (`telemetry-ingestion/src/{ws,persist,anomaly}`) | buffer, flush chain, monotonic gate, anomaly windows, metrics, hypertable | connect, frame, flush, stop, close | an insert in flight while frames arrive; failing inserts; restart with the gate lost | every accepted sample handed over exactly once and accounted for |
| frame codec (`telemetry-ingestion/src/mavlink`) | none | encode, parseFrame | which check refuses which damage; scaling | what is stored was sent |
| telemetry history (`telemetry-ingestion/src/query`) | none (reads) | handleHistory | bucket width, inclusive end, regrouped aggregates | each sample counted once, buckets in range and bounded |
| gateway auth, RBAC, routing (`api-gateway/src/{auth,routing}`) | proxy cache | guards, proxy | three tables written independently | forwarded implies granted, and the upstream knows the path |
| rate limit (`api-gateway/src/rate-limit`) | Redis counters | consume | concurrent requests at the edge, late answers, key expiry | quota per window; a refused client that waits gets in |
| OpenAPI, health, trace headers | none | merge, probe | formatting | - |
| fleet registry (`fleet-registry/src/drones`) | `drones`, `component_lifecycles` | create, update, decommission, recordComponentUsage | check-then-save without a lock | due components are announced, events tell what was stored |
| event publisher (`fleet-registry/src/events`) | in-memory retry queue | publish, flush | overlapping flushes, crash | each event in one place, delivered in the end |
| missions (`mission-planning/src/missions`) | rows keyed (id, version) | create, update, read | two edits at once | contiguous, immutable, valid versions |
| geofences (`mission-planning/src/geofences`) | `geofences` | define, detectConflicts | touching, collinear, concave cases; one query per segment | valid rings only; exactly the touching segments |
| export (`mission-planning/src/export`) | none | exportMission | several reads, edits in between | what is exported was checked, and parses to the plan |
| templates (`mission-planning/src/templates`) | built-in templates | instantiate | values that hold placeholders | what is stored is flyable |
| vision ingest, query (`vision-ai/app/{routers,services}`) | `detections`, `ingest_batches` | POST, GET /detections | look-up and commit of concurrent handlers | stored once or not at all; a 2xx means stored |
| vision tracking, scene | tracks, histories | stitch_tracks, classify_scene_events | gaps, classes, prediction | identity is sound, events have evidence |
| dashboard: planner (`ops-dashboard/src`) | draft, drawing, calls, retry timer, local storage | edit, draw, transmit, retry, reload | late answers, stale closures, interrupted calls, a mount that writes twice | the planner's work survives |
| dashboard: alert feed | feed items, calls | push, seed, acknowledge | arrival in any order, of rows that overlapping calls saved | no step back, not behind the stored row, no stuck button |
| dashboard: map, panels | markers, series | push, seed, select | late lists, reordered samples | a marker shows the newest, series in order and bounded |
| dashboard: replay | range, detections, handle | load, scrub | failing loads, finite steps | only the range asked for, all of it reachable |
| shared types, seed, migrations, CI | - | - | declarations | - |

What the code is exposed to is listed line by line under `hazards` in
`PROJECT.json`; each hazard names the properties aimed at it or says why there
is none.

## 2. Plan

Order, by weight of the behaviour. All of it is built.
Each `*Proofs` module EXTENDS the module it is about.

1. `AlertLifecycle` (abstract), `Escalation`, `EscalationProofs`
2. `Codec`, `History`, and `Telemetry`, which EXTENDS both
3. `Routes` + `Gateway` (Gateway EXTENDS Routes)
4. `Selections` (what a filter keeps and a sort returns), `Dispatch`
5. `Fleet`
6. `Geometry`, `Templates`, `Mavlink`, and `Missions`, which composes them with
   versions, zones and export
7. `Detections` + `Tracks`, both EXTENDing `Selections`, composed in `Vision`
8. `Pages`, `Planner`, `AlertFeed`, `LiveViews`, `Replay`, composed in
   `Dashboard`
9. proofs: `GatewayProofs`, `TelemetryProofs`, `FleetProofs`, `MissionsProofs`,
   `DispatchProofs`, `VisionProofs`, `DashboardProofs` (feed, replay, map and
   panels, planner)

Abstract specifications worth stating: the alert life cycle (done), an
append-only log that Missions would implement were `addVersion` atomic, a
bounded FIFO hand-over that the persister implements. For pure algorithms the
abstract side is a definition of another kind: separating axes against the
orientation tests (`ZonesSound`), a filter predicate against the query
(`QueryExact`), a parser against the encoder (`ExportsAreSafe`,
`RowsWellFormed`), the samples themselves against their buckets
(`HistoryConserves`).

Theorems worth proving: those of section 6 (done). What is left, and why, is
in section 7. A definition the prover cannot look into (a sort, a fold,
`SelectSeq`) was given in another form with the same value before it was proved
about: `kept` and `inOrder` of `Selections`, recursive functions for loops,
`bySeq` for the waypoint sort, `encodeBinary` for the MAVLink encoder.

Modules meant for proofs declare no RECURSIVE operator. Parameters are
CONSTANTS with a named assumption each.

## 3. Modules

### Common conventions

A method that awaits is split at each await that touches shared state; what it
has read so far stays in the record of the call (`ack[k]`, `sweep[s]`,
`call[k]`, ...). A repository `save` is one step (TypeORM wraps it in a
transaction), reading is one step, and TypeORM and Redis are modelled from how
the services use them. A rejected promise, a lost connection and a crash look
alike to such a call: it stops between two steps (`...Abort`, `Crash`).
History variables (marked *history* in the VARIABLES) record what has happened
for the properties to speak of; no guard reads them. Bounds are constants whose
name starts with `Max`, `Plans`/`Frames`/`Requests`/... are the inputs.

### AlertLifecycle, Escalation

`alert[a]` is the row (status, level, acknowledgedBy), `due[a]` the score in
`alert:escalation:due`, `rule` the owning rule reduced to the length of its
chain and its interval, `arming[a]` the schedule call createAlert still owes,
`ack[k]` and `sweep[s]` the calls in flight. `dispatched[a]` (*history*) has the
levels whose step was handed to the dispatcher: the level, not the contact, for
`dispatchEscalation` passes on the alert and the rule's channels only and merely
logs the contact. `unsent[a]` (*history*) has the levels whose sweep died between
its save and its dispatch.

| action | code |
|---|---|
| `CreateSave`, `CreateArm`, `CreateAbort` | createAlert: save, then schedule, or die between |
| `AckLoad`, `AckNoop`, `AckSave`, `AckCancel`, `AckAbort` | acknowledge |
| `SweepBegin` | the ZRANGEBYSCORE of tickEscalations |
| `SweepLoad` / `AfterLoad` | processDueAlert up to its first write: drop, wait, exhaust or escalate |
| `SweepSave`, `SweepDispatch`, `SweepArm`, `SweepCancel`, `SweepEnd`, `SweepAbort` | the rest of processDueAlert and of the loop |
| `UpsertRule`, `Clock` | a rule edit; time |

The alert and the rule are read in one step although the code awaits between
them: a rule edit in between is the same as one before the load, and an
acknowledgement in between is the same as one after it. The rejected
acknowledgement of a CLOSED alert changes nothing and has no action.

Two next-state relations: `Next` lets every call overlap every other;
`SerialNext` starts a call only when none is in flight. The first is what the
code admits, the second what its documentation has in mind. `AlertLifecycle`
is the promise about a row with no processes at all; `SerialSpec` is checked to
implement it with `rows <- alert`.

### Telemetry

`conn`, per connection its drone; per drone `gate` (last accepted timestamp)
and `windows` (anomaly history); `pending`, `writing` (the batch inside
insertBatch), `chain` (the promise chain of flushes); `rows` (the hypertable,
keyed by drone and timestamp with ON CONFLICT DO NOTHING); `phase` of the
process; `metrics`. `HandleFrame` is the whole synchronous handler: parse,
observe, bounds, gate, buffer, and a flush appended to the chain when the batch
is full. `DrainEmpty`, `DrainStart`, `InsertOk`, `InsertFail` are the links of
the chain; an insert that is rejected may have been applied all the same.
`Shutdown`, `Closed` and `Exit` are close() and the signal handler; `Crash` and
`Start` lose and rebuild everything in memory. The detector has its four
conditions (altitude drop, battery drain, EKF degradation, GPS loss) with rates
compared multiplied out; positions and the sinks that receive anomalies are
left out.

A frame arrives as a *wire* record, and `Codec` says what `parseFrame` makes of
it: start byte, length, signature, message id, CRC, array id, finite values, in
that order, then the sample with its time in milliseconds again. `History` is
the downsampling query over whatever `rows` holds: the width of a bucket, the
relation it is read from (samples, or aggregates whose rows are granules), the
grouping and the limit. Averages and SQL text are left out; the aggregates are
taken to be refreshed. Some rows are there from the start (`Seeded`), so that
queries meet every relation.

### Routes, Gateway

`Routes` is data and pure functions: the permission table, pattern matching
(path segments as sequences), role inheritance, the upstream table,
resolution by the first prefix that matches, the prefix rewrite and the
endpoints the services declare. `Gateway` runs requests
through it: `Arrive` (JwtAuthGuard, RbacGuard), `Meter` and `MeterFail`
(RateLimitGuard around the Redis script, whose reply may come ticks after the
key was computed), `forward`, `UpstreamAnswers`, `Answered`, `Tick` (the clock
and key expiry, in fractions of a second so that rounding shows). A token is
`missing`, `invalid` or a role.

### Dispatch

One record per dispatch call: the fan-out, the position in it, the phase
(primary or fallback), the attempt, whether in-app is healthy, and the results.
A send ends in success, failure, or failure after the message left
(`received` against `sends`). `RecordFailure` may fail; `marker` is the Redis
set, written and never read, as in the code.

### Fleet

Drone and lifecycle rows as TypeORM sees them (`save` writes the columns that
differ from the stored row: `sameColumns`), calls split into find / load / save
/ publish, the publisher's `queue` and the flushes in flight. `issued` numbers
the events, `delivered` and `lost` say where each ended. Counters are clamped
at zero as in the code; time stamps are left out.

### Geometry, Templates, Mavlink, Missions

`missions[id][v]` with sorted waypoints, `zones` as defined rings, calls as
records. `CreateMission` and `Instantiate` are single saves; `UpdateFind`
validates the merged plan, `UpdateNumber` reads the highest version,
`UpdateSave` is `Repository.save`: insert or update by key. `ExportLoad`, one
`ExportSegment` per route segment (one query each), `ExportEnd`. `DefineZone`
may come between any two.

`Geometry` translates the orientation and even-odd tests and the validation of
a ring, on whole-number coordinates, so that no rounding blurs them; the
division of the ray test is multiplied out. What PostGIS decides is defined
apart from the code, by separating axes over the convex parts of a zone, which
is what makes `ZonesSound` a comparison and not a repetition. `Templates` keeps
of a parameter whether it is a number, a text, a text that holds a placeholder,
or missing. `Mavlink` writes the items as the sequence of their field values
and parses them back. Its sort, shared by the store and the export, is the
stable order itself, chosen among the permutations of the plan. The item count
and the numbers are 16 bits wide on the wire and the code refuses to write
more: `encodable` is that refusal, and an export that meets it ends without a
file.

### Detections, Tracks, Vision

`requests[r]` is a handler of POST /detections (received, adding, answered),
`ledger` and `rows` the two tables. `LookUp` is everything up to the commit,
`Commit` the transaction with the primary keys of both tables, `Abandon` a
handler that dies. `query_detections` filters in two places as the code does
(the database, then the zone in Python); `detection_matches` is the service's
own reference predicate.

`Tracks` is `stitch_tracks` and `classify_scene_events` frame after frame:
prediction, candidates of the same class above the gate, greedy choice in
order of confidence, update or new track, retirement; then histories and
events. `Frame` is one call of each; which events the alert service takes is
left open. Nothing in `src/` but tests calls these functions: that a driver
hands them consecutive frames is an assumption. No code joins the store and
the stitcher, so `Vision` runs one or the other, not their product.

### Pages, Planner, AlertFeed, LiveViews, Replay, Dashboard

The dashboard links its surfaces nowhere to one another, so every page is a
document of its own: `LoadPage` discards the state, calls, sockets and timers
of the page left, and only local storage survives. Answers and pushes come in
any order. What they hold: of the alert service, the rows its calls save (see
below); of a transmission, any set of conflicting segments, acceptance or
failure; of telemetry, any drone and time stamp, in any order; of the drone
lists, any drones with any status, as they were when the page asked; of Vision
AI, the stored detections of the range. The reducers carry the names of
`lib/*-state.ts`.

* `Planner`: `draft`, `drawing`, `conflicts`, `calls`, `retryTimer`, `storage`.
  `setDraft` is a state update with the effect that stores it; `transmit` is the
  closure of one render, so `RetryTimerFires` sends the route it was made with.
  The mount writes twice: the effects of its first commit read the stored draft
  and then store that commit's empty one (`PlannerLoad`), and only the next
  render shows and stores what was read (`Restore`); in between it is in
  `restored` alone. `interrupted` (*history*) says that a page was left there.
  React's replay of mount effects in development is not modelled: it always
  loses the draft (see the findings).
* `AlertFeed`: the service's alerts, the pushes on their way, the feed, the
  list call, one acknowledge call per alert, the display guard of each row.
  The service's rows change as `escalation.service.ts` changes them, with what
  the calls do between their awaits summed up: a call saves a step of a row it
  has *loaded*, which is any row of the alert's life and not only the present
  one, so a stale sweep takes an acknowledged row back to OPEN or ESCALATED and
  a stale acknowledgement lowers a level. A row stays OPEN until its chain ends.
  CLOSED rows are those the seed tool writes. A save is followed by its push or
  not at all (`missed`, *history*).
* `LiveViews`: the fleet map and the telemetry panels. A sample is its time
  stamp, what it measured is `Reading[ts]`; `heard` is *history*.
* `Replay`: form, query, detections, handle. Instants are kept `Steps` times
  too large and boxes twice, so that all stays whole.

## 4. Runs

| run | question | bounds and why they suffice |
|---|---|---|
| `escalation_serial` | do the documented promises hold when calls do not overlap, though they die half-way, the rule changes and a worker catches up late? | two alerts to raise, one seeded CLOSED, chains of 1 and 2 contacts, intervals 0 and 1, clock 0..2: an alert reaches the end of its chain, is due twice in one sweep, is acknowledged before, between and after levels |
| `escalation_overlap` | what is left when create, acknowledge and a sweep interleave at every await? | two alerts so one sweep holds two entries, an acknowledgement and a sweep in flight |
| `escalation_ack_lost` (violation) | is an acknowledged alert final? | one alert is enough |
| `telemetry_ingest` | is every sample handed over once and accounted for, over damaged frames, failing inserts, shutdown and restart, and is what is stored found again by a query? | two drones on two connections (both may be of one drone), batch of 2, window of 2, five inputs, one restart: a batch in flight, another full behind it and a partial one left for stop(); a frame damaged for each check of parseFrame; queries that reach the three relations, with starts on and off a granule and ends on and off the bucket grid |
| `telemetry_window` (violation) | is the anomaly window ascending? | one drone, two connections |
| `gateway` | quota, Retry-After, expiry, grants and answers under overlapping requests and a late Redis | two requests in flight, four in all, of five kinds; limits 1 and 2, windows of two seconds in half-second ticks, three windows |
| `dispatch` | is each configured entry reported once and truthfully, with the fallback the code describes? | lists with a repeat, two targets of one type, an unknown type, in-app twice, none; three attempts |
| `fleet` | events against rows, with overlapping calls, overlapping flushes, a failing transport and a crash | one drone, two calls in flight of three, two components that become due together or one after the other, two flushes |
| `missions` | numbering, validity, export safety and zones under overlapping edits | one mission, two calls in flight, three versions; plans that are unsorted, single-point, with a repeated number, and too high; template parameters that are right, out of range, no number, missing, and placeholders; a concave zone that cuts the route, a bow tie, an open ring, one that folds back, one that visits a corner twice, one with an edge that is a point; accepted zones are compared on all 625 segments of a 5 by 5 grid |
| `missions_overwrite` (violation) | are stored versions immutable? | two edits that rename |
| `vision` | is a batch stored once however it is sent; do queries, tracks and events agree with what was seen? | three concurrent requests of five batches (own ids, service ids, a shared id, a repeated id, an invalid one), 48 queries; three frames of up to two of four sightings, one or two time units apart, a track surviving two |
| `dashboard` | does the planner keep the work; does the feed, once it has caught up, show no alert behind its stored row, and never step back; does a marker show the newest status and sample, and are the panels' series ascending and bounded (a late history may replace newer samples there); does the replay show the range asked for and all of it? | four edits, three waypoints, two calls in flight; one alert of two levels with two pushes on their way, so that one overtakes the other and a sweep and an acknowledgement save over each other; two drones, three time stamps, series of two; four detections, five handle positions, boxes at all quarter turns |

Runs that say `CHECK_DEADLOCK FALSE` use up a bounded number of inputs and then
stop. In the escalation runs the clock and rule edits keep going, so deadlock
stays checked.

**What the violations say.** (1) A sweep saves the whole row it loaded two
awaits ago, which undoes an acknowledgement. (2) The anomaly window receives
frames the gate then rejects. (3) Two edits of a mission can draw one version
number and the second rewrites the first.

**What the models turned up besides.** `findings` in `PROJECT.json` has the
quotations. Of the services: nothing calls the sweep, `createAlert` or
`evaluateEvent`; a failed publish is not followed by an immediate flush; the
failed-channels set is never read; the gateway strips a prefix that is part of
the missions', alerts' and telemetry's own paths (`OnlyTwoUpstreamsAnswer`
states what is left); a version check without a condition on the save; a
built-in template of one point; a history query that drops the sample at the
very end of its range. Of the vision service and the dashboard: a creeping
vehicle counts as stopped; a submitted draft is stored again and locks the
planner; the retry timer sends an old route; the map's seed leaves out the
metadata of drones already heard; long replay ranges have gaps; the in-app
events have two sets of names; an escalation step does not tell the dispatcher
whom to contact; the planner's mount overwrites the stored draft with an empty
one before it stores it again, so a page left in between loses it. Where the
model says less than a comment promises (a margin, a premise), the property's
comment says so. Proving `RingTestExact` showed an error of the model itself,
since corrected: `Simple` admitted a ring that visits a corner twice, which the
code refuses.

## 5. Fairness

* **Escalation** (`SerialFairSpec`): weak fairness of `Clock` and of `Resume`
  (an await ends); strong fairness of starting a sweep and of its read, save
  and cancel steps. No module of the service calls `tickEscalations`; the
  strong fairness of `SweepBegin` *is* the assumption that some worker does,
  for ever, and that not every attempt fails. No fairness for creates,
  acknowledgements, rule edits or aborts.
* **Telemetry** (`FairSpec`): weak fairness of `Drain` only - the promise chain
  goes on and an insert answers, well or badly. None for drones, shutdown,
  crash or restart.
* **Dispatch**: weak fairness of the steps of a call (sends and delays end).
* **Fleet**: weak fairness of calls and of flushes (the interval timer), strong
  fairness of a delivery: the transport does not fail for ever. None for a
  crash.
* **Gateway, Missions, Vision, Dashboard**: none; their properties are safety
  properties and action properties. What a stuck button or a pending draft
  waits for is stated as an invariant instead: a call that will end it is in
  flight (`FeedIsHonest`, `WorkIsKept`).

## 6. What is proved

40 theorems in eight modules. All but two, which are about the geometry of
a zone, follow one pattern: an invariant that is
inductive, `Init => IInv`, `IInv /\ [Next]_vars => IInv'` (a lemma per action
or per conjunct), and `IInv => Property`. They hold for every value of the
constants the named assumption of the module admits.

### Escalation

`EscalationProofs.tla`, for every set of alerts, users and rules, every number
of calls in flight and every bound, from `EscalationAssumption` alone
(`Rules` is a nonempty set of records of naturals, `Users` is nonempty, null
values are not members, bounds are naturals):

* `TypeCorrect == Spec => []TypeOK`
* `RowsWellFormed == Spec => []RowShape` - however calls interleave, a stored
  row is one that some serial history could have stored.
* `TimersHaveRows == Spec => []TimerHasRow` - no timer without a row.

None is inductive alone: a call that resumes writes what it read awaits ago, so
what the *calls hold* must be bounded too. `IInv` adds that every row in the
memory of an acknowledge or a sweep satisfies the same `RowOK` as stored rows
(`AckOK`, `SweepOK`), that the step a sweep is about to take or reschedule is in
range, and that the alert it holds exists. The argument is then local: rows
only become present, never absent (`RowsKept`), so every call that an action
does not touch keeps its conjunct, and each action is checked for the call that
takes it (`CreateStep`, `AckStep`, `SweepStep`). `DecideTickType` states what
`decideTick` may answer at each level of a chain. `InitIInv`, `NextIInv` and
`Inductive` put it together.

`RowShape` survives the lost update of `escalation_ack_lost`: the overwritten
row is well formed and wrong. That is why `AckIsFinal` is a separate property,
and under `Spec` no theorem claims it. The second part of the module proves
what the documentation promises for calls that do not overlap, from the same
assumption:

* `AckFinalWhenSerial == SerialSpec => []AckIsFinal`
* `AckedStaysQuiet == SerialSpec => AckedNotNotified` (an action property)
* `SerialImplementsLifecycle == SerialSpec => ImplementsLifecycle` (refinement)
* `OpenStaysWatched == SerialSpec => []OpenIsWatched` - an OPEN alert has a
  timer, or a call that is about to arm one, or its creation died in between.

The inductive invariant `SerialInv` adds to `IInv` that at most one acknowledge
or sweep is in flight (`OneCall`) and, therefore, that what it is about to save
is one step of the life cycle away from what is stored *now* (`AckFresh`,
`SweepFresh`): exactly the fact that overlapping calls destroy. The refinement
follows step by step: `CreateSave` is `Raise`, `AckSave` is `Acknowledge`,
`SweepSave` is `Escalate` or `Exhaust` under some rule, and nothing else writes
rows. Since a step of `SerialNext` is one of `Next`, the proof reuses
`NextIInv`. `OpenStaysWatched` needs in addition to know *why* a sweep is about
to cancel a timer: because the row it read was not OPEN, or because what it has
saved is not (`SweepDecided`, in `WatchInv`).

The third part says what is left when creations,
acknowledgements, sweeps and rule edits interleave freely:

* `NoStepSkipped == Spec => []StepsAnnounced`
* `StepsStayInOrder == Spec /\ []OneSweep => []StepsInOrder`
* `DueOnlyMovesForward == Spec /\ []OneSweep => DueMovesForward`

`StepsInOrder` is `StepsAscend`, the levels handed to the dispatcher ascend, and
`StepsAnnounced`, each level up to that of the row was handed over, is about to
be, or was lost with a sweep that died between its save and its dispatch: such
a step is never made up for. The second needs no hypothesis. `AnnounceInv` says
that what a call has loaded is announced up to its level (`AckBehind`,
`SweepBehind`), so a stale save takes no row past what was announced, and an
announcement is never undone (`AnnouncedStays`).

The hypothesis `OneSweep` (no two sweeps in flight) is what the run has by its
single `Sweeps` element, and without it both are false: nothing in the code
stops two sweeps from taking the same step twice. The stored level itself may go
back when a stale acknowledgement is saved, so the invariant bounds the level
only of OPEN alerts (`LevelAhead`), and of what the sweep has loaded
(`SweepAhead`); for the timers, that the entries a sweep holds are still the
ones in the sorted set or were removed (`SweepDue`).

### Gateway

`GatewayProofs.tla`, for every set of requests that reach an upstream, every
limit, window length, clock resolution and number of overlapping requests:

* `QuotaHolds == Spec => []WindowQuota`
* `RefusalsEnd == Spec => []LockoutEnds`
* `ForwardsAreGranted == Spec => []ForwardedWasGranted`
* `TwoUpstreamsAnswer == Spec => []OnlyTwoUpstreamsAnswer`

The quota rests on the expiry: a counter that exists outlives the window of its
key (`CounterOK`), so inside the window it was never dropped and is at least
the number granted. That `Retry-After` leads past the window whatever was
rounded is arithmetic on `\div` (`WindowMonotone` and its neighbours). Grants
follow from the shape of `matchRoute` (`PermitsGrants`), and the last theorem
from the whole permission table against the prefix rewrite.

### Telemetry

`TelemetryProofs.tla`, for every set of drones, connections and wires, every
batch and window size, from `TelemetryAssumption`. That assumption includes
what a CRC is for: where it matches and the values are finite, they are those
some drone sent (the time need not fall on a whole millisecond).

* `DeliveredOnce == Spec => []HandedOverOnce`
* `CountersAddUp == Spec => []FramesAccountedFor`
* `StoredSoundly == Spec => []RowsWellFormed`
* `GpsLossOnce == Spec => GpsLossReportedOnce` (an action property)
* `HistoryStaysConserved == Spec => []HistoryConserves`

`HandOver` says where every accepted sample is: the sequence of what was
handed over, followed by the batch in flight and the buffer, is the sequence of
what was accepted. The appends and splits of the code keep that equation.
`Ascending` ties the accepted samples to the gate, `Stored` the rows to the
readings sent (`ParsedIsSent`: parsing undoes the encoding and the
division by 1000), `Remembered` the last anomaly report to the last window.

`HistoryStaysConserved` needs of the invariant only that the rows are finitely
many and include the seeded ones (`Kept`); the rest is about the query, for
every set of rows. The buckets of a range are at most one more than were asked
for (`WidthCovers`), and a row of an aggregate is at most a granule earlier
than the samples in it (`Granules`). Buckets come in ascending order, so the
one in place *i* has number *i* - 1 or a later one (`PlaceBounded`): what the
limit cuts off begins at the end of the range, and every sample the range owes
is in a bucket that stays (`KeptByCut`). Buckets hold disjoint samples, so
their counts add up to the samples covered (`Tallied`), which include the
`sure` ones and are among the `near` ones. Both are arguments by least
counterexample. `HistoryAssumption` says that units and limits are positive.

### Fleet

`FleetProofs.tla`, for every finite set of components and calls, every set of
flushes and thresholds. `FleetAssumption` asks that the default threshold is
not 0 (a new component is not due) and that the names of places differ.

* `EventsInOnePlace == Spec => []EachEventOnce`
* `EventsTellRows == Spec => []EventsMatchRows`

The first is an invariant about a partition (`OnePlace`), with one lemma for
what every action does: move some events to another place, or put new ones in
one (`Moved`, `IssueStep`). The second needs that versions do not run away from
the calls: a row's version plus the number of updates under way is at most the
calls begun (`Versions`), and that a reading a call is comparing with had its
due components announced (`Due`), however stale it is.

### Missions

`MissionsProofs.tla`, for plans, templates and zones of any size.
`MissionsAssumption` and `TemplatesAssumption` say that plans are nonempty
lists of waypoints on the grid, that the rings of zones are lists of
whole-number points, and that the templates' values are numbers.

* `VersionsStayContiguous == Spec => []VersionsContiguous`
* `StoredStaysFlyable == Spec => []StoredFlyable`
* `ExportsStaySafe == Spec => []ExportsAreSafe`
* `SegmentTestExact`: `segmentsIntersect` answers for two segments just when no
  axis separates them.
* `RingTestExact`: `isSelfIntersecting` refuses a closed ring just when it is not
  simple.
* `BoundariesStaySimple == Spec => []BoundariesSimple`, the part of `ZonesSound`
  about boundaries.

`Numbered` and `Flyable` hold of what is stored; `RequestOK` says of each
request in flight what it has established so far: the merged plan is flyable,
the version before the number it drew is stored, the segments it has queried
touch no zone it knew. `ExportedOK` then speaks of the exports. The sort needs
an argument of its own: a contiguous plan has its numbers pairwise different (a
map from a finite set onto one as large, `NumbersDiffer`), hence an order
exists (`OrderExists`) and it puts each waypoint at the place of its number
(`AscendingIsIdentity`, `SortPlaces`), by cardinalities instead of induction.
`RoundTrip` reads back what the encoder wrote, offset by offset.

The geometry is proved from the arithmetic of integers alone, for segments
anywhere in the plane of which at most one is a point. If the code finds that
they meet, their shadows meet in every direction (`MeetingNotApart`): where two
lines cross, the point they share is an average of the ends of either segment,
with the orientations as weights (`Crossing`, `Averages`). If it finds that
they do not, a gap is shown on one of the axes that `Separated` tries: across
the segment that has both ends of the other on one side (`SameSide`), or, when
all four points are on one line, along it (`LineApart`). Products of unknowns
are named and hidden one by one, so that each step is linear for the prover. A
ring follows edge by edge: with a common end two edges overlap beyond it unless
each has its other end off the other (`CornerPair`), and an edge that is a
point makes its two neighbours clash (`NoPointEdge`), which is why the code
need not look for such edges.

### Dashboard

`DashboardProofs.tla`, about pages as parts of the whole dashboard:

* `FeedStaysHonest == Spec => []FeedIsHonest`
* `FeedOnlyAdvances == Spec => FeedNeverRegresses` (an action property)
* `ReplayStaysInRange == Spec => []ReplayShowsRange`
* `LiveViewsStayCurrent == Spec => []LiveViewsCurrent`
* `PlannerKeepsWork == Spec => []WorkIsKept`

`FeedInv` says of each alert that its button agrees with its call (`ButtonOK`,
`AnswerOK`), and where the row stored last is unless its push was lost: on
screen or overtaken there by a later state (`UpToDate`), on its way as a push
(`PushComing`), or unchanged since the page asked for the list (`ListComing`);
`Told` is the three together, and what `FeedIsHonest` says of a page that has
caught up is what is left of it when nothing is under way. It does not ask that
the service's rows only advance, which they do not (`escalation_ack_lost`): a
save that takes a row back leaves the feed ahead, never behind. That no push
and no answer takes a CLOSED row back is `ClosedOK`. A step of another page
leaves the feed alone or resets it.

`ReplayInv` says that what is loaded answers the query that was asked, and that
a query in flight is a range. The rest is arithmetic: a set of integers with a
bound has an extremum (`LeastMember`, `GreatestMember`, from the
well-foundedness of the naturals), the handle's instant lies between the
timeline's bounds (`HandleOnTimeline`), the nearest position to an instant is
at most half a step away (`NearestPosition`), and opposite corners of a box
cancel (`CornersOpposite`). The detections are assumed to have whole-number
time stamps and boxes at quarter turns, as in the model. `MapInv` is
`MapShowsLatest` with the types: a drone without a marker was not heard of, so
the list that answers late may fill it in. `PanelsInv` says that every series
is a bounded ascending sequence of time stamps (`Series`), which appending a
fresh sample, dropping the oldest and seeding from a sorted answer all keep,
and that the history awaited is that of the selected drone. The sparkline is
drawn in a box with room for `Capacity` steps of at least one; that its points
stay apart and inside is arithmetic on `\div`.

`PlannerInv` says which pages have what: only the planner has a draft, calls
and a retry timer, and its draft is what storage holds. The route of the last
edit is in `held` - what the mount has read while it is not shown yet, what
storage has otherwise - unless a mount was interrupted since. A stored draft that is pending is
loaded as one that is not (`loadDraft`), which is why no draft is ever pending
without a call. Numbering is a lemma per editing operation: each yields
waypoints numbered 0, 1, ... whatever it is given.

### Dispatch

`DispatchProofs.tla`, for every channel list, retry policy and number of calls:

* `TypeCorrect == Spec => []TypeOK`
* `FanOutExact == Spec => []ExactFanOut`
* `FallbacksInAppWorks == Spec => []FallbackWhileInAppWorks`
* `ReportsTrue == Spec => []ReportsAreTrue`

The fan-out is a loop that skips what it has seen, so its result is first
characterised for every list: each entry stands once, at the place given by the
number of first occurrences before it. The induction this takes is over the
length of a list that is fixed, so it is an argument by least counterexample
(`LeastMember`). The invariant has a part per phase: in the first a result
stands for each channel passed and `todo` is the rest of the fan-out
(`FirstPhase`); in the second `todo` is what is left of the failed primaries
from some place on, and the fallbacks so far are those owed up to that place,
fewer only once in-app is down (`SecondPhase`). `SentOK` bounds the sends by
the results and the attempts of the delivery under way.

### Vision

`VisionProofs.tla`, about `Detections` as part of `Vision`:

* `IngestedOnce == Spec => []IngestOnce`
* `QueriesExact == Spec => []QueryExact`

`BatchesAssumption` says what an idempotency key is for: who sends a key again
sends the same batch. The invariant says what a handler between look-up and
commit holds (the ids of its batch, one per detection) and that every entry of
the ledger has its rows; the primary keys do the rest, for any number of
handlers that hold the same key at once. `QueriesExact` needs that a finite set
with a strict total order is listed by `inOrder` with each member once, each
before the next (`PlacesInOrder`, `Sorted`, by cardinalities of the sets of
predecessors), and that `kept` keeps exactly the places asked for, in order
(`Filtered`). That ids are unique, an invariant of the store, is what makes
time and id a total order of its rows.

* `TracksStaySound == Spec => []TracksSound`
* `EventsStayFounded == Spec => []EventsHaveEvidence`

`TracksAssumption` asks for sightings with whole-number boxes, positive
intervals and at most nine detections of a frame. The greedy assignment is a
loop over a list that is fixed, and what it keeps is proved turn by turn
(`Associated`), by least counterexample again. `TracksIInv` says that every
active track is as it was last seen, that frames ascend in time, and that every
sighting of a track continues an earlier one within the retirement age, one
frame included. The events are those of the tracks and the history as they now
are (`EventsOK`), and the path a track is judged by is the list of all its
recorded sightings in order of time (`Trail`).

## 7. What is only model-checked

* All liveness properties (the prover does not handle fairness and ENABLED).
* That the even-odd rule with the touching test agrees with the convex parts of
  a zone (`Agreeing`, the rest of `ZonesSound`): for concave rings this is the
  Jordan curve theorem for polygons, an induction over the ring.
* The refinement of `AlertLifecycle` and `AckIsFinal` where calls overlap are
  false (`escalation_ack_lost`), as are immutable versions
  (`missions_overwrite`) and ascending windows (`telemetry_window`).

Invariants that only concern constants of the run (the geometry of every zone,
the queries of every set of rows) are checked in the states that reach them:
`ZonesSound` when a zone is accepted, `HistoryConserves` on every set of rows
the ingest can store.

## 8. What is not modelled

* Byte offsets, JSON, SQL text, JWT cryptography, logging, trace headers, floats
  and their rounding: coordinates, confidences and readings are whole numbers.
* Health and readiness endpoints and OpenAPI aggregation: no state of their own.
* Alert analytics, rule matching: reads and pure filters of one pass.
* The load-test harness, the seed tool's generators and writers, migrations,
  compose files: tools and declarations, no behaviour of the system.
* More than one instance of a service. The code has no cross-instance claim
  anywhere (see the hazards on overlapping sweeps and version checks).
* NaN and other non-numbers from configuration: a policy such as
  `ALERT_DISPATCH_MAX_ATTEMPTS=many` becomes NaN and no attempt is made.
* The browser: map tiles, rendering, React's batching beyond "effects run after
  the update"; the socket library's reconnection, except that pushes are lost.
* Detections posted to tracks: no code connects them.
