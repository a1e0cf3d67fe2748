------------------------------- MODULE Fleet --------------------------------
(***************************************************************************)
(* The fleet registry: drones and their component usage                    *)
(* (drones/fleet-registry.service.ts, typeorm-drone-store.ts,              *)
(* maintenance.ts) and the publisher that announces their changes          *)
(* (events/resilient-event-publisher.ts).                                  *)
(*                                                                         *)
(* Requests overlap at every await.  An update reads the drone twice, once *)
(* in the service and once in the store, and writes the second reading     *)
(* back with its changes; usage is read, added to and written back.  An    *)
(* event that cannot be delivered waits in memory for the flush timer,     *)
(* whose flushes may overlap when deliveries are slow.                     *)
(***************************************************************************)
EXTENDS Integers, Sequences, FiniteSets

CONSTANTS
  Drones,      \* serial numbers; a drone is known by its serial number
  Statuses,    \* DRONE_STATUS_VALUES
  Models,      \* values of the columns other than status
  Components,  \* maintenance components
  Deltas,      \* usage increments, negative ones are corrections
  Thresholds,  \* thresholds a request may set; the first readings use Default
  Default,     \* DEFAULT_THRESHOLDS
  Calls,       \* service calls that may be in flight together
  Flushes,     \* flushes that may be in flight together
  MaxCalls,    \* bound on the calls begun
  MaxCrashes   \* bound on process crashes

NoVersion == 0   \* no version in the request
Unset     == "unset"

ASSUME FleetAssumption ==
  /\ Deltas \subseteq Int
  /\ Thresholds \subseteq Nat
  /\ Default \in Nat \ {0}   \* a component never used is not due
  /\ Unset \notin Statuses \cup Models
  /\ IsFiniteSet(Components) /\ IsFiniteSet(Calls)
  /\ Calls \cap Flushes = {}
  /\ {"queue", "delivered", "lost"} \cap (Calls \cup Flushes) = {}
  /\ MaxCalls \in Nat /\ MaxCrashes \in Nat

VARIABLES
  drone,      \* drone[d]: row of drones, version 0 when there is none
  lifecycle,  \* lifecycle[d]: row of component_lifecycles, or NoLifecycle
  call,       \* call[k]: the service call k
  queue,      \* ResilientEventPublisher.queue
  flush,      \* flush[f]: the items a flush has spliced off the queue
  delivered,  \* ids of the events the transport has accepted
  begun, crashes,
  issued,     \* history: the events issued, an event's id is its index
  lost,       \* history: ids of events a crash took with it
  stored      \* history: the <<drone, version, status>> rows ever stored

vars == <<drone, lifecycle, call, queue, flush, delivered, begun, crashes,
          issued, lost, stored>>

store == <<drone, lifecycle, stored>>
publisher == <<queue, flush, delivered, lost>>

-----------------------------------------------------------------------------
NoDrone == [version |-> 0, status |-> Unset, model |-> Unset]

NoLifecycle == [present |-> FALSE, used |-> [c \in Components |-> 0], limit |-> Default]

NoChange == [status |-> Unset, model |-> Unset]

Idle == [pc |-> "idle", drone |-> Unset, expected |-> NoVersion, changes |-> NoChange,
         previous |-> NoDrone, entity |-> NoDrone, base |-> NoLifecycle, events |-> <<>>]

clampNonNegative(n) == IF n < 0 THEN 0 ELSE n

(* maintenance.ts: the components at or above their threshold. *)
evaluateMaintenance(l) == {c \in Components : l.used[c] >= l.limit}

enter(k, r) ==
  /\ call[k].pc = "idle" /\ begun < MaxCalls
  /\ begun' = begun + 1
  /\ call' = [call EXCEPT ![k] = r]

goto(k, r) == call' = [call EXCEPT ![k] = r]

(* The set as a sequence, in some fixed order. *)
seqOf(S) ==
  CHOOSE s \in [1..Cardinality(S) -> S] : \A i, j \in DOMAIN s : i # j => s[i] # s[j]

(* The events are issued and call k goes on to publish them in turn. *)
issue(k, r, events) ==
  /\ issued' = issued \o events
  /\ goto(k, IF events = <<>> THEN Idle
             ELSE [r EXCEPT !.pc = "publish",
                            !.events = [i \in 1..Len(events) |-> Len(issued) + i]])

-----------------------------------------------------------------------------
(* createDrone: is the serial number free, and then the insert, which the   *)
(* unique index refuses when another request was faster.                    *)
CreateCheck(k, d, s) ==
  /\ IF drone[d].version > 0
     THEN enter(k, Idle)
     ELSE \E m \in Models :
            enter(k, [Idle EXCEPT !.pc = "insert", !.drone = d,
                        !.entity = [version |-> 1, status |-> s, model |-> m]])
  /\ UNCHANGED <<store, publisher, crashes, issued>>

CreateInsert(k) ==
  LET d == call[k].drone
  IN  /\ call[k].pc = "insert"
      /\ IF drone[d].version > 0 THEN UNCHANGED <<drone, stored>>
         ELSE /\ drone'  = [drone EXCEPT ![d] = call[k].entity]
              /\ stored' = stored \cup {<<d, 1, call[k].entity.status>>}
      /\ goto(k, Idle)
      /\ UNCHANGED <<lifecycle, publisher, begun, crashes, issued>>

-----------------------------------------------------------------------------
(* updateDrone; decommissionDrone is the update to "decommissioned" that    *)
(* carries no version.                                                      *)
UpdateFind(k, d, changes, expected) ==
  /\ IF drone[d].version = 0 THEN enter(k, Idle)
     ELSE enter(k, [Idle EXCEPT !.pc = "load", !.drone = d, !.changes = changes,
                                !.expected = expected, !.previous = drone[d]])
  /\ UNCHANGED <<store, publisher, crashes, issued>>

changed(row, changes) ==
  [row EXCEPT !.status = IF changes.status = Unset THEN @ ELSE changes.status,
              !.model  = IF changes.model = Unset THEN @ ELSE changes.model]

(* The store's own reading, its version check and the changes to the entity. *)
UpdateLoad(k) ==
  LET r == call[k]
  IN  /\ r.pc = "load"
      /\ goto(k, IF r.expected # NoVersion /\ r.expected # drone[r.drone].version
                 THEN Idle
                 ELSE [r EXCEPT !.pc = "save",
                                !.entity = changed(drone[r.drone], r.changes)])
      /\ UNCHANGED <<store, publisher, begun, crashes, issued>>

sameColumns(a, b) == a.status = b.status /\ a.model = b.model

statusEvent(r, saved) ==
  [kind |-> "status", drone |-> r.drone, previousStatus |-> r.previous.status,
   status |-> saved.status, version |-> saved.version]

(***************************************************************************)
(* Repository.save writes the columns in which the entity differs from the *)
(* stored row, without a condition on the version read.  It increments the *)
(* version of the row; when the row was written in between, whether it     *)
(* does or writes the entity's own version back is left open.              *)
(***************************************************************************)
UpdateSave(k) ==
  LET r   == call[k]
      row == drone[r.drone]
  IN  /\ r.pc = "save"
      /\ \E v \in IF sameColumns(r.entity, row) /\ r.entity.version = row.version
                  THEN {row.version}
                  ELSE {row.version + 1} \cup ({r.entity.version} \ {row.version}) :
           LET saved == [r.entity EXCEPT !.version = v]
           IN  /\ drone'  = [drone EXCEPT ![r.drone] = saved]
               /\ stored' = stored \cup {<<r.drone, v, saved.status>>}
               /\ issue(k, r, IF saved.status # r.previous.status
                              THEN <<statusEvent(r, saved)>> ELSE <<>>)
      /\ UNCHANGED <<lifecycle, publisher, begun, crashes>>

-----------------------------------------------------------------------------
(* recordComponentUsage *)

UsageFind(k, d) ==
  /\ enter(k, IF drone[d].version = 0 THEN Idle
              ELSE [Idle EXCEPT !.pc = "usage", !.drone = d])
  /\ UNCHANGED <<store, publisher, crashes, issued>>

UsageLoad(k) ==
  /\ call[k].pc = "usage"
  /\ goto(k, [call[k] EXCEPT !.pc = "record", !.base = lifecycle[call[k].drone]])
  /\ UNCHANGED <<store, publisher, begun, crashes, issued>>

(* Mutant: what was due before is judged by the new thresholds. *)
newlyDueLimit(base, next) ==
  evaluateMaintenance(next) \ evaluateMaintenance([base EXCEPT !.limit = next.limit])

newlyDue(base, next) ==
  evaluateMaintenance(next) \ evaluateMaintenance(base)

(* The counters read are added to and written back; components that were    *)
(* not due at the reading and are now get an event each.                    *)
UsageSave(k, delta, limit) ==
  LET r    == call[k]
      next == [present |-> TRUE, limit |-> limit,
               used |-> [c \in Components |-> clampNonNegative(r.base.used[c] + delta[c])]]
      due  == seqOf(newlyDue(r.base, next))
  IN  /\ r.pc = "record"
      /\ lifecycle' = [lifecycle EXCEPT ![r.drone] = next]
      /\ issue(k, r, [i \in 1..Len(due) |->
                        [kind |-> "maintenance", drone |-> r.drone, component |-> due[i]]])
      /\ UNCHANGED <<drone, stored, publisher, begun, crashes>>

UsageSaveAny(k) ==
  \E delta \in [Components -> Deltas], limit \in Thresholds \cup {call[k].base.limit} :
    UsageSave(k, delta, limit)

-----------------------------------------------------------------------------
(* ResilientEventPublisher.publish: deliver, or queue for the timer. *)

published(k) ==
  goto(k, IF Len(call[k].events) = 1 THEN Idle
          ELSE [call[k] EXCEPT !.events = Tail(@)])

PublishOk(k) ==
  /\ call[k].pc = "publish"
  /\ delivered' = delivered \cup {Head(call[k].events)}
  /\ published(k)
  /\ UNCHANGED <<store, queue, flush, lost, begun, crashes, issued>>

PublishFails(k) ==
  /\ call[k].pc = "publish"
  /\ queue' = Append(queue, Head(call[k].events))
  /\ published(k)
  /\ UNCHANGED <<store, flush, delivered, lost, begun, crashes, issued>>

(* Mutant: the queue is copied and cleared only by what succeeds. *)
FlushBeginCopies(f) ==
  /\ flush[f] = <<>> /\ queue # <<>>
  /\ flush' = [flush EXCEPT ![f] = queue]
  /\ UNCHANGED <<store, call, queue, delivered, lost, begun, crashes, issued>>

(* The timer fires: everything queued is spliced off. *)
FlushBegin(f) ==
  /\ flush[f] = <<>> /\ queue # <<>>
  /\ flush' = [flush EXCEPT ![f] = queue]
  /\ queue' = <<>>
  /\ UNCHANGED <<store, call, delivered, lost, begun, crashes, issued>>

FlushDelivers(f) ==
  /\ flush[f] # <<>>
  /\ delivered' = delivered \cup {Head(flush[f])}
  /\ flush' = [flush EXCEPT ![f] = Tail(@)]
  /\ UNCHANGED <<store, call, queue, lost, begun, crashes, issued>>

(* Mutant: an item that fails again is not queued again. *)
FlushFailsForGood(f) ==
  /\ flush[f] # <<>>
  /\ flush' = [flush EXCEPT ![f] = Tail(@)]
  /\ UNCHANGED <<store, call, queue, delivered, lost, begun, crashes, issued>>

(* maxRetries is not set where the publisher is made: it never gives up. *)
FlushFails(f) ==
  /\ flush[f] # <<>>
  /\ queue' = Append(queue, Head(flush[f]))
  /\ flush' = [flush EXCEPT ![f] = Tail(@)]
  /\ UNCHANGED <<store, call, delivered, lost, begun, crashes, issued>>

-----------------------------------------------------------------------------
elements(s) == {s[i] : i \in 1..Len(s)}

undelivered ==
  elements(queue) \cup (UNION {elements(flush[f]) : f \in Flushes})
    \cup (UNION {elements(call[k].events) : k \in Calls})

(* The database rejects what a call awaits, and the request fails. *)
Abort(k) ==
  /\ call[k].pc \in {"insert", "load", "save", "usage", "record"}
  /\ goto(k, Idle)
  /\ UNCHANGED <<store, publisher, begun, crashes, issued>>

(* The process dies: calls, queue and flushes are gone. *)
Crash ==
  /\ crashes < MaxCrashes
  /\ crashes' = crashes + 1
  /\ call'  = [k \in Calls |-> Idle]
  /\ queue' = <<>>
  /\ flush' = [f \in Flushes |-> <<>>]
  /\ lost'  = lost \cup undelivered
  /\ UNCHANGED <<store, delivered, begun, issued>>

Init ==
  /\ drone     = [d \in Drones |-> NoDrone]
  /\ lifecycle = [d \in Drones |-> NoLifecycle]
  /\ call      = [k \in Calls |-> Idle]
  /\ queue     = <<>>
  /\ flush     = [f \in Flushes |-> <<>>]
  /\ delivered = {}
  /\ begun     = 0
  /\ crashes   = 0
  /\ issued    = <<>>
  /\ lost      = {}
  /\ stored    = {}

Begin(k) ==
  \E d \in Drones :
    \/ \E s \in Statuses : CreateCheck(k, d, s)
    \/ \E s \in Statuses \cup {Unset}, m \in Models \cup {Unset},
         v \in {NoVersion, drone[d].version} :
         UpdateFind(k, d, [status |-> s, model |-> m], v)
    \/ UsageFind(k, d)

Resume(k) ==
  \/ CreateInsert(k) \/ UpdateLoad(k) \/ UpdateSave(k)
  \/ UsageLoad(k) \/ UsageSaveAny(k)
  \/ PublishOk(k) \/ PublishFails(k) \/ Abort(k)

Flush(f) == FlushBegin(f) \/ FlushDelivers(f) \/ FlushFails(f)

Next ==
  \/ \E k \in Calls : Begin(k) \/ Resume(k)
  \/ \E f \in Flushes : Flush(f)
  \/ Crash

Spec == Init /\ [][Next]_vars

(* Awaits end, the timer fires, and the transport does not fail for ever. *)
FairSpec ==
  /\ Spec
  /\ \A k \in Calls : WF_vars(Resume(k))
  /\ \A f \in Flushes : WF_vars(Flush(f)) /\ SF_vars(FlushDelivers(f))

-----------------------------------------------------------------------------
(* Properties *)

Row == [version : Nat, status : Statuses \cup {Unset}, model : Models \cup {Unset}]

Lifecycle == [present : BOOLEAN, used : [Components -> Nat], limit : Nat]

(* The type invariant. *)
TypeOK ==
  /\ drone \in [Drones -> Row]
  /\ lifecycle \in [Drones -> Lifecycle]
  /\ \A k \in Calls :
       /\ call[k].pc \in {"idle", "insert", "load", "save", "usage", "record", "publish"}
       /\ call[k].previous \in Row /\ call[k].entity \in Row
       /\ call[k].base \in Lifecycle
       /\ elements(call[k].events) \subseteq 1..Len(issued)
  /\ elements(queue) \subseteq 1..Len(issued)
  /\ \A f \in Flushes : elements(flush[f]) \subseteq 1..Len(issued)
  /\ delivered \cup lost \subseteq 1..Len(issued)

(* Where an event may be, and the ids of the events that are there. *)
Places == {"queue", "delivered", "lost"} \cup Flushes \cup Calls

place ==
  [x \in Places |->
     IF x = "queue" THEN elements(queue)
     ELSE IF x = "delivered" THEN delivered
     ELSE IF x = "lost" THEN lost
     ELSE IF x \in Flushes THEN elements(flush[x])
     ELSE elements(call[x].events)]

(***************************************************************************)
(* An issued event is in exactly one place: still to be published by its   *)
(* call, queued, spliced off by one flush, delivered, or lost in a crash.  *)
(* No overlap of flushes and publishes duplicates or drops one.            *)
(***************************************************************************)
EachEventOnce ==
  /\ TypeOK
  /\ \A i \in 1..Len(issued) :
       /\ \E x \in Places : i \in place[x]
       /\ \A x, y \in Places : i \in place[x] /\ i \in place[y] => x = y

(***************************************************************************)
(* Events and rows agree, although overlapping calls decide by stale reads *)
(* and overwrite each other.  A component whose stored counter is at or    *)
(* above its stored threshold has had a maintenance event issued.  And a   *)
(* status event tells what was really stored: the row had its status at    *)
(* its version, the previous one at some time, and the two differ.         *)
(***************************************************************************)
EventsMatchRows ==
  /\ \A d \in Drones :
       lifecycle[d].present =>
         \A c \in evaluateMaintenance(lifecycle[d]) :
           \E i \in 1..Len(issued) :
             issued[i].kind = "maintenance" /\ issued[i].drone = d /\ issued[i].component = c
  /\ \A i \in 1..Len(issued) :
       LET e == issued[i]
       IN  e.kind = "status" =>
             /\ <<e.drone, e.version, e.status>> \in stored
             /\ e.previousStatus # e.status
             /\ \E v \in 1..MaxCalls : <<e.drone, v, e.previousStatus>> \in stored

(* Every event that is issued is delivered, unless a crash takes it.        *)
EventsDelivered ==
  \A i \in 1..MaxCalls * Cardinality(Components) :
    Len(issued) >= i ~> i \in delivered \cup lost
=============================================================================
