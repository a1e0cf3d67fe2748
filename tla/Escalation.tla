----------------------------- MODULE Escalation -----------------------------
(***************************************************************************)
(* The acknowledgement and escalation engine of alert-notification         *)
(* (escalation.service.ts, escalation.logic.ts, escalation.timer.ts).      *)
(*                                                                         *)
(* Alert rows live in Postgres, due times in a Redis sorted set.  Every    *)
(* method of EscalationService is an async function: it runs up to an      *)
(* await, and other calls run before it resumes.  Each await that reads or *)
(* writes shared state is therefore an action of its own, and what the     *)
(* method has read so far is kept in the record of the call.               *)
(*                                                                         *)
(* An aborted call (the database or Redis rejects, or the process dies)    *)
(* just stops between two steps.  A crash of the process is the abort of   *)
(* every call in flight, one after the other.                              *)
(***************************************************************************)
EXTENDS Integers, Sequences

CONSTANTS
  Alerts,   \* alert ids
  Users,    \* who may acknowledge
  NoUser,   \* acknowledgedBy = null
  NoAlert,  \* a sweep that holds no entry
  Acks,     \* acknowledge calls that may be in flight together
  Sweeps,   \* tickEscalations calls that may be in flight together
  Rules,    \* the contents the owning rule may have: chain length, interval
  Seeded,   \* alerts the demonstration data set wrote CLOSED
  MaxCreate,\* bound: no alert is raised after this time
  MaxNow    \* bound on the clock

ASSUME EscalationAssumption ==
  /\ Rules \subseteq [chain : Nat, interval : Nat]
  /\ Rules # {}
  /\ Users # {}
  /\ Seeded \subseteq Alerts
  /\ NoUser \notin Users
  /\ NoAlert \notin Alerts
  /\ MaxCreate \in Nat
  /\ MaxNow \in Nat

VARIABLES
  alert,     \* alert[a]: the row of the alerts table
  due,       \* due[a]: score in alert:escalation:due, NoTime when absent
  rule,      \* the owning rule: [chain, interval]
  now,       \* the wall clock, in escalation-interval units
  arming,    \* arming[a]: due time createAlert is about to schedule
  ack,       \* ack[k]: the acknowledge call k
  sweep,     \* sweep[s]: the tickEscalations call s
  dispatched,\* dispatched[a]: the levels whose alert went to the dispatcher
  unsent,    \* history: unsent[a], the levels whose sweep died before that
  acked,     \* history: alerts whose acknowledge call has returned
  orphaned   \* history: alerts whose createAlert stopped before scheduling

vars == <<alert, due, rule, now, arming, ack, sweep, dispatched, unsent, acked, orphaned>>

-----------------------------------------------------------------------------
(* State *)

NoTime    == -1
NoContact == -1

Status == {"ABSENT", "OPEN", "ACKNOWLEDGED", "ESCALATED", "CLOSED"}

Row == [status : Status, level : Nat, by : Users \cup {NoUser}]

NoRow == [status |-> "ABSENT", level |-> 0, by |-> NoUser]

DueTimer == [alertId : Alerts, dueAt : Nat]

IdleAck == [pc |-> "idle", alertId |-> NoAlert, row |-> NoRow]

IdleSweep == [pc |-> "idle", now |-> 0, todo |-> {}, alertId |-> NoAlert,
              row |-> NoRow, contact |-> NoContact, nextDueAt |-> NoTime]

-----------------------------------------------------------------------------
(* escalation.logic.ts *)

ALLOWED_TARGETS ==
  [OPEN         |-> {"ACKNOWLEDGED", "ESCALATED", "CLOSED"},
   ESCALATED    |-> {"ACKNOWLEDGED", "CLOSED"},
   ACKNOWLEDGED |-> {"CLOSED"},
   CLOSED       |-> {}]

legalTransition(from, to) ==
  from = to \/ to \in ALLOWED_TARGETS[from]

(* Mutant: CLOSED alerts are acknowledged too and a second acknowledgement is applied. *)
decideAcknowledgeAlways(status) == "acknowledge"

decideAcknowledge(status) ==
  IF status = "ACKNOWLEDGED" THEN "noop"
  ELSE IF legalTransition(status, "ACKNOWLEDGED") THEN "acknowledge"
  ELSE "illegal"

(* Mutant: an off-by-one in the terminal test, `nextLevel > chainLength`. *)
decideTickLate(status, level, dueAt, chainLength, intervalMs, t) ==
  IF status # "OPEN"
  THEN [action |-> "drop", nextLevel |-> level, nextStatus |-> status,
        nextDueAt |-> NoTime]
  ELSE [action |-> "escalate", nextLevel |-> level + 1,
        nextStatus |-> IF level + 1 > chainLength THEN "ESCALATED" ELSE "OPEN",
        nextDueAt |-> IF level + 1 > chainLength THEN NoTime ELSE dueAt + intervalMs]

(* Mutant: the reschedule is relative to zero instead of the old due time. *)
decideTickRelative(status, level, dueAt, chainLength, intervalMs, t) ==
  LET terminal == level + 1 >= chainLength
  IN  IF status # "OPEN"
      THEN [action |-> "drop", nextLevel |-> level, nextStatus |-> status,
            nextDueAt |-> NoTime]
      ELSE [action |-> "escalate", nextLevel |-> level + 1,
            nextStatus |-> IF terminal THEN "ESCALATED" ELSE "OPEN",
            nextDueAt |-> IF terminal THEN NoTime ELSE intervalMs]

(***************************************************************************)
(* What a tick does with a due alert.  A skipped alert that is not OPEN    *)
(* has its timer dropped; one that is not due yet keeps it ("wait").       *)
(***************************************************************************)
decideTick(status, level, dueAt, chainLength, intervalMs, t) ==
  LET nextLevel == level + 1
      terminal  == nextLevel >= chainLength
  IN  IF status # "OPEN"
      THEN [action |-> "drop", nextLevel |-> level, nextStatus |-> status,
            nextDueAt |-> NoTime]
      ELSE IF t < dueAt
      THEN [action |-> "wait", nextLevel |-> level, nextStatus |-> status,
            nextDueAt |-> NoTime]
      ELSE IF level >= chainLength
      THEN [action |-> "exhausted", nextLevel |-> level,
            nextStatus |-> "ESCALATED", nextDueAt |-> NoTime]
      ELSE [action |-> "escalate", nextLevel |-> nextLevel,
            nextStatus |-> IF terminal THEN "ESCALATED" ELSE "OPEN",
            nextDueAt |-> IF terminal THEN NoTime ELSE dueAt + intervalMs]

(* A missing or non-positive interval counts as one minute. *)
intervalMsOf(escalationIntervalMin) ==
  IF escalationIntervalMin > 0 THEN escalationIntervalMin ELSE 1

-----------------------------------------------------------------------------
(* escalation.timer.ts: the sorted set *)

schedule(a, t) == due' = [due EXCEPT ![a] = t]

cancel(a) == due' = [due EXCEPT ![a] = NoTime]

(* Mutant: alerts that have no timer are swept as well. *)
dueEntriesAll(t) ==
  {[alertId |-> a, dueAt |-> due[a]] : a \in {b \in Alerts : due[b] <= t}}

dueEntries(t) ==
  {[alertId |-> a, dueAt |-> due[a]] :
     a \in {b \in Alerts : due[b] # NoTime /\ due[b] <= t}}

-----------------------------------------------------------------------------
Init ==
  /\ \E u \in Users :
       alert = [a \in Alerts |-> IF a \in Seeded
                                 THEN [status |-> "CLOSED", level |-> 0, by |-> u]
                                 ELSE NoRow]
  /\ due      = [a \in Alerts |-> NoTime]
  /\ rule     \in Rules
  /\ now      = 0
  /\ arming   = [a \in Alerts |-> NoTime]
  /\ ack      = [k \in Acks |-> IdleAck]
  /\ sweep    = [s \in Sweeps |-> IdleSweep]
  /\ dispatched = [a \in Alerts |-> <<>>]
  /\ unsent   = [a \in Alerts |-> {}]
  /\ acked    = {}
  /\ orphaned = {}

-----------------------------------------------------------------------------
(* createAlert: the row is saved, and only then is the timer armed. *)

(* Mutant: the timer is armed first and the row saved afterwards. *)
CreateTimerFirst(a) ==
  /\ now <= MaxCreate
  /\ alert[a].status = "ABSENT"
  /\ schedule(a, now + intervalMsOf(rule.interval))
  /\ UNCHANGED <<alert, arming, rule, now, ack, sweep, dispatched, unsent, acked, orphaned>>

CreateSave(a) ==
  /\ now <= MaxCreate
  /\ alert[a].status = "ABSENT"
  /\ alert'  = [alert EXCEPT ![a] = [status |-> "OPEN", level |-> 0, by |-> NoUser]]
  /\ arming' = [arming EXCEPT ![a] = now + intervalMsOf(rule.interval)]
  /\ UNCHANGED <<due, rule, now, ack, sweep, dispatched, unsent, acked, orphaned>>

CreateArm(a) ==
  /\ arming[a] # NoTime
  /\ schedule(a, arming[a])
  /\ arming' = [arming EXCEPT ![a] = NoTime]
  /\ UNCHANGED <<alert, rule, now, ack, sweep, dispatched, unsent, acked, orphaned>>

CreateAbort(a) ==
  /\ arming[a] # NoTime
  /\ arming'   = [arming EXCEPT ![a] = NoTime]
  /\ orphaned' = orphaned \cup {a}
  /\ UNCHANGED <<alert, due, rule, now, ack, sweep, dispatched, unsent, acked>>

-----------------------------------------------------------------------------
(* acknowledge: findOne, save, cancel. *)

(* The row is loaded and changed in memory; an illegal status is refused. *)
AckLoad(k, a, u) ==
  /\ ack[k].pc = "idle"
  /\ alert[a].status # "ABSENT"
  /\ decideAcknowledge(alert[a].status) = "acknowledge"
  /\ ack' = [ack EXCEPT ![k] =
               [pc |-> "save", alertId |-> a,
                row |-> [alert[a] EXCEPT !.status = "ACKNOWLEDGED", !.by = u]]]
  /\ UNCHANGED <<alert, due, rule, now, arming, sweep, dispatched, unsent, acked, orphaned>>

(* Already acknowledged: the call succeeds without touching row or timer. *)
AckNoop(k, a) ==
  /\ ack[k].pc = "idle"
  /\ alert[a].status # "ABSENT"
  /\ decideAcknowledge(alert[a].status) = "noop"
  /\ acked' = acked \cup {a}
  /\ UNCHANGED <<alert, due, rule, now, arming, ack, sweep, dispatched, unsent, orphaned>>

(***************************************************************************)
(* Repository.save writes every column in which the entity differs from    *)
(* the stored row, so the row ends up equal to the entity, whatever was    *)
(* stored after the entity was loaded.                                     *)
(***************************************************************************)
AckSave(k) ==
  /\ ack[k].pc = "save"
  /\ alert' = [alert EXCEPT ![ack[k].alertId] = ack[k].row]
  /\ ack'   = [ack EXCEPT ![k].pc = "cancel"]
  /\ UNCHANGED <<due, rule, now, arming, sweep, dispatched, unsent, acked, orphaned>>

AckCancel(k) ==
  /\ ack[k].pc = "cancel"
  /\ cancel(ack[k].alertId)
  /\ acked' = acked \cup {ack[k].alertId}
  /\ ack'   = [ack EXCEPT ![k] = IdleAck]
  /\ UNCHANGED <<alert, rule, now, arming, sweep, dispatched, unsent, orphaned>>

AckAbort(k) ==
  /\ ack[k].pc # "idle"
  /\ ack' = [ack EXCEPT ![k] = IdleAck]
  /\ UNCHANGED <<alert, due, rule, now, arming, sweep, dispatched, unsent, acked, orphaned>>

-----------------------------------------------------------------------------
(* tickEscalations and processDueAlert. *)

(* Mutant: the sweep pops what it reads, as a Lua ZRANGEBYSCORE + ZREM would. *)
SweepBeginPop(s) ==
  /\ sweep[s].pc = "idle"
  /\ dueEntries(now) # {}
  /\ sweep' = [sweep EXCEPT ![s] = [IdleSweep EXCEPT
                 !.pc = "next", !.now = now, !.todo = dueEntries(now)]]
  /\ due' = [a \in Alerts |-> IF due[a] <= now THEN NoTime ELSE due[a]]
  /\ UNCHANGED <<alert, rule, now, arming, ack, dispatched, unsent, acked, orphaned>>

(* ZRANGEBYSCORE; a sweep that finds nothing due returns at once. *)
SweepBegin(s) ==
  /\ sweep[s].pc = "idle"
  /\ dueEntries(now) # {}
  /\ sweep' = [sweep EXCEPT ![s] = [IdleSweep EXCEPT
                 !.pc = "next", !.now = now, !.todo = dueEntries(now)]]
  /\ UNCHANGED <<alert, due, rule, now, arming, ack, dispatched, unsent, acked, orphaned>>

(* Mutant: every due entry is escalated, whatever its alert's status. *)
AfterLoadBlind(s, e) ==
  LET row == alert[e.alertId]
  IN  [sweep[s] EXCEPT
         !.pc = "save", !.todo = @ \ {e}, !.alertId = e.alertId,
         !.row = [row EXCEPT !.status = "ESCALATED"], !.contact = row.level]

(***************************************************************************)
(* The next entry in score order: the alert and its rule are loaded, the   *)
(* decision is taken against the due time of the entry, and the entity is  *)
(* changed in memory.  applyTransition throws on an illegal transition,    *)
(* which ends the whole sweep.                                             *)
(***************************************************************************)
AfterLoad(s, e) ==
  LET row  == alert[e.alertId]
      todo == sweep[s].todo \ {e}
      d    == decideTick(row.status, row.level, e.dueAt, rule.chain,
                         intervalMsOf(rule.interval), sweep[s].now)
      held == [sweep[s] EXCEPT !.todo = todo, !.alertId = e.alertId]
  IN  IF d.action = "drop" THEN [held EXCEPT !.pc = "cancel"]
      ELSE IF d.action = "wait" THEN [sweep[s] EXCEPT !.todo = todo]
      ELSE IF ~legalTransition(row.status, d.nextStatus) THEN IdleSweep
      ELSE [held EXCEPT
              !.pc = "save",
              !.row = [row EXCEPT !.status = d.nextStatus, !.level = d.nextLevel],
              !.contact = IF d.action = "escalate" THEN row.level ELSE NoContact,
              !.nextDueAt = d.nextDueAt]

SweepLoad(s) ==
  /\ sweep[s].pc = "next"
  /\ \E e \in sweep[s].todo :
       /\ \A f \in sweep[s].todo : e.dueAt <= f.dueAt
       /\ sweep' = [sweep EXCEPT ![s] = AfterLoad(s, e)]
  /\ UNCHANGED <<alert, due, rule, now, arming, ack, dispatched, unsent, acked, orphaned>>

(* Mutant: the new level is not written back. *)
SweepSaveStatus(s) ==
  /\ sweep[s].pc = "save"
  /\ alert' = [alert EXCEPT ![sweep[s].alertId].status = sweep[s].row.status]
  /\ sweep' = [sweep EXCEPT ![s].pc =
                 IF sweep[s].contact = NoContact THEN "cancel" ELSE "dispatch"]
  /\ UNCHANGED <<due, rule, now, arming, ack, dispatched, unsent, acked, orphaned>>

SweepSave(s) ==
  /\ sweep[s].pc = "save"
  /\ alert' = [alert EXCEPT ![sweep[s].alertId] = sweep[s].row]
  /\ sweep' = [sweep EXCEPT ![s].pc =
                 IF sweep[s].contact = NoContact THEN "cancel" ELSE "dispatch"]
  /\ UNCHANGED <<due, rule, now, arming, ack, dispatched, unsent, acked, orphaned>>

(* Mutant: the timer is dropped after every dispatch, terminal or not. *)
SweepDispatchDrop(s) ==
  /\ sweep[s].pc = "dispatch"
  /\ dispatched' = [dispatched EXCEPT ![sweep[s].alertId] = Append(@, sweep[s].row.level)]
  /\ sweep' = [sweep EXCEPT ![s].pc = "cancel"]
  /\ UNCHANGED <<alert, due, rule, now, arming, ack, unsent, acked, orphaned>>

(***************************************************************************)
(* The dispatcher is handed the saved alert, with its new level, and the   *)
(* channels of the rule; the contact of the step goes into a log line and  *)
(* the returned action only.  Its outcome is swallowed: the sweep goes on. *)
(***************************************************************************)
SweepDispatch(s) ==
  /\ sweep[s].pc = "dispatch"
  /\ dispatched' = [dispatched EXCEPT ![sweep[s].alertId] = Append(@, sweep[s].row.level)]
  /\ sweep' = [sweep EXCEPT ![s].pc =
                 IF sweep[s].nextDueAt = NoTime THEN "cancel" ELSE "arm"]
  /\ UNCHANGED <<alert, due, rule, now, arming, ack, unsent, acked, orphaned>>

(* The sweep moves on to its next entry. *)
EntryDone(s) ==
  sweep' = [sweep EXCEPT ![s] = [IdleSweep EXCEPT
              !.pc = "next", !.now = sweep[s].now, !.todo = sweep[s].todo]]

SweepArm(s) ==
  /\ sweep[s].pc = "arm"
  /\ schedule(sweep[s].alertId, sweep[s].nextDueAt)
  /\ EntryDone(s)
  /\ UNCHANGED <<alert, rule, now, arming, ack, dispatched, unsent, acked, orphaned>>

SweepCancel(s) ==
  /\ sweep[s].pc = "cancel"
  /\ cancel(sweep[s].alertId)
  /\ EntryDone(s)
  /\ UNCHANGED <<alert, rule, now, arming, ack, dispatched, unsent, acked, orphaned>>

SweepEnd(s) ==
  /\ sweep[s].pc = "next"
  /\ sweep[s].todo = {}
  /\ sweep' = [sweep EXCEPT ![s] = IdleSweep]
  /\ UNCHANGED <<alert, due, rule, now, arming, ack, dispatched, unsent, acked, orphaned>>

SweepAbort(s) ==
  /\ sweep[s].pc # "idle"
  /\ sweep' = [sweep EXCEPT ![s] = IdleSweep]
  /\ unsent' = IF sweep[s].pc = "dispatch"
               THEN [unsent EXCEPT ![sweep[s].alertId] = @ \cup {sweep[s].row.level}]
               ELSE unsent
  /\ UNCHANGED <<alert, due, rule, now, arming, ack, dispatched, acked, orphaned>>

-----------------------------------------------------------------------------
(* upsertRule: one transaction replaces the rule in place. *)
UpsertRule ==
  /\ rule' \in Rules
  /\ UNCHANGED <<alert, due, now, arming, ack, sweep, dispatched, unsent, acked, orphaned>>

Clock ==
  /\ now < MaxNow
  /\ now' = now + 1
  /\ UNCHANGED <<alert, due, rule, arming, ack, sweep, dispatched, unsent, acked, orphaned>>

-----------------------------------------------------------------------------
(* A call of the service begins *)
Begin ==
  \/ \E a \in Alerts : CreateSave(a)
  \/ \E k \in Acks, a \in Alerts, u \in Users : AckLoad(k, a, u)
  \/ \E k \in Acks, a \in Alerts : AckNoop(k, a)
  \/ \E s \in Sweeps : SweepBegin(s)

(* A call in flight resumes after an await *)
Resume ==
  \/ \E a \in Alerts : CreateArm(a)
  \/ \E k \in Acks : AckSave(k) \/ AckCancel(k)
  \/ \E s \in Sweeps : \/ SweepLoad(s) \/ SweepSave(s) \/ SweepDispatch(s)
                       \/ SweepArm(s) \/ SweepCancel(s) \/ SweepEnd(s)

Abort ==
  \/ \E a \in Alerts : CreateAbort(a)
  \/ \E k \in Acks : AckAbort(k)
  \/ \E s \in Sweeps : SweepAbort(s)

Next == Begin \/ Resume \/ Abort \/ UpsertRule \/ Clock

Spec == Init /\ [][Next]_vars

(***************************************************************************)
(* Calls that do not overlap: a call begins only when none is in flight.   *)
(* Nothing in the service enforces this; it is how its tests drive it and  *)
(* what a caller that serialises the service's calls would get.            *)
(***************************************************************************)
Quiet ==
  /\ \A a \in Alerts : arming[a] = NoTime
  /\ \A k \in Acks : ack[k].pc = "idle"
  /\ \A s \in Sweeps : sweep[s].pc = "idle"

SerialNext == (Quiet /\ Begin) \/ Resume \/ Abort \/ UpsertRule \/ Clock

SerialSpec == Init /\ [][SerialNext]_vars

(***************************************************************************)
(* Time passes and a call in flight goes on.  Nothing under src/ calls     *)
(* tickEscalations: the assumption on the environment is that a worker     *)
(* calls it again and again, however often other calls keep it waiting,    *)
(* and that neither Postgres nor Redis rejects every retry of a read, save *)
(* or cancel.  These steps are strongly fair, since other calls and aborts *)
(* disable them again and again.                                           *)
(***************************************************************************)
SerialFairSpec ==
  /\ SerialSpec
  /\ WF_vars(Clock)
  /\ WF_vars(Resume)
  /\ \A s \in Sweeps :
       /\ SF_vars(Quiet /\ SweepBegin(s))
       /\ SF_vars(SweepLoad(s))
       /\ SF_vars(SweepSave(s))
       /\ SF_vars(SweepCancel(s))

-----------------------------------------------------------------------------
(* Properties *)

AckType ==
  [pc : {"idle", "save", "cancel"}, alertId : Alerts \cup {NoAlert}, row : Row]

SweepType ==
  [pc : {"idle", "next", "save", "dispatch", "arm", "cancel"},
   now : Nat, todo : SUBSET DueTimer, alertId : Alerts \cup {NoAlert}, row : Row,
   contact : Nat \cup {NoContact}, nextDueAt : Nat \cup {NoTime}]

(* The type invariant: rows, timers and the records of the calls in flight. *)
TypeOK ==
  /\ alert    \in [Alerts -> Row]
  /\ due      \in [Alerts -> Nat \cup {NoTime}]
  /\ rule     \in Rules
  /\ now      \in Nat
  /\ arming   \in [Alerts -> Nat \cup {NoTime}]
  /\ ack      \in [Acks -> AckType]
  /\ sweep    \in [Sweeps -> SweepType]
  /\ dispatched \in [Alerts -> Seq(Nat)]
  /\ unsent   \in [Alerts -> SUBSET Nat]
  /\ acked    \subseteq Alerts
  /\ orphaned \subseteq Alerts

(***************************************************************************)
(* A member of the sorted set, and every entry a sweep still holds, is the *)
(* id of a saved alert: createAlert saves before it schedules, so the      *)
(* orphaned-timer branch of processDueAlert is never taken.                *)
(***************************************************************************)
TimerHasRow ==
  /\ \A a \in Alerts :
       due[a] # NoTime \/ arming[a] # NoTime => alert[a].status # "ABSENT"
  /\ \A s \in Sweeps : \A e \in sweep[s].todo : alert[e.alertId].status # "ABSENT"

(***************************************************************************)
(* Whatever calls overlap or die, a stored row is always one that some     *)
(* serial history could have stored: the level is within the chain, an     *)
(* ESCALATED alert has used up a chain, an OPEN one has not, and only      *)
(* acknowledged (or seeded CLOSED) rows carry acknowledgedBy.              *)
(***************************************************************************)
RowOK(r) ==
  /\ r.level = 0 \/ \E q \in Rules : r.level <= q.chain
  /\ r.status = "ESCALATED" => \E q \in Rules : r.level >= q.chain
  /\ r.status = "OPEN" => r.level = 0 \/ \E q \in Rules : r.level < q.chain
  /\ (r.by # NoUser) <=> (r.status \in {"ACKNOWLEDGED", "CLOSED"})

RowShape == \A a \in Alerts : RowOK(alert[a])

(* The step to level l of an alert went to the dispatcher, is about to, or  *)
(* the sweep that took it died with its level saved and nothing sent.       *)
Announced(a, l) ==
  \/ \E i \in 1..Len(dispatched[a]) : dispatched[a][i] = l
  \/ l \in unsent[a]
  \/ \E s \in Sweeps : /\ sweep[s].pc = "dispatch"
                        /\ sweep[s].alertId = a /\ sweep[s].row.level = l

StepsAscend ==
  \A a \in Alerts :
    \A i, j \in 1..Len(dispatched[a]) : i < j => dispatched[a][i] < dispatched[a][j]

StepsAnnounced ==
  \A a \in Alerts : \A l \in 1..alert[a].level : Announced(a, l)

(***************************************************************************)
(* While no two sweeps overlap, the steps of an alert are dispatched in     *)
(* ascending order and none of them twice, whatever acknowledge calls run   *)
(* in between and however often a sweep dies and starts again: the new      *)
(* level is saved before it is dispatched.  And no level of a stored row is *)
(* skipped silently, except by a sweep that died between save and dispatch: *)
(* its step is not made up for, the next sweep takes the one after.         *)
(***************************************************************************)
StepsInOrder == StepsAscend /\ StepsAnnounced

(* A reschedule moves a timer forward, never back (redis-keys.ts, P35). *)
DueMovesForward ==
  [][\A a \in Alerts : due[a] # NoTime /\ due'[a] # NoTime => due'[a] >= due[a]]_due

(* An alert whose acknowledge call has returned stays ACKNOWLEDGED (P33). *)
AckIsFinal ==
  \A a \in acked : alert[a].status = "ACKNOWLEDGED"

(* No step is dispatched for an alert once its acknowledge call has         *)
(* returned (P33: an acknowledged alert is never subsequently escalated).   *)
AckedNotNotified ==
  [][\A a \in acked : dispatched'[a] = dispatched[a]]_dispatched

(***************************************************************************)
(* An OPEN alert is in the sorted set or about to be put there, except     *)
(* where createAlert itself stopped in between: no sweep or acknowledge    *)
(* that dies half-way strands an OPEN alert.                               *)
(***************************************************************************)
OpenIsWatched ==
  \A a \in Alerts :
    alert[a].status = "OPEN" =>
      due[a] # NoTime \/ arming[a] # NoTime \/ a \in orphaned

(* The rows of the engine behave as AlertLifecycle allows. *)
Lifecycle == INSTANCE AlertLifecycle WITH rows <- alert
ImplementsLifecycle == Lifecycle!Spec

(***************************************************************************)
(* An OPEN alert that createAlert armed is escalated through its chain or  *)
(* acknowledged, it does not stay OPEN; and the timer of an alert that can *)
(* no longer escalate is removed, by the call that changed it or by a      *)
(* later sweep.                                                            *)
(***************************************************************************)
ChainsEnd ==
  \A a \in Alerts :
    /\ alert[a].status = "OPEN" ~> alert[a].status # "OPEN" \/ a \in orphaned
    /\ alert[a].status \in {"ACKNOWLEDGED", "ESCALATED"} ~> due[a] = NoTime
=============================================================================
