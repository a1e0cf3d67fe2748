-------------------------- MODULE EscalationProofs --------------------------
(***************************************************************************)
(* Theorems about Escalation, for every set of alerts, users, rules and    *)
(* calls in flight and every bound: first what holds of every behaviour,   *)
(* then what holds when the calls of the service do not overlap, and last  *)
(* what holds when everything but two sweeps may overlap.                  *)
(***************************************************************************)
EXTENDS Escalation, TLAPS

-----------------------------------------------------------------------------
(* The pure decisions. *)

(* What a decision d for an alert at `level` of a chain may be. *)
DecisionOK(d, status, level, chain) ==
  /\ d.action \in {"drop", "wait", "exhausted", "escalate"}
  /\ d.nextLevel \in Nat
  /\ d.nextStatus \in Status
  /\ d.nextDueAt \in Nat \cup {NoTime}
  /\ d.action = "exhausted" =>
       /\ status = "OPEN" /\ d.nextStatus = "ESCALATED"
       /\ d.nextLevel = level /\ level >= chain
  /\ d.action = "escalate" =>
       /\ status = "OPEN" /\ d.nextLevel = level + 1 /\ level < chain
       /\ d.nextStatus = IF level + 1 = chain THEN "ESCALATED" ELSE "OPEN"

(* decideTick moves the level by at most one, never beyond the chain, and   *)
(* reports ESCALATED exactly when the chain is used up (P34, P35).          *)
LEMMA DecideTickType ==
  ASSUME NEW status \in Status, NEW level \in Nat, NEW dueAt \in Nat,
         NEW chain \in Nat, NEW ms \in Nat, NEW t \in Nat
  PROVE  DecisionOK(decideTick(status, level, dueAt, chain, ms, t),
                    status, level, chain)
  <1>1. CASE status # "OPEN"
    BY <1>1 DEF decideTick, DecisionOK, Status, NoTime
  <1>2. CASE status = "OPEN" /\ t < dueAt
    BY <1>2 DEF decideTick, DecisionOK, Status, NoTime
  <1>3. CASE status = "OPEN" /\ t >= dueAt /\ level >= chain
    BY <1>3 DEF decideTick, DecisionOK, Status, NoTime
  <1>4. CASE status = "OPEN" /\ t >= dueAt /\ level < chain
    BY <1>4 DEF decideTick, DecisionOK, Status, NoTime
  <1>5. QED BY <1>1, <1>2, <1>3, <1>4

(* An interval of minutes lasts a positive number of milliseconds. *)
LEMMA IntervalType ==
  ASSUME NEW m \in Nat PROVE intervalMsOf(m) \in Nat \ {0}
  BY DEF intervalMsOf

(* The rule in force, and the time between two of its levels. *)
LEMMA RuleType ==
  ASSUME TypeOK PROVE /\ rule.chain \in Nat /\ rule.interval \in Nat
                      /\ intervalMsOf(rule.interval) \in Nat \ {0}
  <1>1. rule.chain \in Nat /\ rule.interval \in Nat
    BY EscalationAssumption DEF TypeOK
  <1>2. QED BY <1>1, IntervalType

-----------------------------------------------------------------------------
(* The inductive invariant of Spec: what a call holds in memory between two *)
(* awaits.  Rows loaded long ago may be stale, but they are always rows     *)
(* that could legally be stored.                                            *)

AckOK(k) ==
  ack[k].pc # "idle" =>
    /\ ack[k].alertId \in Alerts
    /\ alert[ack[k].alertId].status # "ABSENT"
    /\ ack[k].row.status = "ACKNOWLEDGED"
    /\ RowOK(ack[k].row)

SweepOK(s) ==
  /\ sweep[s].pc \in {"save", "dispatch", "arm", "cancel"} =>
       /\ sweep[s].alertId \in Alerts
       /\ alert[sweep[s].alertId].status # "ABSENT"
  /\ sweep[s].pc = "save" =>
       /\ sweep[s].row.status \in {"OPEN", "ESCALATED"}
       /\ RowOK(sweep[s].row)
  /\ sweep[s].pc = "dispatch" => sweep[s].contact \in Nat

IInv ==
  /\ TypeOK
  /\ RowShape
  /\ TimerHasRow
  /\ \A k \in Acks : AckOK(k)
  /\ \A s \in Sweeps : SweepOK(s)

(* Loading the next entry leaves the sweep with a well-formed record. *)
LEMMA AfterLoadOK ==
  ASSUME IInv, NEW s \in Sweeps, sweep[s].pc = "next", NEW e \in sweep[s].todo
  PROVE  LET w == AfterLoad(s, e) IN
         /\ w \in SweepType
         /\ w.todo \subseteq sweep[s].todo
         /\ w.pc \in {"save", "dispatch", "arm", "cancel"} =>
              w.alertId = e.alertId
         /\ w.pc = "save" =>
              /\ w.row.status \in {"OPEN", "ESCALATED"}
              /\ RowOK(w.row)
         /\ w.pc # "dispatch"
  <1> DEFINE row  == alert[e.alertId]
             d    == decideTick(row.status, row.level, e.dueAt, rule.chain,
                                intervalMsOf(rule.interval), sweep[s].now)
             held == [sweep[s] EXCEPT !.todo = sweep[s].todo \ {e}, !.alertId = e.alertId]
             saved == [row EXCEPT !.status = d.nextStatus, !.level = d.nextLevel]
             save == [held EXCEPT
                        !.pc = "save", !.row = saved,
                        !.contact = IF d.action = "escalate" THEN row.level ELSE NoContact,
                        !.nextDueAt = d.nextDueAt]
  <1>1. sweep[s] \in SweepType /\ e \in DueTimer
    BY DEF IInv, TypeOK, SweepType
  <1>2. e.alertId \in Alerts /\ e.dueAt \in Nat /\ row \in Row
    BY <1>1 DEF IInv, TypeOK, DueTimer
  <1>3. row.status \in Status /\ row.level \in Nat /\ sweep[s].now \in Nat
    BY <1>1, <1>2 DEF Row, SweepType
  <1>4. /\ rule \in Rules /\ rule.chain \in Nat
        /\ intervalMsOf(rule.interval) \in Nat
    BY RuleType DEF IInv, TypeOK
  <1>5. DecisionOK(d, row.status, row.level, rule.chain)
    BY <1>2, <1>3, <1>4, DecideTickType
  <1> HIDE DEF d
  <1>6. held \in SweepType
    BY <1>1, <1>2 DEF SweepType
  <1>7. IdleSweep \in SweepType
    BY DEF IdleSweep, SweepType, NoRow, Row, Status, NoContact, NoTime
  <1>8. saved \in Row
    BY <1>2, <1>5 DEF Row, DecisionOK
  <1>9. save \in SweepType
    BY <1>3, <1>5, <1>6, <1>8 DEF SweepType, DecisionOK
  <1>10. d.action \in {"exhausted", "escalate"} =>
           saved.status \in {"OPEN", "ESCALATED"} /\ RowOK(saved)
    <2> SUFFICES ASSUME d.action \in {"exhausted", "escalate"}
                 PROVE  saved.status \in {"OPEN", "ESCALATED"} /\ RowOK(saved)
      OBVIOUS
    <2>1. RowOK(row) /\ row.status = "OPEN"
      BY <1>2, <1>5 DEF IInv, RowShape, DecisionOK
    <2>2. /\ saved.status = d.nextStatus /\ saved.level = d.nextLevel
          /\ saved.by = row.by
      BY <1>2 DEF Row
    <2>3. QED
      BY <1>3, <1>4, <1>5, <2>1, <2>2, EscalationAssumption DEF RowOK, DecisionOK
  <1> HIDE DEF saved, held
  <1>11. CASE d.action = "drop"
    <2>1. AfterLoad(s, e) = [held EXCEPT !.pc = "cancel"]
      BY <1>11 DEF AfterLoad, d, held
    <2>2. held.todo = sweep[s].todo \ {e} /\ held.alertId = e.alertId
      BY <1>1 DEF SweepType, held
    <2>3. QED BY <1>6, <2>1, <2>2 DEF SweepType
  <1>12. CASE d.action = "wait"
    <2>1. AfterLoad(s, e) = [sweep[s] EXCEPT !.todo = sweep[s].todo \ {e}]
      BY <1>12 DEF AfterLoad, d
    <2>2. QED BY <1>1, <2>1 DEF SweepType
  <1>13. CASE d.action \in {"exhausted", "escalate"}
    <2>1. CASE ~legalTransition(row.status, d.nextStatus)
      <3>1. AfterLoad(s, e) = IdleSweep
        BY <1>13, <2>1 DEF AfterLoad, d
      <3>2. QED BY <1>7, <3>1 DEF IdleSweep
    <2>2. CASE legalTransition(row.status, d.nextStatus)
      <3>1. AfterLoad(s, e) = save
        BY <1>13, <2>2 DEF AfterLoad, d, held, saved
      <3>2. save.todo = sweep[s].todo \ {e} /\ save.alertId = e.alertId
            /\ save.pc = "save" /\ save.row = saved
        BY <1>1, <1>6 DEF SweepType, held
      <3>3. QED BY <1>9, <1>10, <1>13, <3>1, <3>2
    <2>3. QED BY <2>1, <2>2
  <1>14. QED BY <1>5, <1>11, <1>12, <1>13 DEF DecisionOK

(***************************************************************************)
(* What the sweep plans for an entry: it drops the timer only of an alert  *)
(* that is not OPEN, and it escalates an OPEN one to the next contact and  *)
(* a later due time, or to the end of its chain.                           *)
(***************************************************************************)
LEMMA AfterLoadPlan ==
  ASSUME IInv, NEW s \in Sweeps, sweep[s].pc = "next", NEW e \in sweep[s].todo
  PROVE  LET w == AfterLoad(s, e)
             r == alert[e.alertId]
         IN /\ w.pc \in {"idle", "next", "save", "cancel"}
            /\ w.pc # "idle" => w.todo = sweep[s].todo \ {e}
            /\ w.pc = "cancel" => r.status # "OPEN"
            /\ w.pc = "save" =>
                 /\ r.status = "OPEN"
                 /\ \/ /\ w.contact = NoContact /\ w.row.level = r.level
                       /\ w.nextDueAt = NoTime /\ w.row.status = "ESCALATED"
                    \/ /\ w.contact = r.level /\ w.row.level = r.level + 1
                       /\ \/ w.nextDueAt = NoTime /\ w.row.status = "ESCALATED"
                          \/ w.nextDueAt \in Nat /\ w.nextDueAt >= e.dueAt
  <1> DEFINE r == alert[e.alertId]
             ms == intervalMsOf(rule.interval)
             d == decideTick(r.status, r.level, e.dueAt, rule.chain, ms, sweep[s].now)
             w == AfterLoad(s, e)
  <1>1. sweep[s] \in SweepType /\ e \in DueTimer
    BY DEF IInv, TypeOK, SweepType
  <1>2. r \in Row /\ e.dueAt \in Nat
    BY <1>1 DEF IInv, TypeOK, DueTimer
  <1>3. /\ r.status \in Status /\ r.level \in Nat /\ sweep[s].now \in Nat
        /\ rule.chain \in Nat /\ ms \in Nat
    BY <1>1, <1>2, RuleType DEF Row, SweepType, IInv
  <1> HIDE DEF ms
  <1>4. /\ d.action \in {"drop", "wait", "exhausted", "escalate"}
        /\ d.action = "drop" => r.status # "OPEN"
        /\ d.action = "exhausted" =>
             /\ r.status = "OPEN" /\ d.nextStatus = "ESCALATED"
             /\ d.nextLevel = r.level /\ d.nextDueAt = NoTime
        /\ d.action = "escalate" =>
             /\ r.status = "OPEN" /\ d.nextLevel = r.level + 1
             /\ \/ d.nextStatus = "ESCALATED" /\ d.nextDueAt = NoTime
                \/ d.nextDueAt \in Nat /\ d.nextDueAt >= e.dueAt
    <2>1. CASE r.status # "OPEN"
      BY <2>1 DEF decideTick
    <2>2. CASE r.status = "OPEN" /\ sweep[s].now < e.dueAt
      BY <2>2 DEF decideTick
    <2>3. CASE r.status = "OPEN" /\ sweep[s].now >= e.dueAt /\ r.level >= rule.chain
      BY <1>2, <1>3, <2>3 DEF decideTick
    <2>4. CASE r.status = "OPEN" /\ sweep[s].now >= e.dueAt /\ r.level < rule.chain
      BY <1>2, <1>3, <2>4 DEF decideTick
    <2>5. /\ sweep[s].now < e.dueAt \/ sweep[s].now >= e.dueAt
          /\ r.level >= rule.chain \/ r.level < rule.chain
      BY <1>2, <1>3
    <2> HIDE DEF d
    <2>6. QED BY <2>1, <2>2, <2>3, <2>4, <2>5
  <1> HIDE DEF d
  <1>5. CASE d.action = "drop"
    <2>1. w = [sweep[s] EXCEPT !.todo = sweep[s].todo \ {e}, !.alertId = e.alertId,
                               !.pc = "cancel"]
      BY <1>1, <1>5 DEF AfterLoad, d, ms, SweepType
    <2>2. w.pc = "cancel" /\ w.todo = sweep[s].todo \ {e}
      BY <1>1, <2>1 DEF SweepType
    <2>3. QED BY <1>4, <1>5, <2>2
  <1>6. CASE d.action = "wait"
    <2>1. w = [sweep[s] EXCEPT !.todo = sweep[s].todo \ {e}]
      BY <1>6 DEF AfterLoad, d, ms
    <2>2. w.pc = "next" /\ w.todo = sweep[s].todo \ {e}
      BY <1>1, <2>1 DEF SweepType
    <2>3. QED BY <2>2
  <1>7. CASE d.action \in {"exhausted", "escalate"} /\ ~legalTransition(r.status, d.nextStatus)
    <2>1. w = IdleSweep
      BY <1>7 DEF AfterLoad, d, ms
    <2>2. QED BY <2>1 DEF IdleSweep
  <1>8. CASE d.action \in {"exhausted", "escalate"} /\ legalTransition(r.status, d.nextStatus)
    <2>1. /\ w.pc = "save" /\ w.todo = sweep[s].todo \ {e}
          /\ w.row = [r EXCEPT !.status = d.nextStatus, !.level = d.nextLevel]
          /\ w.contact = IF d.action = "escalate" THEN r.level ELSE NoContact
          /\ w.nextDueAt = d.nextDueAt
      BY <1>1, <1>8 DEF AfterLoad, d, ms, SweepType
    <2>2. w.row.status = d.nextStatus /\ w.row.level = d.nextLevel
      BY <1>2, <2>1 DEF Row
    <2>3. QED BY <1>4, <1>8, <2>1, <2>2
  <1>9. QED BY <1>4, <1>5, <1>6, <1>7, <1>8

-----------------------------------------------------------------------------
(* The values that stand for "no call" and "no row" have their types. *)
LEMMA IdleTypes == IdleAck \in AckType /\ IdleSweep \in SweepType /\ NoRow \in Row
  BY DEF IdleAck, IdleSweep, AckType, SweepType, NoRow, Row, Status, NoContact, NoTime

(* The empty service satisfies the invariant. *)
LEMMA InitIInv == Init => IInv
  <1> SUFFICES ASSUME Init PROVE IInv
    OBVIOUS
  <1> PICK u \in Users :
        alert = [a \in Alerts |-> IF a \in Seeded
                                  THEN [status |-> "CLOSED", level |-> 0, by |-> u]
                                  ELSE NoRow]
    BY DEF Init
  <1>1. \A a \in Alerts : alert[a] \in Row /\ RowOK(alert[a])
    BY EscalationAssumption DEF Row, RowOK, NoRow, Status
  <1>2. TypeOK
    BY <1>1, IdleTypes DEF Init, TypeOK, NoTime
  <1>3. TimerHasRow
    BY DEF Init, TimerHasRow, IdleSweep
  <1>4. \A k \in Acks : AckOK(k)
    BY DEF Init, AckOK, IdleAck
  <1>5. \A s \in Sweeps : SweepOK(s)
    BY DEF Init, SweepOK, IdleSweep
  <1>6. QED BY <1>1, <1>2, <1>3, <1>4, <1>5 DEF IInv, RowShape

(***************************************************************************)
(* A step that stores rows only replaces them by well-formed ones and      *)
(* never deletes one.  What every call holds then stays well formed.       *)
(***************************************************************************)
RowsKept ==
  /\ alert' \in [Alerts -> Row]
  /\ \A a \in Alerts :
       /\ alert[a].status # "ABSENT" => alert'[a].status # "ABSENT"
       /\ RowOK(alert'[a])

(* A save of a well-formed row keeps every row well formed. *)
LEMMA SaveKeepsRows ==
  ASSUME IInv, NEW a \in Alerts, NEW r \in Row, RowOK(r), r.status # "ABSENT",
         alert' = [alert EXCEPT ![a] = r]
  PROVE  RowsKept
  BY DEF RowsKept, IInv, TypeOK, RowShape

(* A step that saves nothing keeps every row well formed. *)
LEMMA NoSaveKeepsRows ==
  ASSUME IInv, UNCHANGED alert
  PROVE  RowsKept
  BY DEF RowsKept, IInv, TypeOK, RowShape

(* The steps of createAlert. *)
LEMMA CreateStep ==
  ASSUME IInv, NEW a \in Alerts, CreateSave(a) \/ CreateArm(a) \/ CreateAbort(a)
  PROVE  IInv'
  <1>1. RowsKept
    <2>1. CASE CreateSave(a)
      BY <2>1, SaveKeepsRows DEF CreateSave, Row, Status, RowOK
    <2>2. CASE CreateArm(a) \/ CreateAbort(a)
      BY <2>2, NoSaveKeepsRows DEF CreateArm, CreateAbort
    <2>3. QED BY <2>1, <2>2
  <1>2. TypeOK'
    <2>1. now \in Nat /\ intervalMsOf(rule.interval) \in Nat
      BY RuleType DEF IInv, TypeOK
    <2>2. CASE CreateSave(a)
      BY <1>1, <2>1, <2>2 DEF IInv, TypeOK, RowsKept, CreateSave
    <2>3. CASE CreateArm(a)
      BY <1>1, <2>3 DEF IInv, TypeOK, RowsKept, CreateArm, schedule
    <2>4. CASE CreateAbort(a)
      BY <1>1, <2>4 DEF IInv, TypeOK, RowsKept, CreateAbort
    <2>5. QED BY <2>2, <2>3, <2>4
  <1>3. TimerHasRow'
    BY <1>1 DEF IInv, TypeOK, TimerHasRow, RowsKept, CreateSave, CreateArm, CreateAbort,
       schedule, SweepType, DueTimer
  <1>4. \A k \in Acks : AckOK(k)'
    BY <1>1 DEF IInv, TypeOK, AckOK, RowsKept, CreateSave, CreateArm, CreateAbort
  <1>5. \A s \in Sweeps : SweepOK(s)'
    BY <1>1 DEF IInv, TypeOK, SweepOK, RowsKept, CreateSave, CreateArm, CreateAbort
  <1>6. QED BY <1>1, <1>2, <1>3, <1>4, <1>5 DEF IInv, RowShape, RowsKept

(* The steps of acknowledge. *)
LEMMA AckStep ==
  ASSUME IInv, NEW k \in Acks,
         \/ \E a \in Alerts, u \in Users : AckLoad(k, a, u)
         \/ \E a \in Alerts : AckNoop(k, a)
         \/ AckSave(k) \/ AckCancel(k) \/ AckAbort(k)
  PROVE  IInv'
  <1>1. CASE \E a \in Alerts, u \in Users : AckLoad(k, a, u)
    <2> PICK a \in Alerts, u \in Users : AckLoad(k, a, u)
      BY <1>1
    <2> DEFINE r == [alert[a] EXCEPT !.status = "ACKNOWLEDGED", !.by = u]
               c == [pc |-> "save", alertId |-> a, row |-> r]
    <2>1. alert[a] \in Row /\ RowOK(alert[a]) /\ u # NoUser
      BY EscalationAssumption DEF IInv, TypeOK, RowShape
    <2>2. r \in Row /\ RowOK(r) /\ r.status = "ACKNOWLEDGED"
      BY <2>1 DEF Row, RowOK, Status
    <2>3. c \in AckType
      BY <2>2 DEF AckType
    <2> HIDE DEF r
    <2>4. ack' = [ack EXCEPT ![k] = c] /\ alert[a].status # "ABSENT"
      BY DEF AckLoad, r
    <2>5. UNCHANGED <<alert, due, rule, now, arming, sweep, dispatched, unsent, acked, orphaned>>
      BY DEF AckLoad
    <2>6. TypeOK'
      BY <2>3, <2>4, <2>5 DEF IInv, TypeOK
    <2>7. \A m \in Acks : AckOK(m)'
      BY <2>2, <2>4, <2>5 DEF IInv, TypeOK, AckOK
    <2>8. TimerHasRow' /\ RowShape' /\ \A s \in Sweeps : SweepOK(s)'
      BY <2>5 DEF IInv, TimerHasRow, RowShape, SweepOK
    <2>9. QED BY <2>6, <2>7, <2>8 DEF IInv
  <1>2. CASE \E a \in Alerts : AckNoop(k, a)
    BY <1>2 DEF IInv, TypeOK, AckNoop, TimerHasRow, RowShape, SweepOK, AckOK
  <1>3. CASE AckSave(k)
    <2>1. ack[k] \in AckType /\ AckOK(k) /\ ack[k].pc = "save"
      BY <1>3 DEF IInv, TypeOK, AckSave
    <2>2. RowsKept
      BY <1>3, <2>1, SaveKeepsRows DEF AckSave, AckOK, AckType
    <2>3. TypeOK'
      <3>1. alert' \in [Alerts -> Row]
        BY <1>3, <2>2 DEF RowsKept, AckSave, IInv, TypeOK
      <3>2. [ack[k] EXCEPT !.pc = "cancel"] \in AckType
        BY <2>1 DEF AckType
      <3>3. ack' \in [Acks -> AckType]
        BY <1>3, <3>2 DEF AckSave, IInv, TypeOK
      <3>4. QED BY <1>3, <3>1, <3>3 DEF AckSave, IInv, TypeOK
    <2>4. TimerHasRow'
      BY <1>3, <2>2 DEF IInv, TypeOK, RowsKept, AckSave, TimerHasRow, SweepType, DueTimer
    <2>5. \A m \in Acks : AckOK(m)'
      BY <1>3, <2>2 DEF IInv, TypeOK, RowsKept, AckSave, AckOK, AckType
    <2>6. \A s \in Sweeps : SweepOK(s)'
      BY <1>3, <2>2 DEF IInv, TypeOK, RowsKept, AckSave, SweepOK
    <2>7. QED BY <2>2, <2>3, <2>4, <2>5, <2>6 DEF IInv, RowShape, RowsKept
  <1>4. CASE AckCancel(k)
    <2>1. TypeOK'
      BY <1>4, IdleTypes DEF IInv, TypeOK, AckCancel, cancel, AckOK
    <2>2. TimerHasRow'
      BY <1>4 DEF IInv, TypeOK, AckCancel, cancel, TimerHasRow
    <2>3. \A m \in Acks : AckOK(m)'
      BY <1>4 DEF IInv, TypeOK, AckCancel, AckOK, IdleAck
    <2>4. RowShape' /\ \A s \in Sweeps : SweepOK(s)'
      BY <1>4 DEF IInv, AckCancel, RowShape, SweepOK
    <2>5. QED BY <2>1, <2>2, <2>3, <2>4 DEF IInv
  <1>5. CASE AckAbort(k)
    <2>1. TypeOK'
      BY <1>5, IdleTypes DEF IInv, TypeOK, AckAbort
    <2>2. \A m \in Acks : AckOK(m)'
      BY <1>5 DEF IInv, TypeOK, AckAbort, AckOK, IdleAck
    <2>3. TimerHasRow' /\ RowShape' /\ \A s \in Sweeps : SweepOK(s)'
      BY <1>5 DEF IInv, AckAbort, TimerHasRow, RowShape, SweepOK
    <2>4. QED BY <2>1, <2>2, <2>3 DEF IInv
  <1>6. QED BY <1>1, <1>2, <1>3, <1>4, <1>5

(***************************************************************************)
(* A step of sweep s that only replaces its own record, by one that is     *)
(* well formed and holds no new entry.                                     *)
(***************************************************************************)
LEMMA OwnRecordStep ==
  ASSUME IInv, NEW s \in Sweeps, NEW w \in SweepType,
         sweep' = [sweep EXCEPT ![s] = w],
         UNCHANGED <<alert, rule, now, arming, ack, dispatched, acked, orphaned>>,
         unsent' \in [Alerts -> SUBSET Nat],
         due' \in [Alerts -> Nat \cup {NoTime}],
         \A a \in Alerts : due'[a] # NoTime => alert[a].status # "ABSENT",
         \A e \in w.todo : alert[e.alertId].status # "ABSENT",
         w.pc \in {"save", "dispatch", "arm", "cancel"} =>
            w.alertId \in Alerts /\ alert[w.alertId].status # "ABSENT",
         w.pc = "save" => w.row.status \in {"OPEN", "ESCALATED"} /\ RowOK(w.row),
         w.pc = "dispatch" => w.contact \in Nat
  PROVE  IInv'
  <1>1. TypeOK'
    BY DEF IInv, TypeOK
  <1>2. TimerHasRow'
    BY DEF IInv, TypeOK, TimerHasRow
  <1>3. RowShape' /\ \A k \in Acks : AckOK(k)'
    BY DEF IInv, RowShape, AckOK
  <1>4. \A x \in Sweeps : SweepOK(x)'
    BY DEF IInv, TypeOK, SweepOK
  <1>5. QED BY <1>1, <1>2, <1>3, <1>4 DEF IInv

(* The steps of a sweep. *)
LEMMA SweepStep ==
  ASSUME IInv, NEW s \in Sweeps,
         \/ SweepBegin(s) \/ SweepLoad(s) \/ SweepSave(s) \/ SweepDispatch(s)
         \/ SweepArm(s) \/ SweepCancel(s) \/ SweepEnd(s) \/ SweepAbort(s)
  PROVE  IInv'
  <1>1. /\ sweep[s] \in SweepType /\ SweepOK(s)
        /\ \A e \in sweep[s].todo : alert[e.alertId].status # "ABSENT"
        /\ due \in [Alerts -> Nat \cup {NoTime}] /\ unsent \in [Alerts -> SUBSET Nat]
        /\ \A a \in Alerts : due[a] # NoTime => alert[a].status # "ABSENT"
    BY DEF IInv, TypeOK, TimerHasRow
  <1> DEFINE done == [IdleSweep EXCEPT
                        !.pc = "next", !.now = sweep[s].now, !.todo = sweep[s].todo]
  <1>2. /\ done \in SweepType /\ done.pc = "next" /\ done.todo = sweep[s].todo
    BY <1>1, IdleTypes DEF SweepType, IdleSweep
  <1>3. CASE SweepBegin(s)
    <2> DEFINE w == [IdleSweep EXCEPT
                       !.pc = "next", !.now = now, !.todo = dueEntries(now)]
    <2>1. dueEntries(now) \subseteq DueTimer
      BY <1>1 DEF dueEntries, DueTimer, IInv, TypeOK
    <2>2. w \in SweepType /\ w.pc = "next" /\ w.todo = dueEntries(now)
      BY <2>1, IdleTypes DEF SweepType, IdleSweep, IInv, TypeOK
    <2>3. \A e \in dueEntries(now) : alert[e.alertId].status # "ABSENT"
      BY <1>1 DEF dueEntries
    <2>4. sweep' = [sweep EXCEPT ![s] = w]
      BY <1>3 DEF SweepBegin
    <2> HIDE DEF w
    <2>5. UNCHANGED <<alert, due, rule, now, arming, ack, dispatched, unsent, acked, orphaned>>
      BY <1>3 DEF SweepBegin
    <2>6. QED
      BY <1>1, <2>2, <2>3, <2>4, <2>5, OwnRecordStep
  <1>4. CASE SweepLoad(s)
    <2> PICK e \in sweep[s].todo : sweep' = [sweep EXCEPT ![s] = AfterLoad(s, e)]
      BY <1>4 DEF SweepLoad
    <2> DEFINE w == AfterLoad(s, e)
    <2>1. sweep[s].pc = "next"
      BY <1>4 DEF SweepLoad
    <2>2. /\ w \in SweepType
          /\ w.todo \subseteq sweep[s].todo
          /\ w.pc \in {"save", "dispatch", "arm", "cancel"} => w.alertId = e.alertId
          /\ w.pc = "save" => w.row.status \in {"OPEN", "ESCALATED"} /\ RowOK(w.row)
          /\ w.pc # "dispatch"
      BY <2>1, AfterLoadOK
    <2>3. e.alertId \in Alerts /\ alert[e.alertId].status # "ABSENT"
      BY <1>1 DEF SweepType, DueTimer
    <2>4. sweep' = [sweep EXCEPT ![s] = w]
      OBVIOUS
    <2> HIDE DEF w
    <2>5. UNCHANGED <<alert, due, rule, now, arming, ack, dispatched, unsent, acked, orphaned>>
      BY <1>4 DEF SweepLoad
    <2>6. \A f \in w.todo : alert[f.alertId].status # "ABSENT"
      BY <1>1, <2>2
    <2>7. /\ w.pc \in {"save", "dispatch", "arm", "cancel"} =>
               w.alertId \in Alerts /\ alert[w.alertId].status # "ABSENT"
          /\ w.pc = "dispatch" => w.contact \in Nat
          /\ w.pc = "save" => w.row.status \in {"OPEN", "ESCALATED"} /\ RowOK(w.row)
          /\ w \in SweepType
      BY <2>2, <2>3
    <2>8. due' \in [Alerts -> Nat \cup {NoTime}] /\ unsent' \in [Alerts -> SUBSET Nat]
          /\ \A a \in Alerts : due'[a] # NoTime => alert[a].status # "ABSENT"
      BY <1>1, <2>5
    <2>9. QED
      BY <2>4, <2>5, <2>6, <2>7, <2>8, OwnRecordStep
  <1>5. CASE SweepSave(s)
    <2>1. sweep[s].pc = "save"
      BY <1>5 DEF SweepSave
    <2>2. RowsKept
      BY <1>1, <1>5, <2>1, SaveKeepsRows DEF SweepSave, SweepOK, SweepType
    <2> DEFINE p == IF sweep[s].contact = NoContact THEN "cancel" ELSE "dispatch"
    <2>a. [sweep[s] EXCEPT !.pc = p] \in SweepType
      BY <1>1 DEF SweepType
    <2>b. sweep' \in [Sweeps -> SweepType]
      BY <1>5, <2>a DEF IInv, TypeOK, SweepSave
    <2>3. TypeOK'
      BY <1>5, <2>2, <2>b DEF IInv, TypeOK, RowsKept, SweepSave
    <2>4. TimerHasRow'
      BY <1>5, <2>2 DEF IInv, TypeOK, RowsKept, SweepSave, TimerHasRow, SweepType, DueTimer
    <2>5. \A k \in Acks : AckOK(k)'
      BY <1>5, <2>2 DEF IInv, TypeOK, RowsKept, SweepSave, AckOK
    <2>6. \A x \in Sweeps : SweepOK(x)'
      BY <1>5, <2>1, <2>2 DEF IInv, TypeOK, RowsKept, SweepSave, SweepOK, SweepType
    <2>7. QED BY <2>2, <2>3, <2>4, <2>5, <2>6 DEF IInv, RowShape, RowsKept
  <1>6. CASE SweepDispatch(s)
    <2>1. sweep[s].pc = "dispatch" /\ sweep[s].row.level \in Nat /\ sweep[s].alertId \in Alerts
      BY <1>1, <1>6 DEF SweepDispatch, SweepOK, SweepType, Row
    <2>2. dispatched' \in [Alerts -> Seq(Nat)]
      BY <1>6, <2>1 DEF SweepDispatch, IInv, TypeOK
    <2> DEFINE p == IF sweep[s].nextDueAt = NoTime THEN "cancel" ELSE "arm"
    <2>a. [sweep[s] EXCEPT !.pc = p] \in SweepType
      BY <1>1 DEF SweepType
    <2>b. sweep' \in [Sweeps -> SweepType]
      BY <1>6, <2>a DEF IInv, TypeOK, SweepDispatch
    <2>3. TypeOK'
      BY <1>6, <2>2, <2>b DEF SweepDispatch, IInv, TypeOK
    <2>4. TimerHasRow' /\ RowShape' /\ \A k \in Acks : AckOK(k)'
      BY <1>6 DEF SweepDispatch, IInv, TypeOK, TimerHasRow, RowShape, AckOK, SweepType
    <2>5. \A x \in Sweeps : SweepOK(x)'
      BY <1>6, <2>1 DEF SweepDispatch, IInv, TypeOK, SweepOK, SweepType
    <2>6. QED BY <2>3, <2>4, <2>5 DEF IInv
  <1>7. CASE SweepArm(s) \/ SweepCancel(s)
    <2>1. sweep[s].alertId \in Alerts /\ alert[sweep[s].alertId].status # "ABSENT"
      BY <1>1, <1>7 DEF SweepArm, SweepCancel, SweepOK
    <2>2. due' \in [Alerts -> Nat \cup {NoTime}]
      BY <1>1, <1>7, <2>1 DEF SweepArm, SweepCancel, schedule, cancel, SweepType
    <2>3. \A a \in Alerts : due'[a] # NoTime => alert[a].status # "ABSENT"
      BY <1>1, <1>7, <2>1 DEF SweepArm, SweepCancel, schedule, cancel
    <2>4. sweep' = [sweep EXCEPT ![s] = done]
      BY <1>7 DEF SweepArm, SweepCancel, EntryDone
    <2> HIDE DEF done
    <2>5. QED
      BY <1>1, <1>2, <1>7, <2>2, <2>3, <2>4, OwnRecordStep DEF SweepArm, SweepCancel
  <1>8. CASE SweepEnd(s) \/ SweepAbort(s)
    <2>1. sweep' = [sweep EXCEPT ![s] = IdleSweep]
      BY <1>8 DEF SweepEnd, SweepAbort
    <2>2. IdleSweep.pc = "idle" /\ IdleSweep.todo = {}
      BY DEF IdleSweep
    <2>3. unsent' \in [Alerts -> SUBSET Nat]
      BY <1>1, <1>8 DEF SweepEnd, SweepAbort, SweepType, Row
    <2>4. QED
      BY <1>1, <1>8, <2>1, <2>2, <2>3, IdleTypes, OwnRecordStep DEF SweepEnd, SweepAbort
  <1>9. QED BY <1>3, <1>4, <1>5, <1>6, <1>7, <1>8

(* Every step keeps the invariant. *)
LEMMA NextIInv == IInv /\ [Next]_vars => IInv'
  <1> SUFFICES ASSUME IInv, [Next]_vars PROVE IInv'
    OBVIOUS
  <1>1. CASE Begin \/ Resume \/ Abort
    BY <1>1, CreateStep, AckStep, SweepStep DEF Begin, Resume, Abort
  <1>2. CASE UpsertRule
    BY <1>2 DEF UpsertRule, IInv, TypeOK, TimerHasRow, RowShape, AckOK, SweepOK
  <1>3. CASE Clock
    BY <1>3 DEF Clock, IInv, TypeOK, TimerHasRow, RowShape, AckOK, SweepOK
  <1>4. CASE UNCHANGED vars
    BY <1>4 DEF vars, IInv, TypeOK, TimerHasRow, RowShape, AckOK, SweepOK
  <1>5. QED BY <1>1, <1>2, <1>3, <1>4 DEF Next

(* IInv holds in every state. *)
LEMMA Inductive == Spec => []IInv
  BY InitIInv, NextIInv, PTL DEF Spec

(* The variables keep their types in every behaviour of the engine, with    *)
(* any number of overlapping and aborted calls.                             *)
THEOREM TypeCorrect == Spec => []TypeOK
  BY Inductive, PTL DEF IInv

(* No interleaving or abort of createAlert, acknowledge and tickEscalations *)
(* stores a row outside the shapes of RowOK: stale saves may undo one       *)
(* another, but the level stays within the chain (P34), ESCALATED means the *)
(* chain is used up, and acknowledgedBy goes with the acknowledged status.  *)
THEOREM RowsWellFormed == Spec => []RowShape
  BY Inductive, PTL DEF IInv

(* Every timer, and every entry a sweep holds, belongs to a saved alert.    *)
THEOREM TimersHaveRows == Spec => []TimerHasRow
  BY Inductive, PTL DEF IInv

-----------------------------------------------------------------------------
(***************************************************************************)
(* Calls that do not overlap: an acknowledged alert stays acknowledged and *)
(* quiet, and the stored rows behave as AlertLifecycle promises, although  *)
(* any call may die between two awaits and the rule may change under a     *)
(* sweep.                                                                  *)
(***************************************************************************)

-----------------------------------------------------------------------------
(* The inductive invariant of SerialSpec.  One acknowledge or one sweep is  *)
(* in flight, so what it loaded is still what is stored.                    *)

OneCall ==
  /\ \A k, m \in Acks : ack[k].pc # "idle" /\ ack[m].pc # "idle" => k = m
  /\ \A s, x \in Sweeps : sweep[s].pc # "idle" /\ sweep[x].pc # "idle" => s = x
  /\ \A k \in Acks, s \in Sweeps : ack[k].pc = "idle" \/ sweep[s].pc = "idle"

(* Row r, acknowledged by u. *)
Acknowledged(r, u) == [r EXCEPT !.status = "ACKNOWLEDGED", !.by = u]

(* Row r, one level up a chain of the given length. *)
Climbed(r, chain) ==
  [r EXCEPT !.level = @ + 1,
            !.status = IF r.level + 1 = chain THEN "ESCALATED" ELSE "OPEN"]

AckFresh(k) ==
  LET r == alert[ack[k].alertId]
  IN  /\ ack[k].pc = "save" =>
           /\ r.status \in {"OPEN", "ESCALATED"}
           /\ \E u \in Users : ack[k].row = Acknowledged(r, u)
      /\ ack[k].pc = "cancel" => r.status = "ACKNOWLEDGED"

SweepFresh(s) ==
  LET r == alert[sweep[s].alertId]
  IN  /\ sweep[s].pc = "save" =>
           /\ r.status = "OPEN"
           /\ \E q \in Rules :
                \/ r.level < q.chain /\ sweep[s].row = Climbed(r, q.chain)
                \/ r.level >= q.chain /\ sweep[s].row = [r EXCEPT !.status = "ESCALATED"]
      /\ sweep[s].pc \in {"save", "dispatch"} => sweep[s].alertId \notin acked

SerialInv ==
  /\ IInv
  /\ OneCall
  /\ AckIsFinal
  /\ \A k \in Acks : AckFresh(k)
  /\ \A s \in Sweeps : SweepFresh(s)

-----------------------------------------------------------------------------
(* What a sweep is about to save is a step of the life cycle of the row it  *)
(* has just loaded.                                                         *)
LEMMA AfterLoadFresh ==
  ASSUME IInv, NEW s \in Sweeps, sweep[s].pc = "next", NEW e \in sweep[s].todo,
         AfterLoad(s, e).pc = "save"
  PROVE  LET r == alert[e.alertId]
             w == AfterLoad(s, e)
         IN  /\ w.alertId = e.alertId
             /\ r.status = "OPEN"
             /\ \E q \in Rules :
                  \/ r.level < q.chain /\ w.row = Climbed(r, q.chain)
                  \/ r.level >= q.chain /\ w.row = [r EXCEPT !.status = "ESCALATED"]
  <1> DEFINE r == alert[e.alertId]
             w == AfterLoad(s, e)
             d == decideTick(r.status, r.level, e.dueAt, rule.chain,
                             intervalMsOf(rule.interval), sweep[s].now)
  <1>1. sweep[s] \in SweepType /\ e \in DueTimer /\ r \in Row
    BY DEF IInv, TypeOK, SweepType, DueTimer
  <1>2. r.level \in Nat /\ rule \in Rules /\ rule.chain \in Nat
    BY <1>1, RuleType DEF IInv, TypeOK, Row
  <1>3. d.action \notin {"drop", "wait"}
    <2>1. CASE d.action = "drop"
      <3>1. w.pc = "cancel"
        BY <1>1, <2>1 DEF AfterLoad, SweepType
      <3>2. QED BY <3>1
    <2>2. CASE d.action = "wait"
      <3>1. w.pc = "next"
        BY <1>1, <2>2 DEF AfterLoad, SweepType
      <3>2. QED BY <3>1
    <2>3. QED BY <2>1, <2>2
  <1>4. /\ r.status = "OPEN"
        /\ \/ r.level >= rule.chain /\ d.nextStatus = "ESCALATED" /\ d.nextLevel = r.level
           \/ /\ r.level < rule.chain
              /\ d.nextStatus = IF r.level + 1 = rule.chain THEN "ESCALATED" ELSE "OPEN"
              /\ d.nextLevel = r.level + 1
    BY <1>2, <1>3 DEF decideTick
  <1> HIDE DEF d
  <1>5. legalTransition(r.status, d.nextStatus)
    BY <1>4 DEF legalTransition, ALLOWED_TARGETS
  <1>6. /\ w.alertId = e.alertId
        /\ w.row = [r EXCEPT !.status = d.nextStatus, !.level = d.nextLevel]
    BY <1>1, <1>3, <1>5 DEF AfterLoad, SweepType, d
  <1>7. CASE r.level >= rule.chain
    <2>1. d.nextStatus = "ESCALATED" /\ d.nextLevel = r.level
      BY <1>2, <1>4, <1>7
    <2>2. w.row = [r EXCEPT !.status = "ESCALATED"]
      <3> HIDE DEF r, w
      <3> QED BY <1>1, <1>6, <2>1 DEF Row
    <2>3. QED BY <1>2, <1>4, <1>6, <1>7, <2>2
  <1>8. CASE r.level < rule.chain
    <2>1. /\ d.nextStatus = IF r.level + 1 = rule.chain THEN "ESCALATED" ELSE "OPEN"
          /\ d.nextLevel = r.level + 1
      BY <1>2, <1>4, <1>8
    <2>2. w.row = Climbed(r, rule.chain)
      <3> HIDE DEF r, w
      <3> QED BY <1>1, <1>2, <1>6, <2>1 DEF Row, Climbed
    <2>3. QED BY <1>2, <1>4, <1>6, <1>8, <2>2
  <1>9. QED BY <1>2, <1>7, <1>8

(* A serial step is a step. *)
LEMMA SerialImpliesNext == [SerialNext]_vars => [Next]_vars
  BY DEF SerialNext, Next

(* No call is in progress at first. *)
LEMMA InitSerialInv == Init => SerialInv
  <1> SUFFICES ASSUME Init PROVE SerialInv
    OBVIOUS
  <1>1. IInv
    BY InitIInv
  <1>2. OneCall /\ AckIsFinal
    BY DEF Init, OneCall, AckIsFinal, IdleAck, IdleSweep
  <1>3. \A k \in Acks : AckFresh(k)
    BY DEF Init, AckFresh, IdleAck
  <1>4. \A s \in Sweeps : SweepFresh(s)
    BY DEF Init, SweepFresh, IdleSweep
  <1>5. QED BY <1>1, <1>2, <1>3, <1>4 DEF SerialInv

(* While no call is in flight nothing is held in memory. *)
LEMMA QuietIsFresh ==
  ASSUME \A k \in Acks : ack[k].pc = "idle", \A s \in Sweeps : sweep[s].pc = "idle"
  PROVE  OneCall /\ (\A k \in Acks : AckFresh(k)) /\ (\A s \in Sweeps : SweepFresh(s))
  BY DEF OneCall, AckFresh, SweepFresh

(* Steps that store no row and leave the calls and `acked` alone. *)
LEMMA NothingHeldChanges ==
  ASSUME SerialInv, IInv', UNCHANGED <<alert, ack, sweep, acked>>
  PROVE  SerialInv'
  BY DEF SerialInv, OneCall, AckIsFinal, AckFresh, SweepFresh

(* A call begins: none is in flight. *)
LEMMA BeginSerial ==
  ASSUME SerialInv, IInv', Quiet, Begin
  PROVE  SerialInv'
  <1>1. /\ \A k \in Acks : ack[k].pc = "idle"
        /\ \A s \in Sweeps : sweep[s].pc = "idle"
    BY DEF Quiet
  <1>2. CASE \E a \in Alerts : CreateSave(a)
    <2> PICK a \in Alerts : CreateSave(a)
      BY <1>2
    <2>1. AckIsFinal'
      BY DEF CreateSave, SerialInv, AckIsFinal, IInv, TypeOK
    <2>2. UNCHANGED <<ack, sweep, acked>>
      BY DEF CreateSave
    <2>3. OneCall' /\ (\A k \in Acks : AckFresh(k)') /\ (\A s \in Sweeps : SweepFresh(s)')
      BY <1>1, <2>2 DEF OneCall, AckFresh, SweepFresh
    <2>4. QED BY <2>1, <2>3 DEF SerialInv
  <1>3. CASE \E k \in Acks, a \in Alerts, u \in Users : AckLoad(k, a, u)
    <2> PICK k \in Acks, a \in Alerts, u \in Users : AckLoad(k, a, u)
      BY <1>3
    <2>1. /\ ack' = [ack EXCEPT ![k] = [pc |-> "save", alertId |-> a,
                                        row |-> Acknowledged(alert[a], u)]]
          /\ UNCHANGED <<alert, sweep, acked>>
      BY DEF AckLoad, Acknowledged
    <2>2. alert[a].status \in {"OPEN", "ESCALATED"}
      <3>1. alert[a].status \in Status \ {"ABSENT"}
        BY DEF AckLoad, SerialInv, IInv, TypeOK, Row
      <3>2. decideAcknowledge(alert[a].status) = "acknowledge"
        BY DEF AckLoad
      <3>3. QED
        BY <3>1, <3>2 DEF decideAcknowledge, legalTransition, ALLOWED_TARGETS, Status
    <2>3. \A m \in Acks : ack'[m] = IF m = k THEN [pc |-> "save", alertId |-> a,
                                                   row |-> Acknowledged(alert[a], u)]
                                    ELSE ack[m]
      BY <2>1 DEF SerialInv, IInv, TypeOK
    <2>4. \A m \in Acks : AckFresh(m)'
      BY <1>1, <2>1, <2>2, <2>3 DEF AckFresh
    <2>5. OneCall'
      BY <1>1, <2>1, <2>3 DEF OneCall
    <2>6. AckIsFinal' /\ \A s \in Sweeps : SweepFresh(s)'
      BY <2>1 DEF SerialInv, AckIsFinal, SweepFresh
    <2>7. QED BY <2>4, <2>5, <2>6 DEF SerialInv
  <1>4. CASE \E k \in Acks, a \in Alerts : AckNoop(k, a)
    <2> PICK k \in Acks, a \in Alerts : AckNoop(k, a)
      BY <1>4
    <2>1. UNCHANGED <<alert, ack, sweep>> /\ acked' = acked \cup {a}
      BY DEF AckNoop
    <2>2. alert[a].status = "ACKNOWLEDGED"
      BY DEF AckNoop, decideAcknowledge
    <2>3. AckIsFinal'
      BY <2>1, <2>2 DEF SerialInv, AckIsFinal
    <2>4. OneCall' /\ (\A m \in Acks : AckFresh(m)') /\ (\A s \in Sweeps : SweepFresh(s)')
      BY <1>1, <2>1 DEF OneCall, AckFresh, SweepFresh
    <2>5. QED BY <2>3, <2>4 DEF SerialInv
  <1>5. CASE \E s \in Sweeps : SweepBegin(s)
    <2> PICK s \in Sweeps : SweepBegin(s)
      BY <1>5
    <2>1. /\ UNCHANGED <<alert, ack, acked>>
          /\ \A x \in Sweeps : x # s => sweep'[x] = sweep[x]
          /\ sweep'[s].pc = "next"
      BY IdleTypes DEF SweepBegin, SerialInv, IInv, TypeOK, IdleSweep
    <2>2. OneCall' /\ (\A m \in Acks : AckFresh(m)') /\ (\A x \in Sweeps : SweepFresh(x)')
      BY <1>1, <2>1 DEF OneCall, AckFresh, SweepFresh
    <2>3. QED BY <2>1, <2>2 DEF SerialInv, AckIsFinal
  <1>6. QED BY <1>2, <1>3, <1>4, <1>5 DEF Begin

(* The acknowledge call in flight goes on or dies. *)
LEMMA AckSerial ==
  ASSUME SerialInv, IInv', NEW k \in Acks, AckSave(k) \/ AckCancel(k) \/ AckAbort(k)
  PROVE  SerialInv'
  <1>1. ack[k].pc # "idle"
    BY DEF AckSave, AckCancel, AckAbort
  <1>2. /\ \A m \in Acks : m # k => ack[m].pc = "idle"
        /\ \A s \in Sweeps : sweep[s].pc = "idle"
    BY <1>1 DEF SerialInv, OneCall
  <1>3. UNCHANGED sweep /\ \A m \in Acks : m # k => ack'[m] = ack[m]
    BY DEF AckSave, AckCancel, AckAbort, SerialInv, IInv, TypeOK
  <1>4. OneCall' /\ (\A s \in Sweeps : SweepFresh(s)')
    BY <1>2, <1>3 DEF OneCall, SweepFresh
  <1>5. \A m \in Acks : m # k => AckFresh(m)'
    BY <1>2, <1>3 DEF AckFresh
  <1>6. /\ ack[k] \in AckType /\ AckFresh(k) /\ AckOK(k) /\ AckIsFinal
        /\ alert \in [Alerts -> Row]
    BY DEF SerialInv, IInv, TypeOK
  <1>7. CASE AckSave(k)
    <2>1. /\ ack[k].alertId \in Alerts /\ ack[k].row.status = "ACKNOWLEDGED"
          /\ alert' = [alert EXCEPT ![ack[k].alertId] = ack[k].row]
          /\ UNCHANGED acked
      BY <1>1, <1>6, <1>7 DEF AckSave, AckOK
    <2>2. ack'[k].pc = "cancel" /\ ack'[k].alertId = ack[k].alertId
      BY <1>6, <1>7 DEF AckSave, AckType, SerialInv, IInv, TypeOK
    <2>3. AckIsFinal'
      BY <1>6, <2>1 DEF AckIsFinal, SerialInv, IInv, TypeOK
    <2>4. AckFresh(k)'
      BY <1>6, <2>1, <2>2 DEF AckFresh
    <2>5. QED BY <1>4, <1>5, <2>3, <2>4 DEF SerialInv
  <1>8. CASE AckCancel(k)
    <2>1. alert[ack[k].alertId].status = "ACKNOWLEDGED"
      BY <1>6, <1>8 DEF AckCancel, AckFresh
    <2>2. AckIsFinal'
      BY <1>6, <1>8, <2>1 DEF AckCancel, AckIsFinal
    <2>3. ack'[k].pc = "idle"
      BY <1>8 DEF AckCancel, IdleAck, SerialInv, IInv, TypeOK
    <2>4. QED BY <1>4, <1>5, <2>2, <2>3 DEF SerialInv, AckFresh
  <1>9. CASE AckAbort(k)
    <2>1. ack'[k].pc = "idle" /\ UNCHANGED <<alert, acked>>
      BY <1>9 DEF AckAbort, IdleAck, SerialInv, IInv, TypeOK
    <2>2. QED BY <1>4, <1>5, <1>6, <2>1 DEF SerialInv, AckFresh, AckIsFinal
  <1>10. QED BY <1>7, <1>8, <1>9

(* The sweep in flight goes on or dies. *)
LEMMA SweepSerial ==
  ASSUME SerialInv, IInv', NEW s \in Sweeps,
         \/ SweepLoad(s) \/ SweepSave(s) \/ SweepDispatch(s)
         \/ SweepArm(s) \/ SweepCancel(s) \/ SweepEnd(s) \/ SweepAbort(s)
  PROVE  SerialInv'
  <1>1. sweep[s].pc # "idle"
    BY DEF SweepLoad, SweepSave, SweepDispatch, SweepArm, SweepCancel, SweepEnd, SweepAbort
  <1>2. /\ \A k \in Acks : ack[k].pc = "idle"
        /\ \A x \in Sweeps : x # s => sweep[x].pc = "idle"
    BY <1>1 DEF SerialInv, OneCall
  <1>3. UNCHANGED <<ack, acked>> /\ \A x \in Sweeps : x # s => sweep'[x] = sweep[x]
    BY DEF SweepLoad, SweepSave, SweepDispatch, SweepArm, SweepCancel, SweepEnd, SweepAbort,
       EntryDone, SerialInv, IInv, TypeOK
  <1>4. OneCall' /\ (\A k \in Acks : AckFresh(k)')
    BY <1>2, <1>3 DEF OneCall, AckFresh
  <1>5. \A x \in Sweeps : x # s => SweepFresh(x)'
    BY <1>2, <1>3 DEF SweepFresh
  <1>6. /\ sweep[s] \in SweepType /\ SweepFresh(s) /\ SweepOK(s) /\ AckIsFinal
        /\ alert \in [Alerts -> Row] /\ acked \subseteq Alerts
    BY DEF SerialInv, IInv, TypeOK
  <1>7. CASE SweepLoad(s)
    <2> PICK e \in sweep[s].todo : sweep' = [sweep EXCEPT ![s] = AfterLoad(s, e)]
      BY <1>7 DEF SweepLoad
    <2>1. sweep[s].pc = "next" /\ UNCHANGED alert
      BY <1>7 DEF SweepLoad
    <2>2. sweep'[s] = AfterLoad(s, e)
      BY DEF SerialInv, IInv, TypeOK
    <2>3. AfterLoad(s, e).pc # "dispatch"
      BY <2>1, AfterLoadOK DEF SerialInv
    <2>4. SweepFresh(s)'
      <3>1. CASE AfterLoad(s, e).pc = "save"
        <4>1. /\ sweep'[s].alertId = e.alertId /\ alert[e.alertId].status = "OPEN"
              /\ \E q \in Rules :
                   LET r == alert[e.alertId]
                   IN  \/ r.level < q.chain /\ sweep'[s].row = Climbed(r, q.chain)
                       \/ r.level >= q.chain
                            /\ sweep'[s].row = [r EXCEPT !.status = "ESCALATED"]
          BY <2>1, <2>2, <3>1, AfterLoadFresh DEF SerialInv
        <4>2. e.alertId \notin acked
          BY <1>6, <4>1 DEF AckIsFinal
        <4>3. QED BY <1>3, <2>1, <4>1, <4>2 DEF SweepFresh
      <3>2. CASE AfterLoad(s, e).pc # "save"
        BY <2>2, <2>3, <3>2 DEF SweepFresh
      <3>3. QED BY <3>1, <3>2
    <2>5. QED BY <1>3, <1>4, <1>5, <1>6, <2>1, <2>4 DEF SerialInv, AckIsFinal
  <1>8. CASE SweepSave(s)
    <2>1. /\ sweep[s].pc = "save" /\ sweep[s].alertId \in Alerts
          /\ sweep[s].alertId \notin acked
          /\ alert' = [alert EXCEPT ![sweep[s].alertId] = sweep[s].row]
      BY <1>6, <1>8 DEF SweepSave, SweepOK, SweepFresh
    <2>2. sweep'[s].pc # "save" /\ sweep'[s].alertId = sweep[s].alertId
      BY <1>6, <1>8 DEF SweepSave, SweepType, SerialInv, IInv, TypeOK
    <2>3. AckIsFinal' /\ SweepFresh(s)'
      BY <1>3, <1>6, <2>1, <2>2 DEF AckIsFinal, SweepFresh
    <2>4. QED BY <1>4, <1>5, <2>3 DEF SerialInv
  <1>9. CASE \/ SweepDispatch(s) \/ SweepArm(s) \/ SweepCancel(s)
             \/ SweepEnd(s) \/ SweepAbort(s)
    <2>1. sweep'[s].pc \notin {"save", "dispatch"} /\ UNCHANGED alert
      <3>1. CASE SweepDispatch(s)
        BY <1>6, <3>1 DEF SweepDispatch, SweepType, SerialInv, IInv, TypeOK
      <3>2. CASE SweepArm(s) \/ SweepCancel(s)
        BY <3>2 DEF SweepArm, SweepCancel, EntryDone, IdleSweep, SerialInv, IInv, TypeOK
      <3>3. CASE SweepEnd(s) \/ SweepAbort(s)
        BY <3>3 DEF SweepEnd, SweepAbort, IdleSweep, SerialInv, IInv, TypeOK
      <3>4. QED BY <1>9, <3>1, <3>2, <3>3
    <2>2. AckIsFinal' /\ SweepFresh(s)'
      BY <1>3, <1>6, <2>1 DEF AckIsFinal, SweepFresh
    <2>3. QED BY <1>4, <1>5, <2>2 DEF SerialInv
  <1>10. QED BY <1>7, <1>8, <1>9

(* Every serial step keeps the invariant. *)
LEMMA NextSerialInv == SerialInv /\ [SerialNext]_vars => SerialInv'
  <1> SUFFICES ASSUME SerialInv, [SerialNext]_vars PROVE SerialInv'
    OBVIOUS
  <1>1. IInv'
    BY SerialImpliesNext, NextIInv DEF SerialInv
  <1>2. CASE Quiet /\ Begin
    BY <1>1, <1>2, BeginSerial
  <1>3. CASE \E a \in Alerts : CreateArm(a) \/ CreateAbort(a)
    BY <1>1, <1>3, NothingHeldChanges DEF CreateArm, CreateAbort
  <1>4. CASE \E k \in Acks : AckSave(k) \/ AckCancel(k) \/ AckAbort(k)
    BY <1>1, <1>4, AckSerial
  <1>5. CASE \E s \in Sweeps : \/ SweepLoad(s) \/ SweepSave(s) \/ SweepDispatch(s)
                               \/ SweepArm(s) \/ SweepCancel(s) \/ SweepEnd(s) \/ SweepAbort(s)
    BY <1>1, <1>5, SweepSerial
  <1>6. CASE UpsertRule \/ Clock \/ UNCHANGED vars
    BY <1>1, <1>6, NothingHeldChanges DEF UpsertRule, Clock, vars
  <1>7. QED BY <1>2, <1>3, <1>4, <1>5, <1>6 DEF SerialNext, Resume, Abort

(* SerialInv holds in every state. *)
LEMMA SerialInductive == SerialSpec => []SerialInv
  BY InitSerialInv, NextSerialInv, PTL DEF SerialSpec

-----------------------------------------------------------------------------
(* Once an acknowledge call has returned, the alert stays ACKNOWLEDGED      *)
(* (P33), whichever calls die and however the rule is edited, as long as    *)
(* the calls of the service do not overlap.                                 *)
THEOREM AckFinalWhenSerial == SerialSpec => []AckIsFinal
  BY SerialInductive, PTL DEF SerialInv

(* Only a dispatch of a sweep notifies, and never about an alert whose      *)
(* acknowledgement has returned.                                            *)
LEMMA QuietAboutAcked ==
  SerialInv /\ [SerialNext]_vars => [\A a \in acked : dispatched'[a] = dispatched[a]]_dispatched
  <1> SUFFICES ASSUME SerialInv, [SerialNext]_vars, dispatched' # dispatched
               PROVE  \A a \in acked : dispatched'[a] = dispatched[a]
    OBVIOUS
  <1>1. PICK s \in Sweeps : SweepDispatch(s)
    BY DEF SerialNext, Begin, Resume, Abort, CreateSave, CreateArm, CreateAbort, AckLoad, AckNoop,
       AckSave, AckCancel, AckAbort, SweepBegin, SweepLoad, SweepSave, SweepArm, SweepCancel,
       SweepEnd, SweepAbort, UpsertRule, Clock, vars
  <1>2. sweep[s].alertId \notin acked
    BY <1>1 DEF SweepDispatch, SerialInv, SweepFresh
  <1>3. acked \subseteq Alerts /\ dispatched \in [Alerts -> Seq(Nat)]
    BY DEF SerialInv, IInv, TypeOK
  <1>4. QED BY <1>1, <1>2, <1>3 DEF SweepDispatch

(* No contact is dispatched for an alert after its acknowledge call has     *)
(* returned.                                                                *)
THEOREM AckedStaysQuiet == SerialSpec => AckedNotNotified
  BY SerialInductive, QuietAboutAcked, PTL DEF SerialSpec, AckedNotNotified

-----------------------------------------------------------------------------
(* No OPEN alert is stranded.  A sweep that leaves its alert OPEN keeps the *)
(* due time it will arm; one that will drop the timer has seen the alert    *)
(* leave OPEN.                                                              *)

SweepDecided(s) ==
  LET w == sweep[s]
  IN  /\ w.pc = "save" /\ w.row.status = "OPEN" =>
           w.contact # NoContact /\ w.nextDueAt # NoTime
      /\ w.pc = "dispatch" /\ w.nextDueAt = NoTime => alert[w.alertId].status # "OPEN"
      /\ w.pc = "cancel" => alert[w.alertId].status # "OPEN"
      /\ w.pc = "arm" => w.nextDueAt # NoTime

WatchInv == SerialInv /\ OpenIsWatched /\ \A s \in Sweeps : SweepDecided(s)

(* No alert is open at first. *)
LEMMA InitWatchInv == Init => WatchInv
  <1> SUFFICES ASSUME Init PROVE WatchInv
    OBVIOUS
  <1> PICK u \in Users :
        alert = [a \in Alerts |-> IF a \in Seeded
                                  THEN [status |-> "CLOSED", level |-> 0, by |-> u]
                                  ELSE NoRow]
    BY DEF Init
  <1>1. \A a \in Alerts : alert[a].status # "OPEN"
    BY DEF NoRow
  <1>2. \A s \in Sweeps : SweepDecided(s)
    BY DEF Init, SweepDecided, IdleSweep
  <1>3. QED BY <1>1, <1>2, InitSerialInv DEF WatchInv, OpenIsWatched

(* A call begins: an alert is raised together with the due time to arm. *)
LEMMA BeginWatch ==
  ASSUME WatchInv, Quiet, Begin
  PROVE  OpenIsWatched' /\ \A s \in Sweeps : SweepDecided(s)'
  <1>1. \A s \in Sweeps : sweep[s].pc = "idle"
    BY DEF Quiet
  <1>2. CASE \E a \in Alerts : CreateSave(a)
    <2> PICK a \in Alerts : CreateSave(a)
      BY <1>2
    <2>1. now \in Nat /\ intervalMsOf(rule.interval) \in Nat
      BY RuleType DEF WatchInv, SerialInv, IInv, TypeOK
    <2>2. arming'[a] # NoTime
      BY <2>1 DEF CreateSave, NoTime, WatchInv, SerialInv, IInv, TypeOK
    <2>3. \A b \in Alerts : b # a => alert'[b] = alert[b] /\ arming'[b] = arming[b]
      BY DEF CreateSave, WatchInv, SerialInv, IInv, TypeOK
    <2>4. UNCHANGED <<due, sweep, orphaned>>
      BY DEF CreateSave
    <2>5. OpenIsWatched'
      BY <2>2, <2>3, <2>4 DEF WatchInv, OpenIsWatched
    <2>6. QED BY <1>1, <2>4, <2>5 DEF SweepDecided
  <1>3. CASE \/ \E k \in Acks, a \in Alerts, u \in Users : AckLoad(k, a, u)
             \/ \E k \in Acks, a \in Alerts : AckNoop(k, a)
    BY <1>3 DEF AckLoad, AckNoop, WatchInv, OpenIsWatched, SweepDecided
  <1>4. CASE \E s \in Sweeps : SweepBegin(s)
    <2> PICK s \in Sweeps : SweepBegin(s)
      BY <1>4
    <2>1. /\ \A x \in Sweeps : sweep'[x].pc \in {"idle", "next"}
          /\ UNCHANGED <<alert, due, arming, orphaned>>
      BY <1>1 DEF SweepBegin, IdleSweep, WatchInv, SerialInv, IInv, TypeOK
    <2>2. QED BY <2>1 DEF WatchInv, OpenIsWatched, SweepDecided
  <1>5. QED BY <1>2, <1>3, <1>4 DEF Begin

(* The acknowledge call in flight: it drops the timer of the alert only     *)
(* after the row has left OPEN.                                             *)
LEMMA AckWatch ==
  ASSUME WatchInv, NEW k \in Acks, AckSave(k) \/ AckCancel(k) \/ AckAbort(k)
  PROVE  OpenIsWatched' /\ \A s \in Sweeps : SweepDecided(s)'
  <1>1. \A s \in Sweeps : sweep[s].pc = "idle"
    BY DEF AckSave, AckCancel, AckAbort, WatchInv, SerialInv, OneCall
  <1>2. UNCHANGED <<sweep, arming, orphaned>>
    BY DEF AckSave, AckCancel, AckAbort
  <1>3. /\ AckOK(k) /\ AckFresh(k) /\ alert \in [Alerts -> Row]
        /\ due \in [Alerts -> Nat \cup {NoTime}]
    BY DEF WatchInv, SerialInv, IInv, TypeOK
  <1>4. CASE AckSave(k)
    BY <1>1, <1>2, <1>3, <1>4 DEF AckSave, AckOK, WatchInv, OpenIsWatched, SweepDecided
  <1>5. CASE AckCancel(k)
    BY <1>1, <1>2, <1>3, <1>5
       DEF AckCancel, AckFresh, cancel, WatchInv, OpenIsWatched, SweepDecided
  <1>6. CASE AckAbort(k)
    BY <1>1, <1>2, <1>6 DEF AckAbort, WatchInv, OpenIsWatched, SweepDecided
  <1>7. QED BY <1>4, <1>5, <1>6

(* The sweep in flight: whatever it stores or drops, an OPEN alert keeps a  *)
(* timer.                                                                   *)
LEMMA SweepWatch ==
  ASSUME WatchInv, NEW s \in Sweeps,
         \/ SweepLoad(s) \/ SweepSave(s) \/ SweepDispatch(s)
         \/ SweepArm(s) \/ SweepCancel(s) \/ SweepEnd(s) \/ SweepAbort(s)
  PROVE  OpenIsWatched' /\ \A x \in Sweeps : SweepDecided(x)'
  <1>1. sweep[s].pc # "idle"
    BY DEF SweepLoad, SweepSave, SweepDispatch, SweepArm, SweepCancel, SweepEnd, SweepAbort
  <1>2. \A x \in Sweeps : x # s => sweep[x].pc = "idle"
    BY <1>1 DEF WatchInv, SerialInv, OneCall
  <1>3. UNCHANGED <<arming, orphaned>> /\ \A x \in Sweeps : x # s => sweep'[x] = sweep[x]
    BY DEF SweepLoad, SweepSave, SweepDispatch, SweepArm, SweepCancel, SweepEnd, SweepAbort,
       EntryDone, WatchInv, SerialInv, IInv, TypeOK
  <1>4. \A x \in Sweeps : x # s => SweepDecided(x)'
    BY <1>2, <1>3 DEF SweepDecided
  <1>5. /\ sweep[s] \in SweepType /\ SweepFresh(s) /\ SweepOK(s) /\ SweepDecided(s)
        /\ alert \in [Alerts -> Row] /\ due \in [Alerts -> Nat \cup {NoTime}]
        /\ sweep \in [Sweeps -> SweepType]
    BY DEF WatchInv, SerialInv, IInv, TypeOK
  <1>6. CASE SweepLoad(s)
    <2> PICK e \in sweep[s].todo : sweep' = [sweep EXCEPT ![s] = AfterLoad(s, e)]
      BY <1>6 DEF SweepLoad
    <2> DEFINE w == AfterLoad(s, e)
    <2>1. sweep[s].pc = "next" /\ UNCHANGED <<alert, due>>
      BY <1>6 DEF SweepLoad
    <2>2. sweep'[s] = w
      BY <1>5
    <2>3. /\ w.pc \in {"idle", "next", "save", "cancel"}
          /\ w.pc = "cancel" => w.alertId = e.alertId /\ alert[e.alertId].status # "OPEN"
      BY <2>1, AfterLoadOK, AfterLoadPlan DEF WatchInv, SerialInv
    <2>4. w.pc = "save" =>
            \/ w.row.status = "ESCALATED"
            \/ w.contact # NoContact /\ w.nextDueAt # NoTime
      <3> SUFFICES ASSUME w.pc = "save"
                   PROVE  \/ w.row.status = "ESCALATED"
                          \/ w.contact # NoContact /\ w.nextDueAt # NoTime
        OBVIOUS
      <3>1. e \in DueTimer /\ alert[e.alertId].level \in Nat
        BY <1>5 DEF SweepType, DueTimer, Row
      <3>2. \/ /\ w.contact = NoContact /\ w.row.level = alert[e.alertId].level
               /\ w.nextDueAt = NoTime /\ w.row.status = "ESCALATED"
            \/ /\ w.contact = alert[e.alertId].level
               /\ w.row.level = alert[e.alertId].level + 1
               /\ \/ w.nextDueAt = NoTime /\ w.row.status = "ESCALATED"
                  \/ w.nextDueAt \in Nat /\ w.nextDueAt >= e.dueAt
        BY <2>1, AfterLoadPlan DEF WatchInv, SerialInv
      <3> DEFINE l == alert[e.alertId].level
      <3>3. l # NoContact /\ \A n \in Nat : n # NoTime
        BY <3>1 DEF NoContact, NoTime
      <3> HIDE DEF w, l
      <3>4. QED BY <3>2, <3>3 DEF l
    <2> HIDE DEF w
    <2>5. SweepDecided(s)'
      BY <2>1, <2>2, <2>3, <2>4 DEF SweepDecided
    <2>6. QED BY <1>3, <1>4, <2>1, <2>5 DEF WatchInv, OpenIsWatched
  <1>7. CASE SweepSave(s)
    <2>1. /\ sweep[s].pc = "save" /\ sweep[s].alertId \in Alerts
          /\ alert[sweep[s].alertId].status = "OPEN"
          /\ alert' = [alert EXCEPT ![sweep[s].alertId] = sweep[s].row]
          /\ UNCHANGED due
      BY <1>5, <1>7 DEF SweepSave, SweepOK, SweepFresh
    <2>2. OpenIsWatched'
      BY <1>3, <1>5, <2>1 DEF WatchInv, OpenIsWatched
    <2>3. sweep'[s] = [sweep[s] EXCEPT
                         !.pc = IF sweep[s].contact = NoContact THEN "cancel" ELSE "dispatch"]
      BY <1>5, <1>7 DEF SweepSave
    <2>4. /\ sweep'[s].alertId = sweep[s].alertId /\ sweep'[s].nextDueAt = sweep[s].nextDueAt
          /\ sweep'[s].pc = IF sweep[s].contact = NoContact THEN "cancel" ELSE "dispatch"
      BY <1>5, <2>3 DEF SweepType
    <2>5. alert'[sweep[s].alertId] = sweep[s].row
      BY <1>5, <2>1
    <2>6. SweepDecided(s)'
      BY <1>5, <2>1, <2>4, <2>5 DEF SweepDecided
    <2>7. QED BY <1>4, <2>2, <2>6
  <1>8. CASE SweepDispatch(s)
    <2>1. /\ sweep'[s].alertId = sweep[s].alertId /\ sweep'[s].nextDueAt = sweep[s].nextDueAt
          /\ sweep'[s].pc = IF sweep[s].nextDueAt = NoTime THEN "cancel" ELSE "arm"
      BY <1>5, <1>8 DEF SweepDispatch, SweepType
    <2>2. UNCHANGED <<alert, due>> /\ sweep[s].pc = "dispatch"
      BY <1>8 DEF SweepDispatch
    <2>3. SweepDecided(s)'
      BY <1>5, <2>1, <2>2 DEF SweepDecided
    <2>4. QED BY <1>3, <1>4, <2>2, <2>3 DEF WatchInv, OpenIsWatched
  <1>9. CASE SweepArm(s) \/ SweepCancel(s)
    <2>1. sweep'[s].pc = "next" /\ UNCHANGED alert
      BY <1>5, <1>9 DEF SweepArm, SweepCancel, EntryDone, IdleSweep
    <2>2. OpenIsWatched'
      BY <1>3, <1>5, <1>9 DEF SweepArm, SweepCancel, schedule, cancel, SweepDecided,
         WatchInv, OpenIsWatched
    <2>3. QED BY <1>4, <2>1, <2>2 DEF SweepDecided
  <1>10. CASE SweepEnd(s) \/ SweepAbort(s)
    <2>1. sweep'[s].pc = "idle" /\ UNCHANGED <<alert, due>>
      BY <1>5, <1>10 DEF SweepEnd, SweepAbort, IdleSweep
    <2>2. QED BY <1>3, <1>4, <2>1 DEF SweepDecided, WatchInv, OpenIsWatched
  <1>11. QED BY <1>6, <1>7, <1>8, <1>9, <1>10

(* Every serial step keeps every open alert watched. *)
LEMMA NextWatchInv == WatchInv /\ [SerialNext]_vars => WatchInv'
  <1> SUFFICES ASSUME WatchInv, [SerialNext]_vars
               PROVE  OpenIsWatched' /\ \A s \in Sweeps : SweepDecided(s)'
    BY NextSerialInv DEF WatchInv
  <1>1. CASE Quiet /\ Begin
    BY <1>1, BeginWatch
  <1>2. CASE \E a \in Alerts : CreateArm(a) \/ CreateAbort(a)
    BY <1>2 DEF CreateArm, CreateAbort, schedule, WatchInv, SerialInv, IInv, TypeOK,
       OpenIsWatched, SweepDecided
  <1>3. CASE \E k \in Acks : AckSave(k) \/ AckCancel(k) \/ AckAbort(k)
    BY <1>3, AckWatch
  <1>4. CASE \E s \in Sweeps : \/ SweepLoad(s) \/ SweepSave(s) \/ SweepDispatch(s)
                               \/ SweepArm(s) \/ SweepCancel(s) \/ SweepEnd(s) \/ SweepAbort(s)
    BY <1>4, SweepWatch
  <1>5. CASE UpsertRule \/ Clock \/ UNCHANGED vars
    BY <1>5 DEF UpsertRule, Clock, vars, WatchInv, OpenIsWatched, SweepDecided
  <1>6. QED BY <1>1, <1>2, <1>3, <1>4, <1>5 DEF SerialNext, Resume, Abort

(* While the calls of the service do not overlap, an OPEN alert is in the   *)
(* sorted set or about to be put there, whichever sweep or acknowledge dies *)
(* half-way; only a createAlert that stops in between leaves one behind.    *)
THEOREM OpenStaysWatched == SerialSpec => []OpenIsWatched
  BY InitWatchInv, NextWatchInv, PTL DEF SerialSpec, WatchInv

-----------------------------------------------------------------------------
(* Refinement: the rows behave as AlertLifecycle allows. *)

(* The empty service is the initial state of the life cycle. *)
LEMMA LifecycleInit == Init => Lifecycle!Init
  BY DEF Init, Lifecycle!Init, NoRow, Lifecycle!NoRow

(* A save of an acknowledge call is the Acknowledge of the life cycle. *)
LEMMA AckSaveRefines ==
  ASSUME SerialInv, NEW k \in Acks, AckSave(k)
  PROVE  Lifecycle!Next
  <1> DEFINE a == ack[k].alertId
  <1>1. /\ a \in Alerts /\ alert[a] \in Row
        /\ alert[a].status \in {"OPEN", "ESCALATED"}
        /\ alert' = [alert EXCEPT ![a] = ack[k].row]
    BY DEF AckSave, AckFresh, AckOK, SerialInv, IInv, TypeOK
  <1>2. PICK u \in Users : ack[k].row = Acknowledged(alert[a], u)
    BY DEF AckSave, AckFresh, SerialInv
  <1>3. alert' = [alert EXCEPT ![a].status = "ACKNOWLEDGED", ![a].by = u]
    BY <1>1, <1>2 DEF Acknowledged, SerialInv, IInv, TypeOK, Row
  <1>4. Lifecycle!Acknowledge(a, u)
    BY <1>1, <1>3 DEF Lifecycle!Acknowledge
  <1>5. QED BY <1>1, <1>4 DEF Lifecycle!Next

(* A save of a sweep is the Escalate or the Exhaust of the life cycle. *)
LEMMA SweepSaveRefines ==
  ASSUME SerialInv, NEW s \in Sweeps, SweepSave(s)
  PROVE  Lifecycle!Next
  <1> DEFINE a == sweep[s].alertId
             r == alert[a]
  <1>1. /\ a \in Alerts /\ r \in Row /\ r.status = "OPEN"
        /\ alert' = [alert EXCEPT ![a] = sweep[s].row]
    BY DEF SweepSave, SweepFresh, SweepOK, SerialInv, IInv, TypeOK
  <1>2. PICK q \in Rules :
          \/ r.level < q.chain /\ sweep[s].row = Climbed(r, q.chain)
          \/ r.level >= q.chain /\ sweep[s].row = [r EXCEPT !.status = "ESCALATED"]
    BY DEF SweepSave, SweepFresh, SerialInv
  <1>3. CASE r.level < q.chain /\ sweep[s].row = Climbed(r, q.chain)
    <2>1. alert' = [alert EXCEPT
                      ![a].level = @ + 1,
                      ![a].status = IF r.level + 1 = q.chain THEN "ESCALATED" ELSE "OPEN"]
      BY <1>1, <1>3 DEF Climbed, SerialInv, IInv, TypeOK, Row
    <2>2. Lifecycle!Escalate(a)
      BY <1>1, <1>3, <2>1 DEF Lifecycle!Escalate
    <2>3. QED BY <1>1, <2>2 DEF Lifecycle!Next
  <1>4. CASE r.level >= q.chain /\ sweep[s].row = [r EXCEPT !.status = "ESCALATED"]
    <2>1. alert' = [alert EXCEPT ![a].status = "ESCALATED"]
      BY <1>1, <1>4 DEF SerialInv, IInv, TypeOK
    <2>2. Lifecycle!Exhaust(a)
      BY <1>1, <1>4, <2>1 DEF Lifecycle!Exhaust
    <2>3. QED BY <1>1, <2>2 DEF Lifecycle!Next
  <1>5. QED BY <1>2, <1>3, <1>4

(* Every other step leaves the rows alone, or raises an alert. *)
LEMMA LifecycleStep ==
  SerialInv /\ [SerialNext]_vars => [Lifecycle!Next]_alert
  <1> SUFFICES ASSUME SerialInv, [SerialNext]_vars, alert' # alert
               PROVE  Lifecycle!Next
    OBVIOUS
  <1>1. \/ \E a \in Alerts : CreateSave(a)
        \/ \E k \in Acks : AckSave(k)
        \/ \E s \in Sweeps : SweepSave(s)
    BY DEF SerialNext, Begin, Resume, Abort, CreateArm, CreateAbort, AckLoad, AckNoop,
       AckCancel, AckAbort, SweepBegin, SweepLoad, SweepDispatch, SweepArm, SweepCancel,
       SweepEnd, SweepAbort, UpsertRule, Clock, vars
  <1>2. CASE \E a \in Alerts : CreateSave(a)
    BY <1>2 DEF CreateSave, Lifecycle!Raise, Lifecycle!Next
  <1>3. QED BY <1>1, <1>2, AckSaveRefines, SweepSaveRefines

(* With calls that do not overlap, the engine implements the life cycle of  *)
(* an alert: no process, timer or failure shows in the rows.                *)
THEOREM SerialImplementsLifecycle == SerialSpec => ImplementsLifecycle
  BY LifecycleInit, LifecycleStep, SerialInductive, PTL
     DEF SerialSpec, ImplementsLifecycle, Lifecycle!Spec

-----------------------------------------------------------------------------
(***************************************************************************)
(* createAlert, acknowledge and the sweep interleave freely, but no two    *)
(* sweeps do: steps are dispatched in ascending order, and timers only     *)
(* move forward, however stale the rows are that acknowledge and the sweep *)
(* write back.                                                             *)
(***************************************************************************)

(* No two tickEscalations calls are in flight together. *)
OneSweep ==
  \A s, x \in Sweeps : sweep[s].pc # "idle" /\ sweep[x].pc # "idle" => s = x

-----------------------------------------------------------------------------
(* The inductive invariant behind StepsAscend.  The stored level may go     *)
(* back when a stale acknowledgement is saved, but the alert is then no     *)
(* longer OPEN: no step above the level of an OPEN alert was dispatched,    *)
(* and none at or above the level a sweep is about to dispatch.             *)

DispatchedBelow(a, n) == \A i \in 1..Len(dispatched[a]) : dispatched[a][i] < n

LevelAhead(a) ==
  /\ alert[a].status = "ABSENT" => dispatched[a] = <<>>
  /\ alert[a].status = "OPEN" => DispatchedBelow(a, alert[a].level + 1)

SweepAhead(s) ==
  LET w == sweep[s]
  IN  /\ w.pc = "save" => DispatchedBelow(w.alertId, w.row.level + 1)
      /\ w.pc = "save" /\ w.contact # NoContact => DispatchedBelow(w.alertId, w.row.level)
      /\ w.pc = "dispatch" =>
           /\ DispatchedBelow(w.alertId, w.row.level)
           /\ alert[w.alertId].status = "OPEN" => w.row.level <= alert[w.alertId].level

OrderInv ==
  /\ IInv
  /\ StepsAscend
  /\ \A a \in Alerts : LevelAhead(a)
  /\ \A s \in Sweeps : SweepAhead(s)

(* Nothing is stored or dispatched at first. *)
LEMMA InitOrderInv == Init => OrderInv
  <1> SUFFICES ASSUME Init PROVE OrderInv
    OBVIOUS
  <1>1. \A a \in Alerts : dispatched[a] = <<>>
    BY DEF Init
  <1>2. StepsAscend /\ \A a \in Alerts : LevelAhead(a)
    BY <1>1 DEF StepsAscend, LevelAhead, DispatchedBelow
  <1>3. \A s \in Sweeps : SweepAhead(s)
    BY DEF Init, SweepAhead, IdleSweep
  <1>4. QED BY <1>2, <1>3, InitIInv DEF OrderInv

(* A level above all that were dispatched keeps the order. *)
LEMMA AppendInOrder ==
  ASSUME NEW q \in Seq(Nat), NEW c \in Nat,
         \A i, j \in 1..Len(q) : i < j => q[i] < q[j],
         \A i \in 1..Len(q) : q[i] < c
  PROVE  /\ \A i, j \in 1..Len(Append(q, c)) : i < j => Append(q, c)[i] < Append(q, c)[j]
         /\ \A n \in Nat : c < n => \A i \in 1..Len(Append(q, c)) : Append(q, c)[i] < n
  <1> DEFINE p == Append(q, c)
  <1>1. /\ Len(p) = Len(q) + 1 /\ Len(q) \in Nat
        /\ p[Len(q) + 1] = c
        /\ \A i \in 1..Len(q) : p[i] = q[i] /\ q[i] \in Nat
    OBVIOUS
  <1> HIDE DEF p
  <1>2. \A i, j \in 1..Len(p) : i < j => p[i] < p[j]
    BY SMTT(30), <1>1
  <1>3. \A n \in Nat : c < n => \A i \in 1..Len(p) : p[i] < n
    BY <1>1
  <1>4. QED BY <1>2, <1>3 DEF p

(* Steps that dispatch nothing and store no row, and hold nothing new. *)
LEMMA NothingDispatched ==
  ASSUME OrderInv, UNCHANGED <<alert, dispatched>>,
         \A s \in Sweeps : sweep'[s] = sweep[s] \/ sweep'[s].pc \notin {"save", "dispatch"}
  PROVE  StepsAscend' /\ (\A a \in Alerts : LevelAhead(a)')
                          /\ (\A s \in Sweeps : SweepAhead(s)')
  BY DEF OrderInv, StepsAscend, LevelAhead, DispatchedBelow, SweepAhead

(* A row that is saved by createAlert or by acknowledge: the new alert was  *)
(* never dispatched, the acknowledged one will not be.                      *)
LEMMA RowSaved ==
  ASSUME OrderInv, NEW a \in Alerts, NEW r \in Row,
         \/ r.status = "ACKNOWLEDGED"
         \/ r.status = "OPEN" /\ alert[a].status = "ABSENT",
         alert' = [alert EXCEPT ![a] = r], UNCHANGED <<dispatched, sweep>>
  PROVE  StepsAscend' /\ (\A b \in Alerts : LevelAhead(b)')
                          /\ (\A s \in Sweeps : SweepAhead(s)')
  <1>1. alert \in [Alerts -> Row] /\ \A s \in Sweeps : SweepOK(s)
    BY DEF OrderInv, IInv, TypeOK
  <1>2. StepsAscend'
    BY DEF OrderInv, StepsAscend
  <1>3. \A b \in Alerts : LevelAhead(b)'
    BY <1>1 DEF OrderInv, LevelAhead, DispatchedBelow
  <1>4. \A s \in Sweeps : SweepAhead(s)'
    BY <1>1 DEF OrderInv, SweepAhead, DispatchedBelow, SweepOK
  <1>5. QED BY <1>2, <1>3, <1>4

(* The sweep goes on: it loads an OPEN alert, saves the next level and only *)
(* then dispatches it.                                                      *)
LEMMA SweepOrder ==
  ASSUME OrderInv, OneSweep, NEW s \in Sweeps,
         SweepLoad(s) \/ SweepSave(s) \/ SweepDispatch(s)
  PROVE  StepsAscend' /\ (\A a \in Alerts : LevelAhead(a)')
                          /\ (\A x \in Sweeps : SweepAhead(x)')
  <1>1. \A x \in Sweeps : x # s => sweep[x].pc = "idle"
    BY DEF OneSweep, SweepLoad, SweepSave, SweepDispatch
  <1>2. \A x \in Sweeps : x # s => sweep'[x] = sweep[x]
    BY DEF SweepLoad, SweepSave, SweepDispatch, OrderInv, IInv, TypeOK
  <1>3. \A x \in Sweeps : x # s => SweepAhead(x)'
    BY <1>1, <1>2 DEF SweepAhead
  <1>4. /\ sweep \in [Sweeps -> SweepType] /\ sweep[s] \in SweepType
        /\ SweepOK(s) /\ SweepAhead(s)
        /\ alert \in [Alerts -> Row] /\ dispatched \in [Alerts -> Seq(Nat)]
    BY DEF OrderInv, IInv, TypeOK
  <1>5. CASE SweepLoad(s)
    <2> PICK e \in sweep[s].todo : sweep' = [sweep EXCEPT ![s] = AfterLoad(s, e)]
      BY <1>5 DEF SweepLoad
    <2> DEFINE w == AfterLoad(s, e)
               l == alert[e.alertId].level
    <2>1. sweep[s].pc = "next" /\ UNCHANGED <<alert, dispatched>>
      BY <1>5 DEF SweepLoad
    <2>2. sweep'[s] = w
      BY <1>4
    <2>3. e.alertId \in Alerts /\ l \in Nat
      BY <1>4 DEF SweepType, DueTimer, Row
    <2>4. w.pc \in {"idle", "next", "save", "cancel"}
      BY <2>1, AfterLoadPlan DEF OrderInv
    <2>5. ASSUME w.pc = "save"
          PROVE  /\ DispatchedBelow(w.alertId, w.row.level + 1)
                 /\ w.contact # NoContact => DispatchedBelow(w.alertId, w.row.level)
      <3>1. w.alertId = e.alertId
        BY <2>1, <2>5, AfterLoadOK DEF OrderInv
      <3>2. /\ alert[e.alertId].status = "OPEN"
            /\ \/ w.contact = NoContact /\ w.row.level = l
               \/ w.row.level = l + 1
        BY <2>1, <2>5, AfterLoadPlan DEF OrderInv
      <3>3. DispatchedBelow(e.alertId, l + 1)
        BY <2>3, <3>2 DEF OrderInv, LevelAhead
      <3>4. DispatchedBelow(e.alertId, l + 2)
        <4>1. dispatched[e.alertId] \in Seq(Nat)
          BY <1>4, <2>3
        <4>2. \A i \in 1..Len(dispatched[e.alertId]) : dispatched[e.alertId][i] \in Nat
          BY <4>1
        <4>3. QED BY <2>3, <3>3, <4>2 DEF DispatchedBelow
      <3> HIDE DEF w
      <3>5. QED BY <2>3, <3>1, <3>2, <3>3, <3>4
    <2> HIDE DEF w
    <2>6. SweepAhead(s)'
      BY <2>1, <2>2, <2>4, <2>5 DEF SweepAhead, DispatchedBelow
    <2>7. StepsAscend' /\ \A a \in Alerts : LevelAhead(a)'
      BY <2>1 DEF OrderInv, StepsAscend, LevelAhead, DispatchedBelow
    <2>8. QED BY <1>3, <2>6, <2>7
  <1>6. CASE SweepSave(s)
    <2> DEFINE b == sweep[s].alertId
    <2>1. /\ sweep[s].pc = "save" /\ b \in Alerts
          /\ sweep[s].row.status \in {"OPEN", "ESCALATED"}
          /\ alert' = [alert EXCEPT ![b] = sweep[s].row]
          /\ UNCHANGED dispatched
      BY <1>4, <1>6 DEF SweepSave, SweepOK
    <2>2. /\ sweep'[s].alertId = b /\ sweep'[s].contact = sweep[s].contact
          /\ sweep'[s].row = sweep[s].row
          /\ sweep'[s].pc = IF sweep[s].contact = NoContact THEN "cancel" ELSE "dispatch"
      BY <1>4, <1>6 DEF SweepSave, SweepType
    <2>3. alert'[b] = sweep[s].row /\ \A a \in Alerts : a # b => alert'[a] = alert[a]
      BY <1>4, <2>1
    <2>4. \A a \in Alerts : LevelAhead(a)'
      BY <1>4, <2>1, <2>3 DEF OrderInv, LevelAhead, DispatchedBelow, SweepAhead
    <2>5. SweepAhead(s)'
      <3>1. CASE sweep[s].contact = NoContact
        BY <2>2, <3>1 DEF SweepAhead
      <3>2. CASE sweep[s].contact # NoContact
        <4>1. DispatchedBelow(b, sweep[s].row.level)
          BY <1>4, <2>1, <3>2 DEF SweepAhead
        <4>2. /\ sweep'[s].pc = "dispatch" /\ sweep'[s].alertId = b
              /\ sweep'[s].row = sweep[s].row /\ alert'[b].level = sweep[s].row.level
          BY <2>2, <2>3, <3>2
        <4>3. sweep[s].row.level <= sweep[s].row.level
          BY <1>4 DEF SweepType, Row
        <4> HIDE DEF b
        <4>4. QED BY <2>1, <4>1, <4>2, <4>3 DEF SweepAhead, DispatchedBelow
      <3>3. QED BY <3>1, <3>2
    <2>6. QED BY <1>3, <2>1, <2>4, <2>5 DEF OrderInv, StepsAscend
  <1>7. CASE SweepDispatch(s)
    <2> DEFINE b == sweep[s].alertId
               c == sweep[s].row.level
               q == dispatched[b]
    <2>1. /\ sweep[s].pc = "dispatch" /\ b \in Alerts /\ c \in Nat
          /\ alert[b].status # "ABSENT" /\ q \in Seq(Nat) /\ UNCHANGED alert
      BY <1>4, <1>7 DEF SweepDispatch, SweepOK, SweepType, Row
    <2>2. dispatched' = [dispatched EXCEPT ![b] = Append(q, c)]
      BY <1>7 DEF SweepDispatch
    <2>3. sweep'[s].pc \in {"cancel", "arm"}
      BY <1>4, <1>7 DEF SweepDispatch
    <2>4. /\ \A i, j \in 1..Len(q) : i < j => q[i] < q[j]
          /\ \A i \in 1..Len(q) : q[i] < c
      BY <1>4, <2>1 DEF OrderInv, StepsAscend, SweepAhead, DispatchedBelow
    <2>5. /\ \A i, j \in 1..Len(Append(q, c)) : i < j => Append(q, c)[i] < Append(q, c)[j]
          /\ \A n \in Nat : c < n => \A i \in 1..Len(Append(q, c)) : Append(q, c)[i] < n
      BY <2>1, <2>4, AppendInOrder
    <2>6. dispatched'[b] = Append(q, c) /\ \A a \in Alerts : a # b => dispatched'[a] = dispatched[a]
      BY <1>4, <2>1, <2>2
    <2>7. StepsAscend'
      <3> SUFFICES ASSUME NEW a \in Alerts, NEW i \in 1..Len(dispatched'[a]),
                          NEW j \in 1..Len(dispatched'[a]), i < j
                   PROVE  dispatched'[a][i] < dispatched'[a][j]
        BY DEF StepsAscend
      <3> HIDE DEF b, c, q
      <3>1. CASE a = b
        BY <2>5, <2>6, <3>1
      <3>2. CASE a # b
        BY <2>6, <3>2 DEF OrderInv, StepsAscend
      <3>3. QED BY <3>1, <3>2
    <2>8. \A a \in Alerts : a = b => LevelAhead(a)'
      <3> SUFFICES ASSUME NEW a \in Alerts, a = b
                   PROVE  LevelAhead(a)'
        OBVIOUS
      <3>1. alert[a].status = "OPEN" => c < alert[a].level + 1
        <4>1. alert[a].status = "OPEN" => c <= alert[a].level
          BY <1>4, <2>1 DEF SweepAhead
        <4>2. alert[a].level \in Nat
          BY <1>4 DEF Row
        <4>3. QED BY <2>1, <4>1, <4>2
      <3>2. alert[a].level \in Nat /\ alert'[a] = alert[a] /\ alert[a].status # "ABSENT"
        BY <1>4, <2>1 DEF Row
      <3> HIDE DEF b, c, q
      <3>3. QED BY <2>5, <2>6, <3>1, <3>2 DEF LevelAhead, DispatchedBelow
    <2>9. \A a \in Alerts : a # b => LevelAhead(a)'
      BY <2>1, <2>6 DEF OrderInv, LevelAhead, DispatchedBelow
    <2>10. SweepAhead(s)'
      BY <2>3 DEF SweepAhead
    <2>11. QED BY <1>3, <2>7, <2>8, <2>9, <2>10
  <1>8. QED BY <1>5, <1>6, <1>7

(* Every step taken while at most one sweep runs keeps OrderInv. *)
LEMMA NextOrderInv == OrderInv /\ OneSweep /\ [Next]_vars => OrderInv'
  <1> SUFFICES ASSUME OrderInv, OneSweep, [Next]_vars
               PROVE  StepsAscend' /\ (\A a \in Alerts : LevelAhead(a)')
                                       /\ (\A s \in Sweeps : SweepAhead(s)')
    BY NextIInv DEF OrderInv
  <1>1. alert \in [Alerts -> Row] /\ sweep \in [Sweeps -> SweepType]
    BY DEF OrderInv, IInv, TypeOK
  <1>2. CASE \E a \in Alerts : CreateSave(a)
    <2> PICK a \in Alerts : CreateSave(a)
      BY <1>2
    <2> DEFINE r == [status |-> "OPEN", level |-> 0, by |-> NoUser]
    <2>1. r \in Row /\ r.status = "OPEN" /\ alert[a].status = "ABSENT"
      BY DEF CreateSave, Row, Status
    <2>2. alert' = [alert EXCEPT ![a] = r] /\ UNCHANGED <<dispatched, sweep>>
      BY DEF CreateSave
    <2> HIDE DEF r
    <2>3. QED BY <2>1, <2>2, RowSaved
  <1>3. CASE \E k \in Acks : AckSave(k)
    <2> PICK k \in Acks : AckSave(k)
      BY <1>3
    <2>1. /\ ack[k].alertId \in Alerts /\ ack[k].row \in Row
          /\ ack[k].row.status = "ACKNOWLEDGED"
      BY DEF AckSave, AckOK, AckType, OrderInv, IInv, TypeOK
    <2>2. alert' = [alert EXCEPT ![ack[k].alertId] = ack[k].row] /\ UNCHANGED <<dispatched, sweep>>
      BY DEF AckSave
    <2>3. QED BY <2>1, <2>2, RowSaved
  <1>4. CASE \E s \in Sweeps : SweepLoad(s) \/ SweepSave(s) \/ SweepDispatch(s)
    BY <1>4, SweepOrder
  <1>5. CASE \E s \in Sweeps : \/ SweepBegin(s) \/ SweepArm(s) \/ SweepCancel(s)
                               \/ SweepEnd(s) \/ SweepAbort(s)
    <2> PICK s \in Sweeps : \/ SweepBegin(s) \/ SweepArm(s) \/ SweepCancel(s)
                            \/ SweepEnd(s) \/ SweepAbort(s)
      BY <1>5
    <2>1. UNCHANGED <<alert, dispatched>>
      BY DEF SweepBegin, SweepArm, SweepCancel, SweepEnd, SweepAbort
    <2>2. \A x \in Sweeps : sweep'[x] = sweep[x] \/ sweep'[x].pc \notin {"save", "dispatch"}
      <3>1. \A x \in Sweeps : x # s => sweep'[x] = sweep[x]
        BY <1>1 DEF SweepBegin, SweepArm, SweepCancel, SweepEnd, SweepAbort, EntryDone
      <3>2. CASE SweepBegin(s) \/ SweepArm(s) \/ SweepCancel(s)
        <4>1. sweep'[s].pc = "next"
          BY <1>1, <3>2 DEF SweepBegin, SweepArm, SweepCancel, EntryDone, IdleSweep
        <4>2. QED BY <3>1, <4>1
      <3>3. CASE SweepEnd(s) \/ SweepAbort(s)
        <4>1. sweep'[s].pc = "idle"
          BY <1>1, <3>3 DEF SweepEnd, SweepAbort, IdleSweep
        <4>2. QED BY <3>1, <4>1
      <3>4. QED BY <3>2, <3>3
    <2>3. QED BY <2>1, <2>2, NothingDispatched
  <1>6. CASE \/ \E a \in Alerts : CreateArm(a) \/ CreateAbort(a)
             \/ \E k \in Acks, a \in Alerts, u \in Users : AckLoad(k, a, u)
             \/ \E k \in Acks, a \in Alerts : AckNoop(k, a)
             \/ \E k \in Acks : AckCancel(k) \/ AckAbort(k)
             \/ UpsertRule \/ Clock \/ UNCHANGED vars
    <2>1. UNCHANGED <<alert, dispatched, sweep>>
      BY <1>6 DEF CreateArm, CreateAbort, AckLoad, AckNoop, AckCancel, AckAbort,
         UpsertRule, Clock, vars
    <2>2. QED BY <2>1, NothingDispatched
  <1>7. QED BY <1>2, <1>3, <1>4, <1>5, <1>6 DEF Next, Begin, Resume, Abort

-----------------------------------------------------------------------------
(* No step is skipped, even when sweeps overlap: a level that was announced *)
(* stays so, and the levels below every row that a call has loaded were.    *)

UpTo(a, n) == \A l \in 1..n : Announced(a, l)

AckBehind(k) == ack[k].pc # "idle" => UpTo(ack[k].alertId, ack[k].row.level)

SweepBehind(s) ==
  LET w == sweep[s]
  IN  w.pc = "save" =>
        UpTo(w.alertId, IF w.contact = NoContact THEN w.row.level ELSE w.row.level - 1)

AnnounceInv ==
  /\ IInv
  /\ StepsAnnounced
  /\ \A k \in Acks : AckBehind(k)
  /\ \A s \in Sweeps : SweepBehind(s)

(* An announcement is never undone: a sweep that leaves its dispatch has    *)
(* made it, or died and left its level in unsent.                           *)
LEMMA AnnouncedStays ==
  ASSUME IInv, [Next]_vars
  PROVE  \A a \in Alerts, l \in Nat : Announced(a, l) => Announced(a, l)'
  <1> SUFFICES ASSUME NEW a \in Alerts, NEW l \in Nat, Announced(a, l)
               PROVE  Announced(a, l)'
    OBVIOUS
  <1>1. /\ sweep \in [Sweeps -> SweepType] /\ dispatched \in [Alerts -> Seq(Nat)]
        /\ unsent \in [Alerts -> SUBSET Nat]
    BY DEF IInv, TypeOK
  <1>2. CASE \E s \in Sweeps : SweepDispatch(s)
    <2> PICK s \in Sweeps : SweepDispatch(s)
      BY <1>2
    <2> DEFINE b == sweep[s].alertId
               q == dispatched[b]
               c == sweep[s].row.level
    <2>1. /\ b \in Alerts /\ q \in Seq(Nat) /\ c \in Nat
          /\ dispatched' = [dispatched EXCEPT ![b] = Append(q, c)] /\ UNCHANGED unsent
      BY <1>1 DEF SweepDispatch, SweepOK, SweepType, Row, IInv
    <2>2. \A x \in Sweeps : x # s => sweep'[x] = sweep[x]
      BY <1>1 DEF SweepDispatch
    <2>3. /\ dispatched'[b] = Append(q, c)
          /\ a # b => dispatched'[a] = dispatched[a]
      BY <1>1, <2>1
    <2>4. /\ Len(Append(q, c)) = Len(q) + 1 /\ Append(q, c)[Len(q) + 1] = c
          /\ \A i \in 1..Len(q) : Append(q, c)[i] = q[i]
          /\ Len(q) \in Nat
      BY <2>1
    <2> HIDE DEF b, q, c
    <2>5. CASE \E i \in 1..Len(dispatched[a]) : dispatched[a][i] = l
      <3> PICK i \in 1..Len(dispatched[a]) : dispatched[a][i] = l
        BY <2>5
      <3>1. CASE a = b
        <4>1. i \in 1..Len(dispatched'[a]) /\ dispatched'[a][i] = l
          BY <2>3, <2>4, <3>1 DEF q
        <4>2. QED BY <4>1 DEF Announced
      <3>2. CASE a # b
        BY <2>3, <3>2 DEF Announced
      <3>3. QED BY <3>1, <3>2
    <2>6. CASE l \in unsent[a]
      BY <2>1, <2>6 DEF Announced
    <2>7. CASE \E x \in Sweeps : /\ sweep[x].pc = "dispatch"
                                 /\ sweep[x].alertId = a /\ sweep[x].row.level = l
      <3> PICK x \in Sweeps : /\ sweep[x].pc = "dispatch"
                              /\ sweep[x].alertId = a /\ sweep[x].row.level = l
        BY <2>7
      <3>1. CASE x = s
        <4>1. a = b /\ l = c
          BY <3>1 DEF b, c
        <4>2. Len(q) + 1 \in 1..Len(dispatched'[a]) /\ dispatched'[a][Len(q) + 1] = l
          BY <2>3, <2>4, <4>1
        <4>3. QED BY <4>2 DEF Announced
      <3>2. CASE x # s
        BY <2>2, <3>2 DEF Announced
      <3>3. QED BY <3>1, <3>2
    <2>8. QED BY <2>5, <2>6, <2>7 DEF Announced
  <1>3. CASE \E s \in Sweeps : SweepAbort(s)
    <2> PICK s \in Sweeps : SweepAbort(s)
      BY <1>3
    <2>1. /\ \A x \in Sweeps : x # s => sweep'[x] = sweep[x]
          /\ UNCHANGED dispatched
          /\ unsent[a] \subseteq unsent'[a]
          /\ sweep[s].pc = "dispatch" /\ sweep[s].alertId = a => sweep[s].row.level \in unsent'[a]
      BY <1>1 DEF SweepAbort
    <2>2. QED BY <2>1 DEF Announced
  <1>4. CASE ~ \E s \in Sweeps : SweepDispatch(s) \/ SweepAbort(s)
    <2>1. UNCHANGED <<dispatched, unsent>>
      BY <1>4 DEF Next, Begin, Resume, Abort, vars, CreateSave, CreateArm, CreateAbort,
         AckLoad, AckNoop, AckSave, AckCancel, AckAbort, SweepBegin, SweepLoad, SweepSave,
         SweepArm, SweepCancel, SweepEnd, UpsertRule, Clock
    <2>2. \A x \in Sweeps : sweep[x].pc = "dispatch" => sweep'[x] = sweep[x]
      BY <1>1, <1>4 DEF Next, Begin, Resume, Abort, vars, CreateSave, CreateArm, CreateAbort,
         AckLoad, AckNoop, AckSave, AckCancel, AckAbort, SweepBegin, SweepLoad, SweepSave,
         SweepArm, SweepCancel, SweepEnd, EntryDone, UpsertRule, Clock
    <2>3. QED BY <2>1, <2>2 DEF Announced
  <1>5. QED BY <1>2, <1>3, <1>4

(* So are the levels up to any that were announced. *)
LEMMA UpToStays ==
  ASSUME IInv, [Next]_vars, NEW a \in Alerts, NEW n \in Int, UpTo(a, n)
  PROVE  UpTo(a, n)'
  BY AnnouncedStays DEF UpTo

(* Every step keeps AnnounceInv. *)
LEMMA NextAnnounceInv == AnnounceInv /\ [Next]_vars => AnnounceInv'
  <1> SUFFICES ASSUME AnnounceInv, [Next]_vars
               PROVE  /\ \A a \in Alerts : UpTo(a, alert[a].level)'
                      /\ \A k \in Acks : AckBehind(k)'
                      /\ \A s \in Sweeps : SweepBehind(s)'
    BY NextIInv DEF AnnounceInv, StepsAnnounced, UpTo
  <1>1. /\ IInv /\ \A k \in Acks : AckOK(k) /\ AckBehind(k)
        /\ \A s \in Sweeps : SweepOK(s) /\ SweepBehind(s)
        /\ alert \in [Alerts -> Row] /\ sweep \in [Sweeps -> SweepType]
        /\ ack \in [Acks -> AckType]
    BY DEF AnnounceInv, IInv, TypeOK
  <1>2. \A a \in Alerts : alert[a].level \in Nat /\ UpTo(a, alert[a].level)
    BY <1>1 DEF AnnounceInv, StepsAnnounced, UpTo, Row
  <1>3. \A a \in Alerts, n \in Int : UpTo(a, n) => UpTo(a, n)'
    BY <1>1, UpToStays
  <1>4. ASSUME NEW a \in Alerts
        PROVE  UpTo(a, alert[a].level)'
    <2>1. CASE \E k \in Acks : AckSave(k)
      <3> PICK k \in Acks : AckSave(k)
        BY <2>1
      <3>1. /\ ack[k].alertId \in Alerts /\ ack[k].row.level \in Nat
            /\ UpTo(ack[k].alertId, ack[k].row.level)
        BY <1>1 DEF AckSave, AckOK, AckBehind, AckType, Row
      <3>2. alert'[a] = IF a = ack[k].alertId THEN ack[k].row ELSE alert[a]
        BY <1>1 DEF AckSave
      <3>3. QED BY <1>2, <1>3, <3>1, <3>2 DEF UpTo
    <2>2. CASE \E s \in Sweeps : SweepSave(s)
      <3> PICK s \in Sweeps : SweepSave(s)
        BY <2>2
      <3>0. /\ sweep[s].alertId \in Alerts /\ sweep[s].row.level \in Nat
            /\ sweep[s].pc = "save"
        BY <1>1 DEF SweepSave, SweepOK, SweepType, Row
      <3> PICK b \in Alerts, n \in Nat : b = sweep[s].alertId /\ n = sweep[s].row.level
        BY <3>0
      <3>1. b \in Alerts /\ n \in Nat /\ sweep[s].pc = "save"
        BY <3>0
      <3>2. alert'[a] = IF a = b THEN sweep[s].row ELSE alert[a]
        BY <1>1 DEF SweepSave
      <3>3. CASE a # b
        BY <1>2, <1>3, <3>2, <3>3 DEF UpTo
      <3>4. CASE a = b /\ sweep[s].contact = NoContact
        <4>1. UpTo(b, n)
          BY <1>1, <3>1, <3>4 DEF SweepBehind
        <4>2. QED BY <1>3, <3>1, <3>2, <3>4, <4>1 DEF UpTo
      <3>5. CASE a = b /\ sweep[s].contact # NoContact
        <4>1. UpTo(b, n - 1)
          BY <1>1, <3>1, <3>5 DEF SweepBehind
        <4>2. UpTo(b, n - 1)'
          BY <1>3, <3>1, <4>1
        <4>3. /\ sweep'[s].pc = "dispatch" /\ sweep'[s].alertId = b
              /\ sweep'[s].row.level = n
          BY <1>1, <3>5 DEF SweepSave, SweepType
        <4>4. Announced(a, n)'
          BY <3>5, <4>3 DEF Announced
        <4>5. \A l \in 1..n : l \in 1..(n - 1) \/ l = n
          BY <3>1
        <4>6. alert'[a].level = n
          BY <3>2, <3>5
        <4>7. \A l \in 1..n : Announced(a, l)'
          <5>1. \A l \in 1..(n - 1) : Announced(b, l)'
            BY <4>2 DEF UpTo
          <5>2. QED BY <3>5, <4>4, <4>5, <5>1
        <4>8. QED BY <4>6, <4>7 DEF UpTo
      <3>6. QED BY <3>3, <3>4, <3>5
    <2>3. CASE \E c \in Alerts : CreateSave(c)
      <3> PICK c \in Alerts : CreateSave(c)
        BY <2>3
      <3>1. CASE a = c
        <4>1. alert'[a].level = 0
          BY <1>1, <3>1 DEF CreateSave
        <4>2. QED BY <4>1 DEF UpTo
      <3>2. CASE a # c
        <4>1. alert'[a] = alert[a]
          BY <1>1, <3>2 DEF CreateSave
        <4>2. QED BY <1>2, <1>3, <4>1 DEF UpTo
      <3>3. QED BY <3>1, <3>2
    <2>4. CASE UNCHANGED alert
      BY <1>2, <1>3, <2>4 DEF UpTo
    <2>5. QED
      BY <2>1, <2>2, <2>3, <2>4 DEF Next, Begin, Resume, Abort, vars, CreateArm, CreateAbort,
         AckLoad, AckNoop, AckCancel, AckAbort, SweepBegin, SweepLoad, SweepDispatch,
         SweepArm, SweepCancel, SweepEnd, SweepAbort, UpsertRule, Clock
  <1>5. ASSUME NEW k \in Acks
        PROVE  AckBehind(k)'
    <2>1. CASE ack'[k].pc = "idle"
      BY <2>1 DEF AckBehind
    <2>2. CASE \E b \in Alerts, u \in Users : AckLoad(k, b, u)
      <3> PICK b \in Alerts, u \in Users : AckLoad(k, b, u)
        BY <2>2
      <3>1. ack'[k].alertId = b /\ ack'[k].row.level = alert[b].level
        BY <1>1 DEF AckLoad, Row
      <3>2. QED BY <1>2, <1>3, <3>1 DEF AckBehind, UpTo
    <2>3. CASE /\ ack[k].pc # "idle" /\ ack'[k].alertId = ack[k].alertId
               /\ ack'[k].row = ack[k].row
      <3>1. ack[k].alertId \in Alerts /\ ack[k].row.level \in Nat
        BY <1>1, <2>3 DEF AckOK, AckType, Row
      <3>2. UpTo(ack[k].alertId, ack[k].row.level)
        BY <1>1, <2>3 DEF AckBehind
      <3>3. QED BY <1>3, <2>3, <3>1, <3>2 DEF AckBehind, UpTo
    <2>4. \/ ack'[k].pc = "idle"
          \/ \E b \in Alerts, u \in Users : AckLoad(k, b, u)
          \/ /\ ack[k].pc # "idle" /\ ack'[k].alertId = ack[k].alertId
             /\ ack'[k].row = ack[k].row
      <3>1. CASE UNCHANGED ack
        BY <3>1
      <3>2. CASE \E x \in Acks, b \in Alerts, u \in Users : AckLoad(x, b, u)
        BY <1>1, <3>2 DEF AckLoad
      <3>3. CASE \E x \in Acks : AckSave(x)
        BY <1>1, <3>3 DEF AckSave, AckType
      <3>4. CASE \E x \in Acks : AckCancel(x) \/ AckAbort(x)
        BY <1>1, <3>4 DEF AckCancel, AckAbort, IdleAck
      <3>5. QED
        BY <3>1, <3>2, <3>3, <3>4 DEF Next, Begin, Resume, Abort, vars, CreateSave, CreateArm,
           CreateAbort, AckNoop, SweepBegin, SweepLoad, SweepSave, SweepDispatch,
           SweepArm, SweepCancel, SweepEnd, SweepAbort, UpsertRule, Clock
    <2>5. QED BY <2>1, <2>2, <2>3, <2>4
  <1>6. ASSUME NEW s \in Sweeps
        PROVE  SweepBehind(s)'
    <2>1. CASE sweep'[s].pc # "save"
      BY <2>1 DEF SweepBehind
    <2>2. CASE sweep[s].pc = "save" /\ sweep'[s] = sweep[s]
      <3>1. sweep[s].alertId \in Alerts /\ sweep[s].row.level \in Nat
        BY <1>1, <2>2 DEF SweepOK, SweepType, Row
      <3> PICK b \in Alerts, n \in Int :
                 /\ b = sweep[s].alertId
                 /\ n = IF sweep[s].contact = NoContact THEN sweep[s].row.level
                                                        ELSE sweep[s].row.level - 1
        BY <3>1
      <3>2. UpTo(b, n)
        BY <1>1, <2>2, <3>1 DEF SweepBehind
      <3>3. UpTo(b, n)'
        BY <1>3, <3>1, <3>2
      <3>4. QED BY <2>2, <3>3 DEF SweepBehind, UpTo
    <2>3. CASE SweepLoad(s) /\ sweep'[s].pc = "save"
      <3> PICK e \in sweep[s].todo : sweep' = [sweep EXCEPT ![s] = AfterLoad(s, e)]
        BY <2>3 DEF SweepLoad
      <3> DEFINE w == AfterLoad(s, e)
      <3>1. sweep[s].pc = "next" /\ sweep'[s] = w /\ w.pc = "save"
        BY <1>1, <2>3 DEF SweepLoad
      <3>2. w.alertId = e.alertId
        BY <1>1, <3>1, AfterLoadOK
      <3>3. \/ w.contact = NoContact /\ w.row.level = alert[e.alertId].level
            \/ /\ w.contact = alert[e.alertId].level
               /\ w.row.level = alert[e.alertId].level + 1
        BY <1>1, <3>1, AfterLoadPlan
      <3>4. e.alertId \in Alerts
        BY <1>1 DEF SweepType, DueTimer
      <3> HIDE DEF w
      <3> PICK b \in Alerts, n \in Nat : b = e.alertId /\ n = alert[b].level
        BY <1>2, <3>4
      <3>5. n = IF w.contact = NoContact THEN w.row.level ELSE w.row.level - 1
        BY <3>3 DEF NoContact
      <3>6. UpTo(b, n)'
        BY <1>2, <1>3
      <3>7. sweep'[s].alertId = b
            /\ n = IF sweep'[s].contact = NoContact THEN sweep'[s].row.level
                                                    ELSE sweep'[s].row.level - 1
        BY <3>1, <3>2, <3>5
      <3>8. QED BY <3>6, <3>7 DEF SweepBehind, UpTo
    <2>4. \/ sweep'[s].pc # "save"
          \/ sweep[s].pc = "save" /\ sweep'[s] = sweep[s]
          \/ SweepLoad(s)
      <3>1. CASE sweep'[s] = sweep[s]
        BY <3>1
      <3>2. CASE SweepSave(s) \/ SweepDispatch(s)
        <4>1. sweep[s] \in SweepType
          BY <1>1
        <4>2. sweep'[s].pc \in {"cancel", "arm", "dispatch"}
          BY <1>1, <3>2, <4>1 DEF SweepSave, SweepDispatch, SweepType
        <4>3. QED BY <4>2
      <3>3. CASE SweepBegin(s) \/ SweepArm(s) \/ SweepCancel(s) \/ SweepEnd(s) \/ SweepAbort(s)
        <4>1. sweep'[s].pc \in {"idle", "next"}
          <5>1. CASE SweepBegin(s)
            BY <1>1, <5>1 DEF SweepBegin, IdleSweep
          <5>2. CASE SweepArm(s) \/ SweepCancel(s)
            BY <1>1, <5>2 DEF SweepArm, SweepCancel, EntryDone, IdleSweep
          <5>3. CASE SweepEnd(s) \/ SweepAbort(s)
            BY <1>1, <5>3 DEF SweepEnd, SweepAbort, IdleSweep
          <5>4. QED BY <3>3, <5>1, <5>2, <5>3
        <4>2. QED BY <4>1
      <3>4. CASE \E x \in Sweeps : /\ x # s
                                   /\ \/ SweepBegin(x) \/ SweepLoad(x) \/ SweepSave(x)
                                      \/ SweepDispatch(x) \/ SweepArm(x) \/ SweepCancel(x)
                                      \/ SweepEnd(x) \/ SweepAbort(x)
        <4>1. sweep'[s] = sweep[s]
          BY <1>1, <3>4 DEF SweepBegin, SweepLoad, SweepSave, SweepDispatch, SweepArm,
             SweepCancel, EntryDone, SweepEnd, SweepAbort
        <4>2. QED BY <4>1
      <3>5. CASE UNCHANGED sweep
        BY <3>5
      <3>6. QED
        BY <3>2, <3>3, <3>4, <3>5 DEF Next, Begin, Resume, Abort, vars, CreateSave,
           CreateArm, CreateAbort, AckLoad, AckNoop, AckSave, AckCancel, AckAbort,
           UpsertRule, Clock
    <2>5. QED BY <2>1, <2>2, <2>3, <2>4
  <1>7. QED BY <1>4, <1>5, <1>6

(* No level of a stored row is skipped silently, whatever calls overlap:    *)
(* its step went to the dispatcher, is about to, or the sweep that took it  *)
(* died between save and dispatch.                                          *)
THEOREM NoStepSkipped == Spec => []StepsAnnounced
  <1>1. Init => AnnounceInv
    <2> SUFFICES ASSUME Init PROVE AnnounceInv
      OBVIOUS
    <2>1. \A a \in Alerts : alert[a].level = 0
      <3> PICK u \in Users :
                 alert = [a \in Alerts |-> IF a \in Seeded
                                          THEN [status |-> "CLOSED", level |-> 0, by |-> u]
                                          ELSE NoRow]
        BY DEF Init
      <3>1. QED BY DEF NoRow
    <2>2. StepsAnnounced
      BY <2>1 DEF StepsAnnounced
    <2>3. \A k \in Acks : AckBehind(k)
      BY DEF Init, AckBehind, IdleAck
    <2>4. \A s \in Sweeps : SweepBehind(s)
      BY DEF Init, SweepBehind, IdleSweep
    <2>5. QED BY <2>2, <2>3, <2>4, InitIInv DEF AnnounceInv
  <1>2. AnnounceInv => StepsAnnounced
    BY DEF AnnounceInv
  <1>3. QED BY <1>1, <1>2, NextAnnounceInv, PTL DEF Spec

(* While no two sweeps overlap, the steps of an alert are dispatched in     *)
(* ascending order and none twice, and none is skipped except by a sweep    *)
(* that died between save and dispatch, whatever acknowledge calls run in   *)
(* between and however often a sweep dies and starts again.                 *)
THEOREM StepsStayInOrder == Spec /\ []OneSweep => []StepsInOrder
  <1>1. Spec /\ []OneSweep => []OrderInv
    BY InitOrderInv, NextOrderInv, PTL DEF Spec
  <1>2. OrderInv /\ StepsAnnounced => StepsInOrder
    BY DEF OrderInv, StepsInOrder
  <1>3. QED BY <1>1, <1>2, NoStepSkipped, PTL

-----------------------------------------------------------------------------
(* The inductive invariant behind DueMovesForward.  A timer is armed once   *)
(* by createAlert, before any sweep can see it; the entry a sweep holds is  *)
(* still the one in the sorted set, unless acknowledge has removed it.      *)

SweepDue(s) ==
  LET w == sweep[s]
  IN  /\ \A e \in w.todo : due[e.alertId] \in {NoTime, e.dueAt}
                           /\ arming[e.alertId] = NoTime
      /\ \A e, f \in w.todo : e.alertId = f.alertId => e = f
      /\ w.pc \in {"save", "dispatch", "arm", "cancel"} =>
           /\ \A e \in w.todo : e.alertId # w.alertId
           /\ arming[w.alertId] = NoTime
      /\ w.pc \in {"save", "dispatch", "arm"} /\ w.nextDueAt # NoTime =>
           due[w.alertId] <= w.nextDueAt

DueInv ==
  /\ IInv
  /\ \A a \in Alerts : arming[a] # NoTime => due[a] = NoTime
  /\ \A s \in Sweeps : sweep[s].pc # "idle" => SweepDue(s)

(* No timer is armed at first. *)
LEMMA InitDueInv == Init => DueInv
  <1> SUFFICES ASSUME Init PROVE DueInv
    OBVIOUS
  <1>1. \A a \in Alerts : arming[a] = NoTime
    BY DEF Init
  <1>2. \A s \in Sweeps : sweep[s].pc = "idle"
    BY DEF Init, IdleSweep
  <1>3. QED BY <1>1, <1>2, InitIInv DEF DueInv

(* createAlert arms a timer that is not there yet, of an alert no sweep     *)
(* holds; acknowledge only removes timers.                                  *)
LEMMA CallsKeepDue ==
  ASSUME DueInv, UNCHANGED sweep,
         \/ \E a \in Alerts : CreateSave(a) \/ CreateArm(a) \/ CreateAbort(a)
         \/ \E k \in Acks : AckCancel(k)
         \/ UNCHANGED <<due, arming>>
  PROVE  /\ \A a \in Alerts : arming'[a] # NoTime => due'[a] = NoTime
         /\ \A s \in Sweeps : sweep'[s].pc # "idle" => SweepDue(s)'
         /\ \A a \in Alerts : due[a] # NoTime /\ due'[a] # NoTime => due'[a] >= due[a]
  <1>1. /\ due \in [Alerts -> Nat \cup {NoTime}] /\ arming \in [Alerts -> Nat \cup {NoTime}]
        /\ sweep \in [Sweeps -> SweepType]
        /\ \A s \in Sweeps : SweepOK(s) /\ \A e \in sweep[s].todo : e \in DueTimer
        /\ TimerHasRow
    BY DEF DueInv, IInv, TypeOK, SweepType
  <1>a. \A a \in Alerts : due[a] # NoTime => due[a] >= due[a]
    BY <1>1
  <1>2. CASE \E a \in Alerts : CreateSave(a)
    <2> PICK a \in Alerts : CreateSave(a)
      BY <1>2
    <2>1. /\ UNCHANGED due /\ \A b \in Alerts : b # a => arming'[b] = arming[b]
          /\ alert[a].status = "ABSENT"
      BY <1>1 DEF CreateSave
    <2>2. due[a] = NoTime
      BY <1>1, <2>1 DEF TimerHasRow
    <2>3. \A b \in Alerts : arming'[b] # NoTime => due'[b] = NoTime
      BY <2>1, <2>2 DEF DueInv
    <2>4. ASSUME NEW s \in Sweeps, sweep'[s].pc # "idle" PROVE SweepDue(s)'
      <3>1. SweepDue(s) /\ \A e \in sweep[s].todo : e.alertId \in Alerts /\ e.alertId # a
        BY <1>1, <2>1, <2>4 DEF DueInv, TimerHasRow, DueTimer
      <3>2. sweep[s].pc \in {"save", "dispatch", "arm", "cancel"} =>
              sweep[s].alertId \in Alerts /\ sweep[s].alertId # a
        BY <1>1, <2>1 DEF SweepOK
      <3>3. QED BY <2>1, <3>1, <3>2 DEF SweepDue
    <2>5. QED BY <1>a, <2>1, <2>3, <2>4
  <1>3. CASE \E a \in Alerts : CreateArm(a) \/ CreateAbort(a)
    <2> PICK a \in Alerts : CreateArm(a) \/ CreateAbort(a)
      BY <1>3
    <2>1. /\ arming[a] # NoTime /\ arming'[a] = NoTime /\ due[a] = NoTime
          /\ \A b \in Alerts : b # a => arming'[b] = arming[b] /\ due'[b] = due[b]
      BY <1>1 DEF CreateArm, CreateAbort, schedule, DueInv
    <2>2. \A b \in Alerts : arming'[b] # NoTime => due'[b] = NoTime
      BY <2>1 DEF DueInv
    <2>3. ASSUME NEW s \in Sweeps, sweep'[s].pc # "idle" PROVE SweepDue(s)'
      <3>1. SweepDue(s) /\ \A e \in sweep[s].todo : e.alertId \in Alerts /\ e.alertId # a
        BY <1>1, <2>1, <2>3 DEF DueInv, SweepDue, DueTimer
      <3>2. sweep[s].pc \in {"save", "dispatch", "arm", "cancel"} =>
              sweep[s].alertId \in Alerts /\ sweep[s].alertId # a
        BY <1>1, <2>1, <3>1 DEF SweepOK, SweepDue
      <3>3. QED BY <2>1, <3>1, <3>2 DEF SweepDue
    <2>4. QED BY <1>1, <1>a, <2>1, <2>2, <2>3
  <1>4. CASE \E k \in Acks : AckCancel(k)
    <2> PICK k \in Acks : AckCancel(k)
      BY <1>4
    <2>1. UNCHANGED arming /\ \A b \in Alerts : due'[b] \in {NoTime, due[b]}
      BY <1>1 DEF AckCancel, cancel
    <2>2. \A b \in Alerts : arming'[b] # NoTime => due'[b] = NoTime
      BY <2>1 DEF DueInv
    <2>3. ASSUME NEW s \in Sweeps, sweep'[s].pc # "idle" PROVE SweepDue(s)'
      <3>1. SweepDue(s) /\ \A e \in sweep[s].todo : e.alertId \in Alerts
        BY <1>1, <2>3 DEF DueInv, DueTimer
      <3>2. sweep[s].pc \in {"save", "dispatch", "arm", "cancel"} => sweep[s].alertId \in Alerts
        BY <1>1 DEF SweepOK
      <3>3. \A n \in Nat : NoTime <= n
        BY DEF NoTime
      <3>4. sweep[s].nextDueAt \in Nat \cup {NoTime}
        BY <1>1 DEF SweepType
      <3>5. QED BY <2>1, <3>1, <3>2, <3>3, <3>4 DEF SweepDue
    <2>4. QED BY <1>1, <1>a, <2>1, <2>2, <2>3
  <1>5. CASE UNCHANGED <<due, arming>>
    BY <1>a, <1>5 DEF DueInv, SweepDue
  <1>6. QED BY <1>2, <1>3, <1>4, <1>5

(* The sweep takes a snapshot of the sorted set, works on one entry after   *)
(* the other and arms its timer at a later time than the entry had.         *)
LEMMA SweepKeepsDue ==
  ASSUME DueInv, OneSweep, OneSweep', NEW s \in Sweeps,
         \/ SweepBegin(s) \/ SweepLoad(s) \/ SweepSave(s) \/ SweepDispatch(s)
         \/ SweepArm(s) \/ SweepCancel(s) \/ SweepEnd(s) \/ SweepAbort(s)
  PROVE  /\ \A a \in Alerts : arming'[a] # NoTime => due'[a] = NoTime
         /\ \A x \in Sweeps : sweep'[x].pc # "idle" => SweepDue(x)'
         /\ \A a \in Alerts : due[a] # NoTime /\ due'[a] # NoTime => due'[a] >= due[a]
  <1>1. /\ due \in [Alerts -> Nat \cup {NoTime}]
        /\ sweep \in [Sweeps -> SweepType] /\ sweep[s] \in SweepType /\ SweepOK(s)
    BY DEF DueInv, IInv, TypeOK
  <1>2. UNCHANGED arming /\ \A x \in Sweeps : x # s => sweep'[x] = sweep[x]
    BY <1>1 DEF SweepBegin, SweepLoad, SweepSave, SweepDispatch, SweepArm, SweepCancel,
       SweepEnd, SweepAbort, EntryDone
  <1>3. ASSUME sweep'[s].pc # "idle"
        PROVE  \A x \in Sweeps : sweep'[x].pc # "idle" => x = s
    BY <1>3 DEF OneSweep
  <1>4. \A a \in Alerts : due[a] # NoTime => due[a] >= due[a]
    BY <1>1
  <1>5. sweep[s].pc # "idle" => \A x \in Sweeps : sweep[x].pc # "idle" => x = s
    BY DEF OneSweep
  <1>6. CASE SweepBegin(s)
    <2>1. /\ sweep'[s].todo = dueEntries(now) /\ sweep'[s].pc = "next" /\ UNCHANGED due
      BY <1>1, <1>6 DEF SweepBegin, IdleSweep
    <2>2. \A e \in dueEntries(now) : /\ e.alertId \in Alerts /\ e.dueAt = due[e.alertId]
                                     /\ due[e.alertId] # NoTime
                                     /\ e = [alertId |-> e.alertId, dueAt |-> due[e.alertId]]
      BY DEF dueEntries
    <2>3. SweepDue(s)'
      BY <1>2, <2>1, <2>2 DEF SweepDue, DueInv
    <2>4. QED BY <1>2, <1>3, <1>4, <2>1, <2>3 DEF DueInv
  <1>7. CASE SweepLoad(s)
    <2> PICK e \in sweep[s].todo : sweep' = [sweep EXCEPT ![s] = AfterLoad(s, e)]
      BY <1>7 DEF SweepLoad
    <2> DEFINE w == AfterLoad(s, e)
    <2>1. sweep[s].pc = "next" /\ UNCHANGED due
      BY <1>7 DEF SweepLoad
    <2>2. sweep'[s] = w
      BY <1>1
    <2>3. SweepDue(s) /\ e.alertId \in Alerts
      BY <1>1, <2>1 DEF DueInv, SweepType, DueTimer
    <2>4. /\ w.pc \in {"idle", "next", "save", "cancel"}
          /\ w.pc # "idle" => w.todo = sweep[s].todo \ {e}
      BY <2>1, AfterLoadPlan DEF DueInv
    <2>5. w.pc \in {"save", "cancel"} => w.alertId = e.alertId
      BY <2>1, AfterLoadOK DEF DueInv
    <2>6. w.pc = "save" /\ w.nextDueAt # NoTime => due[e.alertId] <= w.nextDueAt
      <3> SUFFICES ASSUME w.pc = "save", w.nextDueAt # NoTime
                   PROVE  due[e.alertId] <= w.nextDueAt
        OBVIOUS
      <3>1. \/ /\ w.contact = NoContact /\ w.row.level = alert[e.alertId].level
               /\ w.nextDueAt = NoTime /\ w.row.status = "ESCALATED"
            \/ /\ w.contact = alert[e.alertId].level
               /\ w.row.level = alert[e.alertId].level + 1
               /\ \/ w.nextDueAt = NoTime /\ w.row.status = "ESCALATED"
                  \/ w.nextDueAt \in Nat /\ w.nextDueAt >= e.dueAt
        BY <2>1, AfterLoadPlan DEF DueInv
      <3> HIDE DEF w
      <3>2. w.nextDueAt \in Nat /\ w.nextDueAt >= e.dueAt
        BY <3>1
      <3>3. due[e.alertId] \in {NoTime, e.dueAt} /\ e.dueAt \in Nat
        BY <1>1, <2>3 DEF SweepDue, SweepType, DueTimer
      <3>4. QED BY <3>2, <3>3 DEF NoTime
    <2> HIDE DEF w
    <2>7. w.pc # "idle" => SweepDue(s)'
      BY <1>2, <2>1, <2>2, <2>3, <2>4, <2>5, <2>6 DEF SweepDue
    <2>8. QED BY <1>2, <1>4, <1>5, <2>1, <2>2, <2>7 DEF DueInv
  <1>8. CASE SweepSave(s) \/ SweepDispatch(s)
    <2>1. /\ sweep[s].pc \in {"save", "dispatch"} /\ UNCHANGED due
          /\ sweep'[s].pc \in {"dispatch", "arm", "cancel"}
          /\ sweep'[s].todo = sweep[s].todo /\ sweep'[s].alertId = sweep[s].alertId
          /\ sweep'[s].nextDueAt = sweep[s].nextDueAt
      BY <1>1, <1>8 DEF SweepSave, SweepDispatch, SweepType
    <2>2. SweepDue(s)'
      BY <1>2, <2>1 DEF SweepDue, DueInv
    <2>3. QED BY <1>2, <1>4, <1>5, <2>1, <2>2 DEF DueInv
  <1>9. CASE SweepArm(s) \/ SweepCancel(s)
    <2> DEFINE b == sweep[s].alertId
    <2>1. /\ b \in Alerts /\ SweepDue(s) /\ sweep[s].pc \in {"arm", "cancel"}
          /\ sweep'[s].pc = "next" /\ sweep'[s].todo = sweep[s].todo
          /\ \A a \in Alerts : a # b => due'[a] = due[a]
          /\ \A e \in sweep[s].todo : e.alertId \in Alerts
      <3>1. b \in Alerts /\ SweepDue(s) /\ sweep[s].pc \in {"arm", "cancel"}
        BY <1>1, <1>9 DEF SweepArm, SweepCancel, SweepOK, DueInv
      <3>2. sweep'[s].pc = "next" /\ sweep'[s].todo = sweep[s].todo
        BY <1>1, <1>9 DEF SweepArm, SweepCancel, EntryDone, IdleSweep
      <3>3. \A a \in Alerts : a # b => due'[a] = due[a]
        BY <1>1, <1>9 DEF SweepArm, SweepCancel, schedule, cancel
      <3>4. \A e \in sweep[s].todo : e.alertId \in Alerts
        BY <1>1 DEF SweepType, DueTimer
      <3>5. QED BY <3>1, <3>2, <3>3, <3>4
    <2>2. due[b] # NoTime /\ due'[b] # NoTime => due'[b] >= due[b]
      <3>1. CASE SweepArm(s)
        <4>1. due'[b] = sweep[s].nextDueAt /\ sweep[s].nextDueAt \in Nat \cup {NoTime}
          BY <1>1, <2>1, <3>1 DEF SweepArm, schedule, SweepType
        <4>2. sweep[s].nextDueAt # NoTime => due[b] <= sweep[s].nextDueAt
          BY <2>1, <3>1 DEF SweepArm, SweepDue
        <4>3. QED BY <1>1, <2>1, <4>1, <4>2
      <3>2. CASE SweepCancel(s)
        BY <1>1, <2>1, <3>2 DEF SweepCancel, cancel
      <3>3. QED BY <1>9, <3>1, <3>2
    <2>3. arming[b] = NoTime /\ \A e \in sweep[s].todo : e.alertId # b
      BY <2>1 DEF SweepDue
    <2>4. SweepDue(s)'
      BY <1>2, <2>1, <2>3 DEF SweepDue
    <2>5. \A a \in Alerts : arming'[a] # NoTime => due'[a] = NoTime
      BY <1>2, <2>1, <2>3 DEF DueInv
    <2> HIDE DEF b
    <2>6. \A a \in Alerts : due[a] # NoTime /\ due'[a] # NoTime => due'[a] >= due[a]
      BY <1>4, <2>1, <2>2
    <2>7. \A x \in Sweeps : sweep'[x].pc # "idle" => SweepDue(x)'
      BY <1>2, <1>5, <2>1, <2>4
    <2>8. QED BY <2>5, <2>6, <2>7
  <1>10. CASE SweepEnd(s) \/ SweepAbort(s)
    <2>1. sweep'[s].pc = "idle" /\ sweep[s].pc # "idle" /\ UNCHANGED due
      BY <1>1, <1>10 DEF SweepEnd, SweepAbort, IdleSweep
    <2>2. QED BY <1>2, <1>4, <1>5, <2>1 DEF DueInv
  <1>11. QED BY <1>6, <1>7, <1>8, <1>9, <1>10

(* Every step taken while at most one sweep runs keeps DueInv and moves no  *)
(* due time back.                                                           *)
LEMMA NextDueInv ==
  DueInv /\ OneSweep /\ OneSweep' /\ [Next]_vars =>
    /\ DueInv'
    /\ \A a \in Alerts : due[a] # NoTime /\ due'[a] # NoTime => due'[a] >= due[a]
  <1> SUFFICES ASSUME DueInv, OneSweep, OneSweep', [Next]_vars
               PROVE
                 /\ \A a \in Alerts : arming'[a] # NoTime => due'[a] = NoTime
                 /\ \A s \in Sweeps : sweep'[s].pc # "idle" => SweepDue(s)'
                 /\ \A a \in Alerts : due[a] # NoTime /\ due'[a] # NoTime => due'[a] >= due[a]
    BY NextIInv DEF DueInv
  <1>1. CASE \E s \in Sweeps : \/ SweepBegin(s) \/ SweepLoad(s) \/ SweepSave(s)
                               \/ SweepDispatch(s) \/ SweepArm(s) \/ SweepCancel(s)
                               \/ SweepEnd(s) \/ SweepAbort(s)
    BY <1>1, SweepKeepsDue
  <1>2. CASE \/ \E a \in Alerts : CreateSave(a) \/ CreateArm(a) \/ CreateAbort(a)
             \/ \E k \in Acks : AckCancel(k)
    <2>1. UNCHANGED sweep
      BY <1>2 DEF CreateSave, CreateArm, CreateAbort, AckCancel
    <2>2. QED BY <1>2, <2>1, CallsKeepDue
  <1>3. CASE \/ \E k \in Acks, a \in Alerts, u \in Users : AckLoad(k, a, u)
             \/ \E k \in Acks, a \in Alerts : AckNoop(k, a)
             \/ \E k \in Acks : AckSave(k) \/ AckAbort(k)
             \/ UpsertRule \/ Clock \/ UNCHANGED vars
    <2>1. UNCHANGED <<due, arming, sweep>>
      BY <1>3 DEF AckLoad, AckNoop, AckSave, AckAbort, UpsertRule, Clock, vars
    <2>2. QED BY <2>1, CallsKeepDue
  <1>4. QED BY <1>1, <1>2, <1>3 DEF Next, Begin, Resume, Abort

(* While no two sweeps overlap, a reschedule moves a timer forward, never   *)
(* back (redis-keys.ts, P35): whatever acknowledge or an aborted call did   *)
(* to the timer meanwhile, the sweep arms it later than the entry it read.  *)
THEOREM DueOnlyMovesForward == Spec /\ []OneSweep => DueMovesForward
  <1>1. DueInv /\ OneSweep /\ OneSweep' /\ [Next]_vars => DueInv'
    BY NextDueInv
  <1>2. DueInv /\ OneSweep /\ OneSweep' /\ [Next]_vars =>
          [\A a \in Alerts : due[a] # NoTime /\ due'[a] # NoTime => due'[a] >= due[a]]_due
    BY NextDueInv
  <1>3. Spec /\ []OneSweep =>
          [][\A a \in Alerts : due[a] # NoTime /\ due'[a] # NoTime => due'[a] >= due[a]]_due
    BY InitDueInv, <1>1, <1>2, PTL DEF Spec
  <1>4. QED BY <1>3 DEF DueMovesForward
=============================================================================
