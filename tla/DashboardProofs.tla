-------------------------- MODULE DashboardProofs --------------------------
(***************************************************************************)
(* Theorems about the Dashboard, for every set of alerts, drones, places   *)
(* and slots and every bound.                                              *)
(***************************************************************************)
EXTENDS Dashboard, FunctionTheorems, FiniteSetTheorems, SequenceTheorems,
        WellFoundedInduction, TLAPS

-----------------------------------------------------------------------------
(* The alert feed.  The service's calls overlap, so a row may be taken back  *)
(* there; what the page can count on is that every row stored is pushed or   *)
(* missed, that what tells of an acknowledgement carries an acknowledged     *)
(* row, and that a closed row is left alone.                                 *)

Rank(a) == STATUS_RANK[a.status]

(* a is not newer than b. *)
AtMost(a, b) ==
  \/ Rank(a) < Rank(b)
  \/ Rank(a) = Rank(b) /\ a.escalationLevel <= b.escalationLevel

ItemType == [alert : Alert \cup {NoAlert}, acknowledging : BOOLEAN]

PushedType ==
  {e \in [event : {"alert:new", "alert:ack"}, id : Alerts, alert : Alert] :
     e.alert.status \in IF e.event = "alert:ack" THEN {"ACKNOWLEDGED"} ELSE {"OPEN", "ESCALATED"}}

FeedTypes ==
  /\ service \in [Alerts -> Alert \cup {NoAlert}]
  /\ feed \in [Alerts -> ItemType]
  /\ crashes \in [Alerts -> 0..DEFAULT_MAX_DISPLAY_RETRIES]
  /\ acks \in [Alerts -> Alert \cup {NoAlert, Sent, Failed}]
  /\ pushed \subseteq PushedType
  /\ missed \subseteq Alerts
  /\ seed.status = "answered" => seed.alerts \in [Alerts -> Alert \cup {NoAlert}]

(* The row: what its button shows agrees with the call in flight. *)
ButtonOK(id) ==
  /\ feed[id] = NoItem \/ feed[id].alert \in Alert
  /\ feed[id] = NoItem => acks[id] = NoAlert
  /\ feed[id].acknowledging => acks[id] # NoAlert /\ isActionable(feed[id])
  /\ acks[id] # NoAlert => feed[id].acknowledging \/ ~isActionable(feed[id])

AnswerOK(id) ==
  \/ acks[id] \in {NoAlert, Sent, Failed}
  \/ acks[id] \in Alert /\ acks[id].status = "ACKNOWLEDGED"

(* A closed alert stays as it is, and only the list tells of one. *)
ClosedOK(id) ==
  /\ service[id].status = "CLOSED" =>
       (\A e \in pushed : e.id # id) /\ acks[id] \in {NoAlert, Sent, Failed}
  /\ feed[id].alert.status = "CLOSED" => service[id].status = "CLOSED"
  /\ seed.status = "answered" /\ seed.alerts[id].status = "CLOSED" =>
       service[id].status = "CLOSED"

(* The row last stored is on screen, or a later state than that... *)
UpToDate(id) ==
  /\ feed[id] # NoItem
  /\ \/ feed[id].alert.status = "ACKNOWLEDGED" /\ service[id].status = "ACKNOWLEDGED"
     \/ AtMost(service[id], feed[id].alert)

(* ... or is on its way as a push... *)
PushComing(id) == \E e \in pushed : e.id = id /\ e.alert = service[id]

(* ... or has not changed since the page asked for the list. *)
ListComing(id) ==
  /\ feed[id] = NoItem /\ \A e \in pushed : e.id # id
  /\ \/ seed.status = "sent"
     \/ seed.status = "answered" /\ seed.alerts[id] = service[id]

Told(id) ==
  id \notin missed /\ service[id] # NoAlert =>
    UpToDate(id) \/ PushComing(id) \/ ListComing(id)

RowInv(id) == ButtonOK(id) /\ AnswerOK(id) /\ ClosedOK(id) /\ Told(id)

FeedInv == FeedTypes /\ \A id \in Alerts : RowInv(id)

(* Statuses are told apart from the marks that stand where no alert is. *)
LEMMA AlertFields ==
  ASSUME NEW a \in Alert
  PROVE  /\ a.status \in {"OPEN", "ESCALATED", "ACKNOWLEDGED", "CLOSED"}
         /\ a.escalationLevel \in 0..MaxLevel
         /\ a \notin {NoAlert, Sent, Failed}
         /\ Rank(a) \in 0..3
         /\ a.status \in {"OPEN", "ESCALATED"} <=> Rank(a) < 2
         /\ a.status = "ACKNOWLEDGED" <=> Rank(a) = 2
         /\ a.status = "CLOSED" <=> Rank(a) = 3
  <1>1. DOMAIN STATUS_RANK = {"OPEN", "ESCALATED", "ACKNOWLEDGED", "CLOSED"}
    BY DEF STATUS_RANK
  <1>2. a.status \in {"OPEN", "ESCALATED", "ACKNOWLEDGED", "CLOSED"}
        /\ a.escalationLevel \in 0..MaxLevel
    BY <1>1 DEF Alert
  <1>3. a \notin {NoAlert, Sent, Failed}
    BY <1>2 DEF NoAlert, Sent, Failed
  <1>4. /\ Rank(a) \in 0..3
        /\ a.status \in {"OPEN", "ESCALATED"} <=> Rank(a) < 2
        /\ a.status = "ACKNOWLEDGED" <=> Rank(a) = 2
        /\ a.status = "CLOSED" <=> Rank(a) = 3
    BY <1>2 DEF Rank, STATUS_RANK
  <1>5. QED BY <1>2, <1>3, <1>4

(* isNewerAlert is the strict part of a total order. *)
LEMMA NewerIsStrict ==
  ASSUME NEW a \in Alert, NEW b \in Alert
  PROVE  isNewerAlert(a, b) <=> ~AtMost(b, a)
  <1>1. /\ Rank(a) \in Int /\ Rank(b) \in Int
        /\ a.escalationLevel \in Int /\ b.escalationLevel \in Int
    BY AlertFields, AlertFeedAssumption
  <1>2. QED BY <1>1 DEF isNewerAlert, AtMost, Rank

(* A newer alert is above. *)
LEMMA NewerIsAbove ==
  ASSUME NEW a \in Alert, NEW b \in Alert, isNewerAlert(a, b)
  PROVE  AtMost(a, b)
  <1>1. /\ Rank(a) \in Int /\ Rank(b) \in Int
        /\ a.escalationLevel \in Int /\ b.escalationLevel \in Int
    BY AlertFields
  <1>2. QED BY <1>1 DEF isNewerAlert, AtMost, Rank

(* AtMost is reflexive and transitive. *)
LEMMA AtMostOrder ==
  ASSUME NEW a \in Alert, NEW b \in Alert, NEW c \in Alert
  PROVE  AtMost(a, a) /\ (AtMost(a, b) /\ AtMost(b, c) => AtMost(a, c))
  <1>1. /\ Rank(a) \in Int /\ Rank(b) \in Int /\ Rank(c) \in Int
        /\ a.escalationLevel \in Int /\ b.escalationLevel \in Int /\ c.escalationLevel \in Int
    BY AlertFields, AlertFeedAssumption
  <1>2. QED BY <1>1 DEF AtMost

-----------------------------------------------------------------------------
(* A page just opened waits for its list. *)
LEMMA BlankFeed ==
  ASSUME pushed = {}, missed = {}, feed = [id \in Alerts |-> NoItem],
         acks = NoAlerts, crashes = [id \in Alerts |-> 0],
         service \in [Alerts -> Alert \cup {NoAlert}],
         seed.status = "sent" \/ (seed.status = "none" /\ service = NoAlerts)
  PROVE  FeedInv
  <1>1. \A id \in Alerts : feed[id] = NoItem /\ acks[id] = NoAlert
    BY DEF NoAlerts
  <1>2. /\ NoItem \in ItemType /\ NoItem.acknowledging = FALSE
        /\ NoItem.alert.status = "none"
    BY DEF NoItem, ItemType, NoAlert
  <1>3. FeedTypes
    BY <1>2 DEF FeedTypes, NoAlerts, DEFAULT_MAX_DISPLAY_RETRIES
  <1>4. ASSUME NEW id \in Alerts PROVE RowInv(id)
    <2>1. ButtonOK(id) /\ AnswerOK(id) /\ ClosedOK(id)
      BY <1>1, <1>2 DEF ButtonOK, AnswerOK, ClosedOK
    <2>2. Told(id)
      BY <1>1 DEF Told, ListComing, NoAlerts
    <2>3. QED BY <2>1, <2>2 DEF RowInv
  <1>5. QED BY <1>3, <1>4 DEF FeedInv

(* The dashboard opens with an empty feed. *)
LEMMA InitFeed == Init => FeedInv
  <1> SUFFICES ASSUME Init PROVE FeedInv
    OBVIOUS
  <1>1. service = NoAlerts /\ FeedBlank
    BY DEF Init, FeedInit
  <1>2. service \in [Alerts -> Alert \cup {NoAlert}] /\ seed.status = "none"
    BY <1>1 DEF NoAlerts, FeedBlank, list
  <1>3. QED BY <1>1, <1>2, BlankFeed DEF FeedBlank

(* Opening a page: the feed is empty, whatever the service holds by then. *)
LEMMA LoadFeed ==
  ASSUME FeedInv, NEW p, FeedLoad(p)
  PROVE  FeedInv'
  <1>1. service' \in [Alerts -> Alert \cup {NoAlert}]
    BY DEF FeedLoad, raised, NoAlerts
  <1>2. /\ pushed' = {} /\ missed' = {} /\ feed' = [id \in Alerts |-> NoItem]
        /\ acks' = NoAlerts /\ crashes' = [id \in Alerts |-> 0]
    BY DEF FeedLoad
  <1>3. seed'.status = "sent" \/ (seed'.status = "none" /\ service' = NoAlerts)
    <2>1. CASE p = alertsPage
      BY <2>1 DEF FeedLoad, list
    <2>2. CASE p # alertsPage
      <3>1. service' \in {NoAlerts} /\ seed' = list("none", NoAlerts)
        BY <2>2 DEF FeedLoad
      <3>2. QED BY <3>1 DEF list
    <2>3. QED BY <2>1, <2>2
  <1>4. \A id \in Alerts : feed'[id] = NoItem /\ acks'[id] = NoAlert
    BY <1>2 DEF NoAlerts
  <1>5. /\ NoItem \in ItemType /\ NoItem.acknowledging = FALSE
        /\ NoItem.alert.status = "none"
    BY DEF NoItem, ItemType, NoAlert
  <1>6. FeedTypes'
    BY <1>1, <1>2, <1>3, <1>5 DEF FeedTypes, NoAlerts, DEFAULT_MAX_DISPLAY_RETRIES
  <1>7. ASSUME NEW id \in Alerts PROVE RowInv(id)'
    <2>1. ButtonOK(id)' /\ AnswerOK(id)' /\ ClosedOK(id)'
      BY <1>2, <1>3, <1>4, <1>5 DEF ButtonOK, AnswerOK, ClosedOK
    <2>2. Told(id)'
      BY <1>2, <1>3, <1>4 DEF Told, ListComing, NoAlerts
    <2>3. QED BY <2>1, <2>2 DEF RowInv
  <1>8. QED BY <1>6, <1>7 DEF FeedInv

(* A row that a step does not touch: its alert, its call, its pushes. *)
LEMMA RowUntouched ==
  ASSUME NEW id, RowInv(id), UNCHANGED seed,
         service'[id] = service[id], feed'[id] = feed[id], acks'[id] = acks[id],
         \A e : e.id = id => (e \in pushed' <=> e \in pushed),
         id \in missed => id \in missed'
  PROVE  RowInv(id)'
  <1>1. ButtonOK(id)' /\ AnswerOK(id)'
    BY DEF RowInv, ButtonOK, AnswerOK, isActionable
  <1>2. (\A e \in pushed : e.id # id) <=> (\A e \in pushed' : e.id # id)
    OBVIOUS
  <1>3. ClosedOK(id)'
    BY <1>2 DEF RowInv, ClosedOK
  <1>4. Told(id)'
    <2>1. UpToDate(id) => UpToDate(id)'
      BY DEF UpToDate, AtMost, Rank
    <2>2. PushComing(id) => PushComing(id)'
      BY DEF PushComing
    <2>3. ListComing(id) => ListComing(id)'
      BY <1>2 DEF ListComing
    <2>4. QED BY <2>1, <2>2, <2>3 DEF RowInv, Told
  <1>5. QED BY <1>1, <1>3, <1>4 DEF RowInv

(* A call saves a row and pushes it, or the page misses it. *)
LEMMA ServiceStores ==
  ASSUME FeedInv, NEW id \in Alerts, NEW a \in Alert, NEW event \in {"alert:new", "alert:ack"},
         service[id].status # "CLOSED", store(id, a, event),
         a.status \in IF event = "alert:ack" THEN {"ACKNOWLEDGED"} ELSE {"OPEN", "ESCALATED"},
         \/ acks' = acks
         \/ acks[id] = Sent /\ a.status = "ACKNOWLEDGED" /\ acks' = [acks EXCEPT ![id] = a],
         UNCHANGED <<feed, seed, crashes>>
  PROVE  FeedInv'
  <1> DEFINE e == [event |-> event, id |-> id, alert |-> a]
  <1>1. FeedTypes
    BY DEF FeedInv
  <1>2. e \in PushedType /\ e.id = id /\ e.alert = a
    BY DEF PushedType
  <1>3. service' = [service EXCEPT ![id] = a]
        /\ \/ pushed' = pushed \cup {e} /\ missed' = missed
           \/ missed' = missed \cup {id} /\ pushed' = pushed
    BY DEF store
  <1> HIDE DEF e
  <1>4. FeedTypes'
    BY <1>1, <1>2, <1>3 DEF FeedTypes
  <1>5. ASSUME NEW j \in Alerts, j # id PROVE RowInv(j)'
    <2>1. service'[j] = service[j] /\ acks'[j] = acks[j]
      BY <1>1, <1>3, <1>5 DEF FeedTypes
    <2>2. \A d : d.id = j => (d \in pushed' <=> d \in pushed)
      BY <1>2, <1>3, <1>5
    <2>3. RowInv(j) /\ (j \in missed => j \in missed')
      BY <1>3 DEF FeedInv
    <2>4. QED BY <2>1, <2>2, <2>3, RowUntouched
  <1>6. RowInv(id)'
    <2>1. RowInv(id) /\ service'[id] = a
      BY <1>1, <1>3 DEF FeedInv, FeedTypes
    <2>2. a \notin {NoAlert, Sent, Failed} /\ a.status # "CLOSED"
      BY AlertFields
    <2>3. Sent # NoAlert
      BY DEF Sent, NoAlert
    <2>4. \/ acks'[id] = acks[id]
          \/ acks[id] = Sent /\ a.status = "ACKNOWLEDGED" /\ acks'[id] = a
      BY <1>1 DEF FeedTypes
    <2>5. ButtonOK(id)'
      BY <2>1, <2>2, <2>3, <2>4 DEF RowInv, ButtonOK, isActionable
    <2>6. AnswerOK(id)'
      BY <2>1, <2>4 DEF RowInv, AnswerOK
    <2>7. ClosedOK(id)'
      BY <2>1, <2>2 DEF RowInv, ClosedOK
    <2>8. Told(id)'
      BY <1>2, <1>3, <2>1 DEF Told, PushComing
    <2>9. QED BY <2>5, <2>6, <2>7, <2>8 DEF RowInv
  <1>7. QED BY <1>4, <1>5, <1>6 DEF FeedInv

(* The steps of the service: the alert is raised, taken a level up or        *)
(* acknowledged, from the row it has or from one loaded before.              *)
LEMMA ServiceStep ==
  ASSUME FeedInv, NEW id \in Alerts,
         Raise(id) \/ Escalate(id) \/ AcknowledgedElsewhere(id)
  PROVE  FeedInv'
  <1>1. DOMAIN STATUS_RANK = {"OPEN", "ESCALATED", "ACKNOWLEDGED", "CLOSED"}
    BY DEF STATUS_RANK
  <1>2. ASSUME NEW row \in loaded(id)
        PROVE  row \in Alert /\ service[id].status # "CLOSED"
    BY DEF loaded
  <1>3. CASE Raise(id)
    <2> DEFINE a == [status |-> "OPEN", escalationLevel |-> 0]
    <2>1. a \in Alert /\ a.status = "OPEN"
      BY <1>1, AlertFeedAssumption DEF Alert
    <2>2. /\ service[id].status # "CLOSED" /\ store(id, a, "alert:new")
          /\ UNCHANGED <<feed, seed, acks, crashes>>
      BY <1>3 DEF Raise, NoAlert
    <2> HIDE DEF a
    <2>3. QED BY <2>1, <2>2, ServiceStores
  <1>4. CASE Escalate(id)
    <2>1. PICK row \in loaded(id) :
            row.status = "OPEN" /\ \E a \in escalated(row) : store(id, a, "alert:new")
      BY <1>4 DEF Escalate
    <2>2. PICK a \in escalated(row) : store(id, a, "alert:new")
      BY <2>1
    <2>3. row \in Alert /\ service[id].status # "CLOSED"
      BY <1>2
    <2>4. a \in Alert /\ a.status \in {"OPEN", "ESCALATED"}
      BY <1>1, <2>3 DEF escalated, Alert
    <2>5. UNCHANGED <<feed, seed, acks, crashes>>
      BY <1>4 DEF Escalate
    <2>6. QED BY <2>2, <2>3, <2>4, <2>5, ServiceStores
  <1>5. CASE AcknowledgedElsewhere(id)
    <2>1. PICK row \in loaded(id) : store(id, acknowledged(row), "alert:ack")
      BY <1>5 DEF AcknowledgedElsewhere
    <2>2. row \in Alert /\ service[id].status # "CLOSED"
      BY <1>2
    <2>3. acknowledged(row) \in Alert /\ acknowledged(row).status = "ACKNOWLEDGED"
      BY <1>1, <2>2 DEF acknowledged, Alert
    <2>4. UNCHANGED <<feed, seed, acks, crashes>>
      BY <1>5 DEF AcknowledgedElsewhere
    <2>5. QED BY <2>1, <2>2, <2>3, <2>4, ServiceStores
  <1>6. QED BY <1>3, <1>4, <1>5

(* The call of the button comes to its end at the service. *)
LEMMA CallHandled ==
  ASSUME FeedInv, NEW id \in Alerts, AcknowledgeHandled(id)
  PROVE  FeedInv'
  <1>1. DOMAIN STATUS_RANK = {"OPEN", "ESCALATED", "ACKNOWLEDGED", "CLOSED"}
    BY DEF STATUS_RANK
  <1>2. FeedTypes /\ acks[id] = Sent /\ UNCHANGED <<feed, seed, crashes>>
    BY DEF FeedInv, AcknowledgeHandled
  <1>3. ASSUME NEW a \in Alert \cup {Failed}, acks' = [acks EXCEPT ![id] = a],
               a # Failed => a.status = "ACKNOWLEDGED" /\ service[id].status # "CLOSED",
               UNCHANGED <<service, pushed, missed>>
        PROVE  FeedInv'
    <2>1. FeedTypes'
      BY <1>2, <1>3 DEF FeedTypes
    <2>2. ASSUME NEW j \in Alerts PROVE RowInv(j)'
      <3>1. RowInv(j)
        BY DEF FeedInv
      <3>2. CASE j # id
        <4>1. acks'[j] = acks[j]
          BY <1>2, <1>3, <3>2 DEF FeedTypes
        <4>2. QED BY <1>2, <1>3, <3>1, <4>1, RowUntouched
      <3>3. CASE j = id
        <4>1. acks'[id] = a /\ a # NoAlert /\ Sent # NoAlert
          <5>1. Sent # NoAlert /\ Failed # NoAlert
            BY DEF Sent, Failed, NoAlert
          <5>2. QED BY <1>2, <1>3, <5>1, AlertFields DEF FeedTypes
        <4>2. ButtonOK(id)'
          BY <1>2, <3>1, <3>3, <4>1 DEF RowInv, ButtonOK, isActionable
        <4>3. AnswerOK(id)'
          BY <1>3, <4>1 DEF AnswerOK
        <4>4. ClosedOK(id)'
          BY <1>2, <1>3, <3>1, <3>3, <4>1 DEF RowInv, ClosedOK
        <4>5. Told(id)'
          BY <1>2, <1>3, <3>1, <3>3
             DEF RowInv, Told, UpToDate, PushComing, ListComing, AtMost, Rank
        <4>6. QED BY <3>3, <4>2, <4>3, <4>4, <4>5 DEF RowInv
      <3>4. QED BY <3>2, <3>3
    <2>3. QED BY <2>1, <2>2 DEF FeedInv
  <1>4. CASE acks' = [acks EXCEPT ![id] = Failed] /\ UNCHANGED <<service, pushed, missed>>
    BY <1>3, <1>4
  <1>5. ASSUME NEW row \in loaded(id), acks' = [acks EXCEPT ![id] = acknowledged(row)],
               IF row.status = "ACKNOWLEDGED" THEN UNCHANGED <<service, pushed, missed>>
               ELSE store(id, acknowledged(row), "alert:ack")
        PROVE  FeedInv'
    <2>1. row \in Alert /\ service[id].status # "CLOSED"
      BY DEF loaded
    <2>2. acknowledged(row) \in Alert /\ acknowledged(row).status = "ACKNOWLEDGED"
      BY <1>1, <2>1 DEF acknowledged, Alert
    <2>3. CASE row.status = "ACKNOWLEDGED"
      BY <1>3, <1>5, <2>1, <2>2, <2>3
    <2>4. CASE row.status # "ACKNOWLEDGED"
      BY <1>2, <1>5, <2>1, <2>2, <2>4, ServiceStores
    <2>5. QED BY <2>3, <2>4
  <1>6. QED BY <1>4, <1>5 DEF AcknowledgeHandled

(* A push of "alert:new" shows its alert if that is newer. *)
LEMMA NewShown ==
  ASSUME FeedInv, NEW e \in pushed, e.event = "alert:new",
         pushed' = pushed \ {e}, feed' = applyNewAlert(feed, e.id, e.alert),
         UNCHANGED <<service, missed, seed, acks, crashes>>
  PROVE  FeedInv'
  <1> DEFINE id == e.id
             a  == e.alert
  <1>1. FeedTypes /\ id \in Alerts /\ a \in Alert /\ a.status \in {"OPEN", "ESCALATED"}
    BY DEF FeedInv, FeedTypes, PushedType
  <1>2. RowInv(id) /\ feed[id] \in ItemType
    BY <1>1 DEF FeedInv, FeedTypes
  <1>3. service[id] \in Alert \cup {NoAlert} /\ service[id].status # "CLOSED"
    BY <1>1, <1>2 DEF FeedTypes, RowInv, ClosedOK
  <1>4. ~ ListComing(id)
    BY DEF ListComing
  <1> HIDE DEF id, a
  <1>5. CASE feed[id] = NoItem \/ isNewerAlert(feed[id].alert, a)
    <2>1. feed' = [feed EXCEPT ![id].alert = a]
      BY <1>5 DEF applyNewAlert, id, a
    <2>2. feed'[id] = [feed[id] EXCEPT !.alert = a]
      BY <1>1, <2>1 DEF FeedTypes
    <2>3. feed'[id].alert = a /\ feed'[id].acknowledging = feed[id].acknowledging
          /\ feed'[id] \in ItemType
      BY <1>1, <1>2, <2>2 DEF ItemType
    <2>4. feed' \in [Alerts -> ItemType]
      BY <1>1, <2>1, <2>2, <2>3 DEF FeedTypes
    <2>5. feed'[id] # NoItem
      BY <1>1, <2>3, AlertFields DEF NoItem
    <2>6. FeedTypes'
      BY <1>1, <2>4 DEF FeedTypes
    <2>7. ASSUME NEW j \in Alerts, j # id PROVE RowInv(j)'
      <3>1. RowInv(j) /\ feed'[j] = feed[j]
        BY <1>1, <2>1, <2>7 DEF FeedInv, FeedTypes
      <3>2. \A d : d.id = j => (d \in pushed' <=> d \in pushed)
        BY <2>7 DEF id
      <3>3. QED BY <3>1, <3>2, RowUntouched
    <2>8. RowInv(id)'
      <3>1. ASSUME feed[id] # NoItem
            PROVE  /\ feed[id].alert \in Alert /\ isActionable(feed[id])
                   /\ AtMost(feed[id].alert, a)
        <4>1. feed[id].alert \in Alert /\ isNewerAlert(feed[id].alert, a)
          BY <1>2, <1>5, <3>1 DEF RowInv, ButtonOK
        <4>2. AtMost(feed[id].alert, a)
          BY <1>1, <4>1, NewerIsAbove
        <4>3. Rank(feed[id].alert) < 2
          <5>1. Rank(a) \in 0..3 /\ Rank(a) < 2 /\ Rank(feed[id].alert) \in 0..3
            BY <1>1, <4>1, AlertFields
          <5>2. QED BY <4>2, <5>1 DEF AtMost
        <4>4. isActionable(feed[id])
          BY <4>1, <4>3, AlertFields DEF isActionable
        <4>5. QED BY <4>1, <4>2, <4>4
      <3>2. isActionable(feed[id])'
        BY <1>1, <2>3 DEF isActionable
      <3>3. NoItem.acknowledging = FALSE
        BY DEF NoItem
      <3>4. ButtonOK(id)'
        <4>1. CASE feed[id] = NoItem
          BY <1>1, <1>2, <2>3, <2>5, <3>3, <4>1 DEF RowInv, ButtonOK
        <4>2. CASE feed[id] # NoItem
          BY <1>1, <1>2, <2>3, <2>5, <3>1, <3>2, <4>2 DEF RowInv, ButtonOK
        <4>3. QED BY <4>1, <4>2
      <3>5. AnswerOK(id)'
        BY <1>2 DEF RowInv, AnswerOK
      <3>6. ClosedOK(id)'
        BY <1>1, <1>2, <1>3, <2>3 DEF RowInv, ClosedOK
      <3>7. Told(id)'
        <4> SUFFICES ASSUME id \notin missed, service[id] # NoAlert
                     PROVE  UpToDate(id)' \/ PushComing(id)'
          BY DEF Told
        <4>1. service[id] \in Alert
          BY <1>3
        <4>2. SUFFICES ASSUME ~ PushComing(id)' PROVE AtMost(service[id], a)
          BY <2>3, <2>5 DEF UpToDate, AtMost, Rank
        <4>3. UpToDate(id) \/ service[id] = a
          BY <1>2, <1>4, <4>2 DEF RowInv, Told, PushComing, id, a
        <4>4. CASE service[id] = a
          BY <1>1, <4>4, AtMostOrder
        <4>5. CASE UpToDate(id)
          <5>1. feed[id].alert \in Alert /\ feed[id].alert.status # "ACKNOWLEDGED"
                /\ AtMost(feed[id].alert, a)
            BY <3>1, <4>5 DEF UpToDate, isActionable
          <5>2. AtMost(service[id], feed[id].alert)
            BY <4>5, <5>1 DEF UpToDate
          <5>3. QED BY <1>1, <4>1, <5>1, <5>2, AtMostOrder
        <4>6. QED BY <4>3, <4>4, <4>5
      <3>8. QED BY <3>4, <3>5, <3>6, <3>7 DEF RowInv
    <2>9. QED BY <2>6, <2>7, <2>8 DEF FeedInv
  <1>6. CASE ~(feed[id] = NoItem \/ isNewerAlert(feed[id].alert, a))
    <2>1. feed' = feed
      BY <1>6 DEF applyNewAlert, id, a
    <2>2. feed[id].alert \in Alert
      BY <1>2, <1>6 DEF RowInv, ButtonOK
    <2>3. AtMost(a, feed[id].alert)
      BY <1>1, <1>6, <2>2, NewerIsStrict
    <2>4. FeedTypes'
      BY <1>1, <2>1 DEF FeedTypes
    <2>5. ASSUME NEW j \in Alerts, j # id PROVE RowInv(j)'
      <3>1. \A d : d.id = j => (d \in pushed' <=> d \in pushed)
        BY <2>5 DEF id
      <3>2. QED BY <2>1, <3>1, RowUntouched DEF FeedInv
    <2>6. RowInv(id)'
      <3>1. ButtonOK(id)' /\ AnswerOK(id)' /\ ClosedOK(id)'
        BY <1>2, <2>1 DEF RowInv, ButtonOK, AnswerOK, ClosedOK, isActionable
      <3>2. Told(id)'
        <4> SUFFICES ASSUME id \notin missed, service[id] # NoAlert, ~ PushComing(id)'
                     PROVE  UpToDate(id)
          BY <2>1 DEF Told, UpToDate, AtMost, Rank
        <4>1. UpToDate(id) \/ service[id] = a
          BY <1>2, <1>4 DEF RowInv, Told, PushComing, id, a
        <4>2. QED BY <1>6, <2>3, <4>1 DEF UpToDate
      <3>3. QED BY <3>1, <3>2 DEF RowInv
    <2>7. QED BY <2>4, <2>5, <2>6 DEF FeedInv
  <1>7. QED BY <1>5, <1>6

(* What applyAck shows: an acknowledged alert, and no call in flight. *)
LEMMA AckRow ==
  ASSUME FeedInv, NEW id \in Alerts, NEW a \in Alert, a.status = "ACKNOWLEDGED",
         feed' = applyAck(feed, id, a)
  PROVE  /\ feed' \in [Alerts -> ItemType]
         /\ \A j \in Alerts \ {id} : feed'[j] = feed[j]
         /\ feed'[id] # NoItem /\ feed'[id].acknowledging = FALSE
         /\ feed'[id].alert \in Alert /\ feed'[id].alert.status = "ACKNOWLEDGED"
         /\ feed'[id].alert = IF feed[id].alert.status = "ACKNOWLEDGED" THEN feed[id].alert ELSE a
  <1> DEFINE shown == IF feed[id].alert.status = a.status /\ ~feed[id].acknowledging
                      THEN feed[id].alert ELSE a
  <1>1. feed \in [Alerts -> ItemType] /\ RowInv(id)
    BY DEF FeedInv, FeedTypes
  <1>2. feed' = [feed EXCEPT ![id] = [alert |-> shown, acknowledging |-> FALSE]]
    BY DEF applyAck
  <1>3. shown \in Alert /\ shown.status = "ACKNOWLEDGED"
    BY <1>1 DEF RowInv, ButtonOK, NoItem, NoAlert
  <1>4. feed[id].alert.status = "ACKNOWLEDGED" => ~feed[id].acknowledging
    BY <1>1 DEF RowInv, ButtonOK, isActionable
  <1>5. shown = IF feed[id].alert.status = "ACKNOWLEDGED" THEN feed[id].alert ELSE a
    BY <1>4
  <1> HIDE DEF shown
  <1>6. [alert |-> shown, acknowledging |-> FALSE] \in ItemType
    BY <1>3 DEF ItemType
  <1>7. feed' \in [Alerts -> ItemType] /\ (\A j \in Alerts \ {id} : feed'[j] = feed[j])
        /\ feed'[id] = [alert |-> shown, acknowledging |-> FALSE]
    BY <1>1, <1>2, <1>6
  <1>8. feed'[id].alert = shown /\ feed'[id].acknowledging = FALSE
    BY <1>7
  <1>9. feed'[id] # NoItem
    BY <1>3, <1>8, AlertFields DEF NoItem
  <1>10. QED BY <1>3, <1>5, <1>7, <1>8, <1>9

(* An acknowledgement is shown, from a push or from the call's answer. *)
LEMMA AckShown ==
  ASSUME FeedInv, NEW id \in Alerts, NEW a \in Alert, a.status = "ACKNOWLEDGED",
         feed' = applyAck(feed, id, a), service[id].status # "CLOSED",
         \/ acks' = acks
         \/ acks' = [acks EXCEPT ![id] = NoAlert],
         \/ pushed' = pushed
         \/ \E e \in pushed : e.id = id /\ pushed' = pushed \ {e},
         feed[id] # NoItem \/ (acks' = acks /\ pushed' # pushed),
         UNCHANGED <<service, missed, seed, crashes>>
  PROVE  FeedInv'
  <1>1. FeedTypes /\ RowInv(id)
    BY DEF FeedInv
  <1>2. /\ feed' \in [Alerts -> ItemType]
        /\ \A j \in Alerts \ {id} : feed'[j] = feed[j]
        /\ feed'[id] # NoItem /\ feed'[id].acknowledging = FALSE
        /\ feed'[id].alert \in Alert /\ feed'[id].alert.status = "ACKNOWLEDGED"
    BY AckRow
  <1>3. /\ \A j \in Alerts \ {id} : acks'[j] = acks[j]
        /\ acks'[id] \in {acks[id], NoAlert} /\ pushed' \subseteq pushed
    BY <1>1 DEF FeedTypes
  <1>4. FeedTypes'
    BY <1>1, <1>2, <1>3 DEF FeedTypes
  <1>5. ASSUME NEW j \in Alerts, j # id PROVE RowInv(j)'
    <2>1. RowInv(j) /\ feed'[j] = feed[j] /\ acks'[j] = acks[j]
      BY <1>2, <1>3, <1>5 DEF FeedInv
    <2>2. \A d : d.id = j => (d \in pushed' <=> d \in pushed)
      BY <1>5
    <2>3. QED BY <2>1, <2>2, RowUntouched
  <1>6. RowInv(id)'
    <2>1. ButtonOK(id)'
      BY <1>2 DEF ButtonOK, isActionable
    <2>2. AnswerOK(id)' /\ ClosedOK(id)'
      BY <1>1, <1>2, <1>3 DEF RowInv, AnswerOK, ClosedOK
    <2>3. Told(id)'
      <3> SUFFICES ASSUME service[id] # NoAlert PROVE UpToDate(id)'
        BY DEF Told
      <3>1. service[id] \in Alert
        BY <1>1 DEF FeedTypes
      <3>2. Rank(service[id]) \in 0..2 /\ Rank(feed'[id].alert) = 2
        BY <1>2, <3>1, AlertFields
      <3>3. service[id].status = "ACKNOWLEDGED" \/ AtMost(service[id], feed'[id].alert)
        BY <3>1, <3>2, AlertFields DEF AtMost
      <3>4. QED BY <1>2, <3>3 DEF UpToDate, AtMost, Rank
    <2>4. QED BY <2>1, <2>2, <2>3 DEF RowInv
  <1>7. QED BY <1>4, <1>5, <1>6 DEF FeedInv

(* The row's button, and the call's refusal: only the mark on the row moves. *)
LEMMA ButtonStep ==
  ASSUME FeedInv, NEW id \in Alerts,
         AcknowledgeClick(id) \/ (AcknowledgeAnswer(id) /\ acks[id] = Failed)
  PROVE  FeedInv'
  <1>1. FeedTypes /\ RowInv(id) /\ feed[id] \in ItemType
    BY DEF FeedInv, FeedTypes
  <1>2. UNCHANGED <<service, pushed, missed, seed, crashes>>
    BY DEF AcknowledgeClick, AcknowledgeAnswer
  <1>3. PICK b \in BOOLEAN :
          /\ feed' = [feed EXCEPT ![id].acknowledging = b]
          /\ acks' = [acks EXCEPT ![id] = IF b THEN Sent ELSE NoAlert]
          /\ feed[id] # NoItem /\ (b => isActionable(feed[id]))
    <2>1. CASE AcknowledgeClick(id)
      <3>1. /\ feed' = [feed EXCEPT ![id].acknowledging = TRUE]
            /\ acks' = [acks EXCEPT ![id] = Sent] /\ isActionable(feed[id])
        BY <2>1 DEF AcknowledgeClick, beginAcknowledge
      <3>2. feed[id] # NoItem
        BY <3>1 DEF isActionable, NoItem, NoAlert
      <3>3. QED BY <3>1, <3>2
    <2>2. CASE AcknowledgeAnswer(id) /\ acks[id] = Failed
      <3>1. /\ feed' = [feed EXCEPT ![id].acknowledging = FALSE]
            /\ acks' = [acks EXCEPT ![id] = NoAlert]
        BY <2>2 DEF AcknowledgeAnswer, failAcknowledge
      <3>2. feed[id] # NoItem
        BY <1>1, <2>2 DEF RowInv, ButtonOK, Failed, NoAlert
      <3>3. QED BY <3>1, <3>2
    <2>3. QED BY <2>1, <2>2
  <1>4. feed'[id] = [feed[id] EXCEPT !.acknowledging = b]
        /\ acks'[id] = IF b THEN Sent ELSE NoAlert
    BY <1>1, <1>3 DEF FeedTypes
  <1>5. feed'[id].alert = feed[id].alert /\ feed'[id].acknowledging = b /\ feed'[id] \in ItemType
    BY <1>1, <1>4 DEF ItemType
  <1>6. FeedTypes'
    BY <1>1, <1>2, <1>3, <1>4, <1>5 DEF FeedTypes
  <1>7. ASSUME NEW j \in Alerts, j # id PROVE RowInv(j)'
    <2>1. RowInv(j) /\ feed'[j] = feed[j] /\ acks'[j] = acks[j]
      BY <1>1, <1>3, <1>7 DEF FeedInv, FeedTypes
    <2>2. QED BY <1>2, <2>1, RowUntouched
  <1>8. RowInv(id)'
    <2>1. feed[id].alert \in Alert
      BY <1>1, <1>3 DEF RowInv, ButtonOK
    <2>2. feed'[id] # NoItem
      BY <1>5, <2>1, AlertFields DEF NoItem
    <2>3. Sent # NoAlert
      BY DEF Sent, NoAlert
    <2>4. isActionable(feed[id])' <=> isActionable(feed[id])
      BY <1>5 DEF isActionable
    <2>5. ButtonOK(id)'
      <3>1. CASE b
        BY <1>3, <1>4, <1>5, <2>1, <2>2, <2>3, <2>4, <3>1 DEF ButtonOK
      <3>2. CASE ~b
        BY <1>3, <1>4, <1>5, <2>1, <2>2, <2>3, <2>4, <3>2 DEF ButtonOK
      <3>3. QED BY <3>1, <3>2
    <2>6. AnswerOK(id)'
      BY <1>4 DEF AnswerOK
    <2>7. ClosedOK(id)'
      BY <1>1, <1>2, <1>4, <1>5 DEF RowInv, ClosedOK
    <2>8. Told(id)'
      BY <1>1, <1>2, <1>3, <1>5, <2>2
         DEF RowInv, Told, UpToDate, PushComing, ListComing, AtMost, Rank
    <2>9. QED BY <2>5, <2>6, <2>7, <2>8 DEF RowInv
  <1>9. QED BY <1>6, <1>7, <1>8 DEF FeedInv

(* The list is read, or its call fails. *)
LEMMA ListStepFeed ==
  ASSUME FeedInv, ListHandled
  PROVE  FeedInv'
  <1>1. FeedTypes /\ seed.status = "sent" /\ UNCHANGED <<service, pushed, feed, acks, crashes>>
    BY DEF FeedInv, ListHandled
  <1>2. \/ seed' = list("answered", service) /\ missed' = missed
        \/ seed' = list("none", NoAlerts) /\ missed' = Alerts
    BY DEF ListHandled
  <1>3. \/ seed'.status = "answered" /\ seed'.alerts = service /\ missed' = missed
        \/ seed'.status = "none" /\ missed' = Alerts
    BY <1>2 DEF list
  <1>4. FeedTypes'
    BY <1>1, <1>3 DEF FeedTypes
  <1>5. ASSUME NEW id \in Alerts PROVE RowInv(id)'
    <2>1. RowInv(id)
      BY DEF FeedInv
    <2>2. ButtonOK(id)' /\ AnswerOK(id)' /\ ClosedOK(id)'
      BY <1>1, <1>3, <2>1 DEF RowInv, ButtonOK, AnswerOK, ClosedOK, isActionable
    <2>3. Told(id)'
      BY <1>1, <1>3, <2>1 DEF RowInv, Told, UpToDate, PushComing, ListComing, AtMost, Rank
    <2>4. QED BY <2>2, <2>3 DEF RowInv
  <1>6. QED BY <1>4, <1>5 DEF FeedInv

(* The list fills the rows that nothing was pushed for. *)
LEMMA SeedStep ==
  ASSUME FeedInv, Seeded
  PROVE  FeedInv'
  <1>1. FeedTypes /\ seed.status = "answered" /\ feed' = mergeSeed(seed.alerts)
        /\ UNCHANGED <<service, pushed, missed, acks, crashes>> /\ seed'.status = "none"
    BY DEF FeedInv, Seeded, list
  <1>2. seed.alerts \in [Alerts -> Alert \cup {NoAlert}]
    BY <1>1 DEF FeedTypes
  <1>3. ASSUME NEW id \in Alerts
        PROVE  feed'[id] = IF feed[id] # NoItem THEN feed[id]
                           ELSE [alert |-> seed.alerts[id], acknowledging |-> FALSE]
    BY <1>1 DEF mergeSeed, seedAlerts
  <1>4. feed' \in [Alerts -> ItemType]
    <2>1. ASSUME NEW id \in Alerts PROVE feed'[id] \in ItemType
      <3>1. feed[id] \in ItemType /\ seed.alerts[id] \in Alert \cup {NoAlert}
        BY <1>1, <1>2 DEF FeedTypes
      <3>2. [alert |-> seed.alerts[id], acknowledging |-> FALSE] \in ItemType
        BY <3>1 DEF ItemType
      <3>3. QED BY <1>3, <3>1, <3>2
    <2>2. QED BY <1>1, <2>1 DEF mergeSeed
  <1>5. FeedTypes'
    BY <1>1, <1>4 DEF FeedTypes
  <1>6. ASSUME NEW id \in Alerts PROVE RowInv(id)'
    <2> DEFINE a == seed.alerts[id]
    <2>1. RowInv(id) /\ a \in Alert \cup {NoAlert}
      BY <1>2 DEF FeedInv
    <2>2. CASE feed[id] # NoItem
      <3>1. feed'[id] = feed[id]
        BY <1>3, <2>2
      <3>2. ButtonOK(id)' /\ AnswerOK(id)' /\ ClosedOK(id)'
        BY <1>1, <2>1, <3>1 DEF RowInv, ButtonOK, AnswerOK, ClosedOK, isActionable
      <3>3. Told(id)'
        BY <1>1, <2>1, <2>2, <3>1
           DEF RowInv, Told, UpToDate, PushComing, ListComing, AtMost, Rank
      <3>4. QED BY <3>2, <3>3 DEF RowInv
    <2>3. CASE feed[id] = NoItem
      <3>1. feed'[id] = [alert |-> a, acknowledging |-> FALSE] /\ acks[id] = NoAlert
        BY <1>3, <2>1, <2>3 DEF RowInv, ButtonOK
      <3>2. feed'[id].alert = a /\ feed'[id].acknowledging = FALSE
        BY <3>1
      <3>3. a = NoAlert => feed'[id] = NoItem
        BY <3>1 DEF NoItem
      <3>4. ButtonOK(id)' /\ AnswerOK(id)'
        BY <1>1, <2>1, <3>1, <3>2, <3>3 DEF ButtonOK, AnswerOK
      <3>5. ClosedOK(id)'
        BY <1>1, <2>1, <3>2 DEF RowInv, ClosedOK
      <3>6. Told(id)'
        <4> SUFFICES ASSUME id \notin missed, service[id] # NoAlert
                     PROVE  UpToDate(id)' \/ PushComing(id)'
          BY <1>1 DEF Told
        <4>1. PushComing(id) \/ ListComing(id)
          BY <2>1, <2>3 DEF RowInv, Told, UpToDate
        <4>2. PushComing(id) => PushComing(id)'
          BY <1>1 DEF PushComing
        <4>3. CASE ListComing(id)
          <5>1. a = service[id] /\ a \in Alert
            BY <1>1, <2>1, <4>3 DEF ListComing
          <5>2. feed'[id] # NoItem
            BY <3>2, <5>1, AlertFields DEF NoItem
          <5>3. AtMost(service[id], a)
            BY <5>1, AtMostOrder
          <5>4. QED BY <1>1, <3>2, <5>2, <5>3 DEF UpToDate, AtMost, Rank
        <4>4. QED BY <4>1, <4>2, <4>3
      <3>7. QED BY <3>4, <3>5, <3>6 DEF RowInv
    <2>4. QED BY <2>2, <2>3
  <1>7. QED BY <1>5, <1>6 DEF FeedInv

(* The steps of the page and of its socket. *)
LEMMA PageStep ==
  ASSUME FeedInv,
         \/ SocketReconnects \/ Pushed \/ ListHandled \/ Seeded
         \/ \E id \in Alerts : AcknowledgeClick(id) \/ AcknowledgeAnswer(id) \/ RowCrashes(id)
  PROVE  FeedInv'
  <1>1. FeedTypes
    BY DEF FeedInv
  <1>2. CASE SocketReconnects
    <2>1. /\ pushed' = {} /\ missed' = missed \cup {e.id : e \in pushed}
          /\ UNCHANGED <<service, feed, seed, acks, crashes>>
      BY <1>2 DEF SocketReconnects
    <2>2. FeedTypes'
      BY <1>1, <2>1 DEF FeedTypes, PushedType
    <2>3. ASSUME NEW id \in Alerts PROVE RowInv(id)'
      <3>1. RowInv(id)
        BY DEF FeedInv
      <3>2. ButtonOK(id)' /\ AnswerOK(id)' /\ ClosedOK(id)'
        BY <2>1, <3>1 DEF RowInv, ButtonOK, AnswerOK, ClosedOK, isActionable
      <3>3. Told(id)'
        BY <2>1, <3>1 DEF RowInv, Told, UpToDate, PushComing, ListComing, AtMost, Rank
      <3>4. QED BY <3>2, <3>3 DEF RowInv
    <2>4. QED BY <2>2, <2>3 DEF FeedInv
  <1>3. CASE Pushed
    <2>1. PICK e \in pushed :
            /\ pushed' = pushed \ {e}
            /\ feed' = IF e.event = "alert:new" THEN applyNewAlert(feed, e.id, e.alert)
                                                ELSE applyAck(feed, e.id, e.alert)
      BY <1>3 DEF Pushed
    <2>2. /\ UNCHANGED <<service, missed, seed, acks, crashes>>
          /\ e.event \in {"alert:new", "alert:ack"} /\ e.id \in Alerts /\ e.alert \in Alert
          /\ e.event = "alert:ack" => e.alert.status = "ACKNOWLEDGED"
      BY <1>1, <1>3 DEF Pushed, FeedTypes, PushedType
    <2>3. CASE e.event = "alert:new"
      BY <2>1, <2>2, <2>3, NewShown
    <2>4. CASE e.event = "alert:ack"
      <3>1. service[e.id].status # "CLOSED"
        BY <2>2 DEF FeedInv, RowInv, ClosedOK
      <3>2. pushed' # pushed /\ feed' = applyAck(feed, e.id, e.alert)
        BY <2>1, <2>4
      <3>3. QED BY <2>1, <2>2, <2>4, <3>1, <3>2, AckShown
    <2>5. QED BY <2>2, <2>3, <2>4
  <1>4. CASE ListHandled
    BY <1>4, ListStepFeed
  <1>5. CASE Seeded
    BY <1>5, SeedStep
  <1>6. ASSUME NEW id \in Alerts, AcknowledgeClick(id)
        PROVE  FeedInv'
    BY <1>6, ButtonStep
  <1>7. ASSUME NEW id \in Alerts, AcknowledgeAnswer(id)
        PROVE  FeedInv'
    <2>1. CASE acks[id] = Failed
      BY <1>7, <2>1, ButtonStep
    <2>2. CASE acks[id] # Failed
      <3>1. RowInv(id) /\ acks[id] \notin {NoAlert, Sent, Failed}
        BY <1>7, <2>2 DEF FeedInv, AcknowledgeAnswer
      <3>2. acks[id] \in Alert /\ acks[id].status = "ACKNOWLEDGED"
        BY <3>1 DEF RowInv, AnswerOK
      <3>3. service[id].status # "CLOSED" /\ feed[id] # NoItem
        BY <3>1 DEF RowInv, ClosedOK, ButtonOK
      <3>4. /\ acks' = [acks EXCEPT ![id] = NoAlert] /\ feed' = applyAck(feed, id, acks[id])
            /\ UNCHANGED <<service, pushed, missed, seed, crashes>>
        BY <1>7, <2>2 DEF AcknowledgeAnswer
      <3>5. QED BY <3>2, <3>3, <3>4, AckShown
    <2>3. QED BY <2>1, <2>2
  <1>8. ASSUME NEW id \in Alerts, RowCrashes(id)
        PROVE  FeedInv'
    <2>1. /\ UNCHANGED <<service, pushed, missed, feed, seed, acks>>
          /\ crashes' = [crashes EXCEPT ![id] = @ + 1] /\ crashes[id] < 2
      BY <1>8 DEF RowCrashes, nextDisplayAction, DEFAULT_MAX_DISPLAY_RETRIES
    <2>2. crashes' \in [Alerts -> 0..DEFAULT_MAX_DISPLAY_RETRIES]
      BY <1>1, <2>1 DEF FeedTypes, DEFAULT_MAX_DISPLAY_RETRIES
    <2>3. FeedTypes'
      BY <1>1, <2>1, <2>2 DEF FeedTypes
    <2>4. QED BY <2>1, <2>3, RowUntouched DEF FeedInv
  <1>9. QED BY <1>2, <1>3, <1>4, <1>5, <1>6, <1>7, <1>8

(* What the other pages do. *)
LEMMA FeedElsewhere ==
  ASSUME FeedInv, UNCHANGED feedVars
  PROVE  FeedInv'
  <1>1. UNCHANGED <<service, pushed, missed, feed, seed, acks, crashes>>
    BY DEF feedVars
  <1>2. FeedTypes'
    BY <1>1 DEF FeedInv, FeedTypes
  <1>3. QED BY <1>1, <1>2, RowUntouched DEF FeedInv

(* Every step of the dashboard, of this page or another, keeps FeedInv. *)
LEMMA NextFeed == FeedInv /\ [Next]_vars => FeedInv'
  <1> SUFFICES ASSUME FeedInv, [Next]_vars PROVE FeedInv'
    OBVIOUS
  <1>1. CASE \E p \in allPages : LoadPage(p)
    BY <1>1, LoadFeed DEF LoadPage
  <1>2. CASE FeedNext
    BY <1>2, ServiceStep, CallHandled, PageStep DEF FeedNext
  <1>3. CASE \/ PlannerNext /\ UNCHANGED <<page, feedVars, liveVars, replayVars>>
             \/ LiveNext /\ UNCHANGED <<page, plannerVars, feedVars, replayVars>>
             \/ ReplayNext /\ UNCHANGED <<page, plannerVars, feedVars, liveVars>>
             \/ UNCHANGED vars
    <2>1. UNCHANGED feedVars
      BY <1>3 DEF vars
    <2>2. QED BY <2>1, FeedElsewhere
  <1>4. QED BY <1>1, <1>2, <1>3 DEF Next

(* FeedInv holds in every state. *)
LEMMA FeedInductive == Spec => []FeedInv
  BY InitFeed, NextFeed, PTL DEF Spec

(* A row that shows "Acknowledging" has a call in flight and its button      *)
(* sends no second one; and a page that has caught up shows each alert, not  *)
(* behind the row the service stored last (of two acknowledged states        *)
(* neither counts as behind): whatever the service's calls save over each    *)
(* other, and in whatever order the list, the pushes and the answers arrive. *)
THEOREM FeedStaysHonest == Spec => []FeedIsHonest
  <1>1. FeedInv => FeedIsHonest
    <2> SUFFICES ASSUME FeedInv PROVE FeedIsHonest
      OBVIOUS
    <2>1. FeedTypeOK
      BY DEF FeedInv, FeedTypes, FeedTypeOK, ItemType
    <2>2. ASSUME NEW id \in Alerts
          PROVE  /\ feed[id].acknowledging => acks[id] # NoAlert
                 /\ acks[id] # NoAlert => feed[id].acknowledging \/ ~isActionable(feed[id])
      BY DEF FeedInv, RowInv, ButtonOK
    <2>3. ASSUME NEW id \in Alerts, CaughtUp(id), service[id] # NoAlert
          PROVE  /\ feed[id] # NoItem
                 /\ \/ feed[id].alert.status = "ACKNOWLEDGED"
                       /\ service[id].status = "ACKNOWLEDGED"
                    \/ ~isNewerAlert(feed[id].alert, service[id])
      <3>1. UpToDate(id)
        BY <2>3 DEF FeedInv, RowInv, Told, PushComing, ListComing, CaughtUp
      <3>2. service[id] \in Alert /\ feed[id].alert \in Alert
        BY <2>3, <3>1 DEF FeedInv, FeedTypes, RowInv, ButtonOK, UpToDate
      <3>3. QED BY <3>1, <3>2, NewerIsStrict DEF UpToDate
    <2>4. QED BY <2>1, <2>2, <2>3 DEF FeedIsHonest
  <1>2. QED BY <1>1, FeedInductive, PTL

(* Every step of the page keeps or advances what a row shows. *)
Forward(id) ==
  feed[id] # NoItem /\ feed'[id] # NoItem => AtMost(feed[id].alert, feed'[id].alert)

(* A row that shows the same alert has not stepped back. *)
LEMMA SameAlertForward ==
  ASSUME FeedInv, NEW id \in Alerts, feed'[id].alert = feed[id].alert
  PROVE  Forward(id)
  <1> SUFFICES ASSUME feed[id] # NoItem
               PROVE  AtMost(feed[id].alert, feed[id].alert)
    BY DEF Forward
  <1>1. feed[id].alert \in Alert
    BY DEF FeedInv, RowInv, ButtonOK
  <1>2. QED BY <1>1, AtMostOrder

(* A push of "alert:new" replaces what is shown by a newer alert only. *)
LEMMA NewAlertForward ==
  ASSUME FeedInv, NEW id \in Alerts, NEW a \in Alert, feed' = applyNewAlert(feed, id, a)
  PROVE  \A j \in Alerts : Forward(j)
  <1> SUFFICES ASSUME NEW j \in Alerts, feed[j] # NoItem, feed'[j].alert # feed[j].alert
               PROVE  AtMost(feed[j].alert, feed'[j].alert)
    BY SameAlertForward DEF Forward
  <1>1. feed \in [Alerts -> ItemType]
    BY DEF FeedInv, FeedTypes
  <1>2. feed[j].alert \in Alert
    BY DEF FeedInv, RowInv, ButtonOK
  <1>3. feed' = [feed EXCEPT ![id].alert = a] /\ (feed[id] = NoItem \/ isNewerAlert(feed[id].alert, a))
    BY DEF applyNewAlert
  <1>4. j = id
    BY <1>1, <1>3
  <1>5. feed'[j].alert = a /\ isNewerAlert(feed[j].alert, a)
    BY <1>1, <1>3, <1>4 DEF ItemType
  <1>6. AtMost(feed[j].alert, a)
    BY <1>2, <1>5, NewerIsAbove
  <1>7. QED BY <1>5, <1>6

(* An acknowledgement replaces an alert that is still open, and keeps one    *)
(* that is acknowledged as it is.                                            *)
LEMMA AckForward ==
  ASSUME FeedInv, NEW id \in Alerts, NEW a \in Alert, a.status = "ACKNOWLEDGED",
         service[id].status # "CLOSED", feed' = applyAck(feed, id, a)
  PROVE  \A j \in Alerts : Forward(j)
  <1> SUFFICES ASSUME NEW j \in Alerts, feed[j] # NoItem, feed'[j].alert # feed[j].alert
               PROVE  AtMost(feed[j].alert, feed'[j].alert)
    BY SameAlertForward DEF Forward
  <1>1. RowInv(j) /\ feed[j].alert \in Alert
    BY DEF FeedInv, RowInv, ButtonOK
  <1>2. j = id
    BY AckRow
  <1>3. feed'[id].alert = a /\ feed[id].alert.status # "ACKNOWLEDGED"
    BY <1>2, AckRow
  <1>4. feed[id].alert.status # "CLOSED"
    BY <1>1, <1>2 DEF RowInv, ClosedOK
  <1>5. Rank(feed[id].alert) \in 0..1 /\ Rank(a) = 2
    BY <1>1, <1>2, <1>3, <1>4, AlertFields
  <1>6. QED BY <1>2, <1>3, <1>5 DEF AtMost

(* No step shows an older alert in a row. *)
LEMMA FeedForward ==
  FeedInv /\ FeedInv' /\ [Next]_vars =>
    [\A id \in Alerts : (page = alertsPage /\ feed[id] # NoItem /\ feed'[id] # NoItem) =>
         ~ isNewerAlert(feed'[id].alert, feed[id].alert)]_<<page, feed>>
  <1> SUFFICES ASSUME FeedInv, FeedInv', [Next]_vars, <<page, feed>>' # <<page, feed>>,
                      NEW id \in Alerts, feed[id] # NoItem, feed'[id] # NoItem
               PROVE  ~ isNewerAlert(feed'[id].alert, feed[id].alert)
    OBVIOUS
  <1>1. feed[id].alert \in Alert /\ feed'[id].alert \in Alert
    BY DEF FeedInv, RowInv, ButtonOK
  <1>2. SUFFICES Forward(id)
    BY <1>1, NewerIsStrict DEF Forward
  <1>3. CASE feed' = feed
    BY <1>3, SameAlertForward
  <1>4. CASE \E p \in allPages : LoadPage(p)
    <2>1. feed'[id] = NoItem
      BY <1>4 DEF LoadPage, FeedLoad
    <2>2. QED BY <2>1
  <1>5. CASE FeedNext /\ feed' # feed
    <2>1. PICK j \in Alerts : \/ AcknowledgeClick(j) \/ AcknowledgeAnswer(j)
                             \/ Pushed \/ Seeded
      BY <1>5 DEF FeedNext, Raise, Escalate, AcknowledgedElsewhere, AcknowledgeHandled,
         RowCrashes, SocketReconnects, ListHandled
    <2>2. feed \in [Alerts -> ItemType] /\ pushed \subseteq PushedType
      BY DEF FeedInv, FeedTypes
    <2>3. CASE AcknowledgeClick(j)
      <3>1. feed' = [feed EXCEPT ![j].acknowledging = TRUE]
        BY <2>3 DEF AcknowledgeClick, beginAcknowledge
      <3>2. feed'[id].alert = feed[id].alert
        BY <2>2, <3>1
      <3>3. QED BY <3>2, SameAlertForward
    <2>4. CASE AcknowledgeAnswer(j)
      <3>1. CASE acks[j] = Failed
        <4>1. feed' = [feed EXCEPT ![j].acknowledging = FALSE]
          BY <2>4, <3>1 DEF AcknowledgeAnswer, failAcknowledge
        <4>2. feed'[id].alert = feed[id].alert
          BY <2>2, <4>1
        <4>3. QED BY <4>2, SameAlertForward
      <3>2. CASE acks[j] # Failed
        <4>1. RowInv(j) /\ acks[j] \notin {NoAlert, Sent, Failed}
              /\ feed' = applyAck(feed, j, acks[j])
          BY <2>4, <3>2 DEF AcknowledgeAnswer, FeedInv
        <4>2. /\ acks[j] \in Alert /\ acks[j].status = "ACKNOWLEDGED"
              /\ service[j].status # "CLOSED"
          BY <4>1 DEF RowInv, AnswerOK, ClosedOK
        <4>3. QED BY <4>1, <4>2, AckForward
      <3>3. QED BY <3>1, <3>2
    <2>5. CASE Pushed
      <3>1. PICK e \in pushed :
              feed' = IF e.event = "alert:new" THEN applyNewAlert(feed, e.id, e.alert)
                                               ELSE applyAck(feed, e.id, e.alert)
        BY <2>5 DEF Pushed
      <3>2. /\ e.id \in Alerts /\ e.alert \in Alert /\ e.event \in {"alert:new", "alert:ack"}
            /\ e.event = "alert:ack" => e.alert.status = "ACKNOWLEDGED"
        BY <2>2 DEF PushedType
      <3>3. CASE e.event = "alert:new"
        BY <3>1, <3>2, <3>3, NewAlertForward
      <3>4. CASE e.event = "alert:ack"
        <4>1. service[e.id].status # "CLOSED"
          BY <3>2 DEF FeedInv, RowInv, ClosedOK
        <4>2. QED BY <3>1, <3>2, <3>4, <4>1, AckForward
      <3>5. QED BY <3>2, <3>3, <3>4
    <2>6. CASE Seeded
      <3>1. feed'[id] = feed[id]
        BY <2>6 DEF Seeded, mergeSeed
      <3>2. QED BY <3>1, SameAlertForward
    <2>7. QED BY <2>1, <2>3, <2>4, <2>5, <2>6
  <1>6. CASE \/ PlannerNext /\ UNCHANGED <<page, feedVars, liveVars, replayVars>>
             \/ LiveNext /\ UNCHANGED <<page, plannerVars, feedVars, replayVars>>
             \/ ReplayNext /\ UNCHANGED <<page, plannerVars, feedVars, liveVars>>
             \/ UNCHANGED vars
    BY <1>6, SameAlertForward DEF feedVars, vars
  <1>7. QED BY <1>3, <1>4, <1>5, <1>6 DEF Next

(* Whatever the order in which pushes, the list and the answers arrive, an   *)
(* alert on screen never steps back: not from acknowledged to escalated, nor *)
(* to a lower level.                                                         *)
THEOREM FeedOnlyAdvances == Spec => FeedNeverRegresses
  <1>1. FeedInv /\ FeedInv' /\ [Next]_vars =>
          [\A id \in Alerts : (page = alertsPage /\ feed[id] # NoItem /\ feed'[id] # NoItem) =>
               ~ isNewerAlert(feed'[id].alert, feed[id].alert)]_<<page, feed>>
    BY FeedForward
  <1>2. QED BY <1>1, FeedInductive, PTL DEF Spec, FeedNeverRegresses

-----------------------------------------------------------------------------
(* The detection replay: arithmetic. *)

(* A nonempty set of integers with a lower bound has a least member.        *)
LEMMA LeastMember ==
  ASSUME NEW S, S \subseteq Int, S # {}, NEW low \in Int, \A x \in S : low <= x
  PROVE  Min(S) \in S /\ \A x \in S : Min(S) <= x
  <1> DEFINE T == {n \in Nat : low + n \in S}
  <1>1. T \subseteq Nat /\ T # {}
    <2>1. PICK x \in S : TRUE
      OBVIOUS
    <2>2. x - low \in Nat /\ low + (x - low) = x
      BY <2>1
    <2>3. QED BY <2>1, <2>2
  <1>2. PICK n \in T : \A m \in T : ~(<<m, n>> \in OpToRel(<, Nat))
    BY <1>1, WFMin, NatLessThanWellFounded, Zenon
  <1>3. \A m \in T : n <= m
    <2>1. \A m \in T : m \in Nat /\ n \in Nat
      BY <1>1
    <2> HIDE DEF T
    <2>2. \A m \in T : <<m, n>> \in Nat \X Nat /\ <<m, n>>[1] = m /\ <<m, n>>[2] = n
      BY <2>1
    <2>3. \A m \in T : ~(m < n)
      BY <1>2, <2>2, Zenon DEF OpToRel
    <2>4. QED BY <2>1, <2>3
  <1>4. low + n \in S /\ \A x \in S : low + n <= x
    <2>1. ASSUME NEW x \in S PROVE low + n <= x
      <3>1. x - low \in Nat /\ low + (x - low) = x
        OBVIOUS
      <3>2. x - low \in T
        BY <3>1
      <3>3. n <= x - low
        BY <1>3, <3>2
      <3>4. QED BY <1>1, <3>3
    <2>2. QED BY <2>1
  <1>5. QED BY <1>4 DEF Min

(* ... and with an upper bound, a greatest.                                 *)
LEMMA GreatestMember ==
  ASSUME NEW S, S \subseteq Int, S # {}, NEW high \in Int, \A x \in S : x <= high
  PROVE  Max(S) \in S /\ \A x \in S : x <= Max(S)
  <1> DEFINE T == {n \in Nat : high - n \in S}
  <1>1. T \subseteq Nat /\ T # {}
    <2>1. PICK x \in S : TRUE
      OBVIOUS
    <2>2. high - x \in Nat /\ high - (high - x) = x
      BY <2>1
    <2>3. QED BY <2>1, <2>2
  <1>2. PICK n \in T : \A m \in T : ~(<<m, n>> \in OpToRel(<, Nat))
    BY <1>1, WFMin, NatLessThanWellFounded, Zenon
  <1>3. \A m \in T : n <= m
    <2>1. \A m \in T : m \in Nat /\ n \in Nat
      BY <1>1
    <2> HIDE DEF T
    <2>2. \A m \in T : <<m, n>> \in Nat \X Nat /\ <<m, n>>[1] = m /\ <<m, n>>[2] = n
      BY <2>1
    <2>3. \A m \in T : ~(m < n)
      BY <1>2, <2>2, Zenon DEF OpToRel
    <2>4. QED BY <2>1, <2>3
  <1>4. high - n \in S /\ \A x \in S : x <= high - n
    <2>1. ASSUME NEW x \in S PROVE x <= high - n
      <3>1. high - x \in Nat /\ high - (high - x) = x
        OBVIOUS
      <3>2. high - x \in T
        BY <3>1
      <3>3. n <= high - x
        BY <1>3, <3>2
      <3>4. QED BY <1>1, <3>3
    <2>2. QED BY <2>1
  <1>5. QED BY <1>4 DEF Max

(* A quotient is the number of whole steps, however the remainder falls.    *)
LEMMA WholeSteps ==
  ASSUME NEW n \in Nat, NEW width \in Nat \ {0}
  PROVE  (n * width) \div width = n
  <1> DEFINE p == (n * width) \div width
  <1>1. n * width \in Nat
    OBVIOUS
  <1>2. p \in Nat /\ width * p <= n * width /\ n * width < width * p + width
    BY <1>1
  <1> HIDE DEF p
  <1>3. ~(p + 1 <= n)
    <2>1. SUFFICES ASSUME p + 1 <= n PROVE FALSE
      OBVIOUS
    <2>2. width * (p + 1) <= width * n /\ width * (p + 1) = width * p + width
      BY <1>2, <2>1
    <2>3. QED BY <1>1, <1>2, <2>2
  <1>4. ~(p >= n + 1)
    <2>1. SUFFICES ASSUME p >= n + 1 PROVE FALSE
      OBVIOUS
    <2>2. width * p >= width * (n + 1) /\ width * (n + 1) = width * n + width
      BY <1>2, <2>1
    <2>3. QED BY <1>1, <1>2, <2>2
  <1>5. QED BY <1>2, <1>3, <1>4 DEF p

(* Of the handle's positions one is no further from an instant of the       *)
(* timeline than half a step.                                               *)
LEMMA NearestPosition ==
  ASSUME NEW width \in Nat, NEW x \in 0..width * Steps, NEW reach \in Nat,
         width <= 2 * reach
  PROVE  \E n \in 0..Steps : x - n * width \in -reach..reach
  <1>1. Steps \in Nat \ {0} /\ width * Steps \in Nat /\ x \in Nat /\ x <= width * Steps
    BY ReplayAssumption
  <1>2. CASE width = 0
    <2>1. 0 \in 0..Steps /\ 0 * width = 0 /\ x = 0
      BY <1>1, <1>2
    <2>2. QED BY <2>1
  <1>3. CASE width # 0
    <2> DEFINE k == x \div width
               p == k * width
    <2>1. k \in Nat /\ width * k <= x /\ x < width * k + width
      BY <1>1, <1>3
    <2>2. p \in Nat /\ p <= x /\ x < p + width /\ (k + 1) * width = p + width
      BY <2>1
    <2>3. k <= Steps
      <3>1. SUFFICES ASSUME k >= Steps + 1 PROVE FALSE
        BY <1>1, <2>1
      <3>2. width * k >= width * (Steps + 1) /\ width * (Steps + 1) = width * Steps + width
        BY <1>1, <2>1, <3>1
      <3>3. QED BY <1>1, <1>3, <2>1, <3>2
    <2>4. k = Steps => x = p
      <3>1. k = Steps => p = width * Steps
        BY <1>1
      <3>2. QED BY <1>1, <2>2, <3>1
    <2> HIDE DEF k, p
    <2>5. CASE 2 * (x - p) <= width
      <3>1. x - p \in -reach..reach
        BY <1>1, <2>2, <2>5
      <3>2. x - k * width \in -reach..reach
        BY <3>1 DEF p
      <3>3. QED BY <1>1, <2>1, <2>3, <3>2
    <2>6. CASE 2 * (x - p) > width
      <3>1. k + 1 \in 0..Steps
        BY <1>1, <2>1, <2>2, <2>3, <2>4, <2>6
      <3>2. x - (p + width) \in -reach..reach
        BY <1>1, <2>2, <2>6
      <3>3. x - (k + 1) * width \in -reach..reach
        BY <2>2, <3>2
      <3>4. QED BY <3>1, <3>3
    <2>7. QED BY <1>1, <2>2, <2>5, <2>6
  <1>4. QED BY <1>2, <1>3

-----------------------------------------------------------------------------
(* The detection replay: what is loaded answers the query that was asked.   *)

Asks(q) == q.from \in Int /\ q.to \in Int /\ q.from <= q.to

Entered == Inputs \cup {Blank}

ReplayInv ==
  /\ form \in [from : Entered, to : Entered, drone : DroneIds \cup {Blank}]
  /\ query = NoQuery \/ Asks(query)
  /\ detections \subseteq Stored /\ scrub \in 0..Steps /\ failed \in BOOLEAN
  /\ detections # {} => asked # NoQuery /\ Asks(asked)
  /\ \A d \in detections : matches(d, asked)
  /\ failed => ~loading

(* A page just opened has nothing loaded. *)
LEMMA BlankReplay ==
  ASSUME form' = NoQuery, query' = NoQuery, detections' = {}, scrub' = 0, failed' = FALSE
  PROVE  ReplayInv'
  <1>1. 0 \in 0..Steps
    BY ReplayAssumption
  <1>2. form' \in [from : Entered, to : Entered, drone : DroneIds \cup {Blank}]
    BY DEF NoQuery, Entered
  <1>3. QED BY <1>1, <1>2 DEF ReplayInv, loading

(* The page at first. *)
LEMMA InitReplay == Init => ReplayInv
  <1> SUFFICES ASSUME ReplayInit PROVE ReplayInv
    BY DEF Init
  <1>1. 0 \in 0..Steps
    BY ReplayAssumption
  <1>2. form \in [from : Entered, to : Entered, drone : DroneIds \cup {Blank}]
    BY DEF ReplayInit, NoQuery, Entered
  <1>3. QED BY <1>1, <1>2 DEF ReplayInit, ReplayInv, loading

(* The query that a form with both ends entered makes is a range.           *)
LEMMA BuiltQuery ==
  ASSUME ReplayInv, Blank \notin {form.from, form.to}
  PROVE  Asks(buildReplayQuery(form))
  <1> DEFINE S == {form.from, form.to}
  <1>1. form.from \in Int /\ form.to \in Int
    BY ReplayAssumption DEF ReplayInv, Entered
  <1>2. PICK low \in Int : low <= form.from /\ low <= form.to
    <2>1. form.from <= form.to \/ form.to <= form.from
      BY <1>1
    <2>2. QED BY <1>1, <2>1
  <1>3. PICK high \in Int : form.from <= high /\ form.to <= high
    <2>1. form.from <= form.to \/ form.to <= form.from
      BY <1>1
    <2>2. QED BY <1>1, <2>1
  <1>4. Min(S) \in S /\ \A x \in S : Min(S) <= x
    BY <1>1, <1>2, LeastMember
  <1>5. Max(S) \in S /\ \A x \in S : x <= Max(S)
    BY <1>1, <1>3, GreatestMember
  <1>6. buildReplayQuery(form).from = Min(S) /\ buildReplayQuery(form).to = Max(S)
    BY DEF buildReplayQuery, ReplayInv
  <1>7. Min(S) <= Max(S) /\ Min(S) \in Int /\ Max(S) \in Int
    BY <1>1, <1>4, <1>5
  <1>8. QED BY <1>6, <1>7 DEF Asks

(* Every step of the page keeps it. *)
LEMMA ReplayStep == ReplayInv /\ ReplayNext => ReplayInv'
  <1> SUFFICES ASSUME ReplayInv, ReplayNext PROVE ReplayInv'
    OBVIOUS
  <1>1. ASSUME NEW from \in Entered, NEW to \in Entered, NEW drone \in DroneIds \cup {Blank},
               Enter([from |-> from, to |-> to, drone |-> drone])
        PROVE  ReplayInv'
    <2>1. form' \in [from : Entered, to : Entered, drone : DroneIds \cup {Blank}]
      BY <1>1 DEF Enter
    <2>2. UNCHANGED <<query, detections, asked, scrub, failed>>
      BY <1>1 DEF Enter
    <2>3. QED BY <2>1, <2>2 DEF ReplayInv, loading, matches, Asks
  <1>2. CASE LoadRange
    <2>1. UNCHANGED <<form, detections, asked, scrub>> /\ ~loading
      BY <1>2 DEF LoadRange
    <2>2. CASE Blank \in {form.from, form.to}
      <3>1. failed' = TRUE /\ query' = query
        BY <1>2, <2>2 DEF LoadRange
      <3>2. QED BY <2>1, <3>1 DEF ReplayInv, loading, matches, Asks
    <2>3. CASE Blank \notin {form.from, form.to}
      <3>1. failed' = FALSE /\ query' = buildReplayQuery(form)
        BY <1>2, <2>3 DEF LoadRange
      <3>2. Asks(query)'
        BY <2>3, <3>1, BuiltQuery DEF Asks
      <3>3. QED BY <2>1, <3>1, <3>2 DEF ReplayInv, matches, Asks
    <2>4. QED BY <2>2, <2>3
  <1>3. CASE RangeFails
    BY <1>3 DEF RangeFails, ReplayInv, loading
  <1>4. CASE RangeLoaded
    <2>1. /\ query # NoQuery /\ query' = NoQuery /\ asked' = query
          /\ detections' = {d \in Stored : matches(d, query)}
          /\ scrub' = 0 /\ UNCHANGED <<form, failed>>
      BY <1>4 DEF RangeLoaded, loading
    <2>2. 0 \in 0..Steps
      BY ReplayAssumption
    <2>3. Asks(query)
      BY <2>1 DEF ReplayInv
    <2>4. Asks(asked)'
      BY <2>1, <2>3 DEF Asks
    <2>5. \A d \in detections' : d \in Stored /\ matches(d, asked)'
      BY <2>1 DEF matches
    <2>6. QED BY <2>1, <2>2, <2>4, <2>5 DEF ReplayInv, loading
  <1>5. ASSUME NEW n \in 0..Steps, Scrub(n) PROVE ReplayInv'
    BY <1>5 DEF Scrub, ReplayInv, loading, matches, Asks
  <1>6. QED BY <1>1, <1>2, <1>3, <1>4, <1>5 DEF ReplayNext, Entered

(* Whatever page is opened and whatever the other pages do.                 *)
LEMMA NextReplay == ReplayInv /\ [Next]_vars => ReplayInv'
  <1> SUFFICES ASSUME ReplayInv, [Next]_vars PROVE ReplayInv'
    OBVIOUS
  <1>1. CASE \E p \in allPages : LoadPage(p)
    <2>1. ReplayLoad
      BY <1>1 DEF LoadPage
    <2>2. QED BY <2>1, BlankReplay DEF ReplayLoad
  <1>2. CASE ReplayNext
    BY <1>2, ReplayStep
  <1>3. CASE UNCHANGED replayVars
    BY <1>3 DEF replayVars, ReplayInv, loading, matches, Asks
  <1>4. UNCHANGED vars => UNCHANGED replayVars
    BY DEF vars
  <1>5. QED BY <1>1, <1>2, <1>3, <1>4 DEF Next

(* ReplayInv holds in every state. *)
LEMMA ReplayInductive == Spec => []ReplayInv
  BY InitReplay, NextReplay, PTL DEF Spec

(* The timeline's bounds are time stamps of what is loaded and enclose it.  *)
LEMMA TimelineBounds ==
  ASSUME ReplayInv, detections # {}
  PROVE  LET bounds == computeTimelineBounds(detections)
         IN  /\ bounds.from \in Int /\ bounds.to \in Int /\ bounds.from <= bounds.to
             /\ \A d \in detections :
                  d.frameTs \in Int /\ bounds.from <= d.frameTs /\ d.frameTs <= bounds.to
  <1> DEFINE S == {d.frameTs : d \in detections}
  <1>1. asked.from \in Int /\ asked.to \in Int
    BY DEF ReplayInv, Asks
  <1>2. \A d \in detections :
          d.frameTs \in Int /\ asked.from <= d.frameTs /\ d.frameTs <= asked.to
    BY <1>1, ReplayAssumption DEF ReplayInv, matches
  <1>3. S \subseteq Int /\ S # {} /\ \A x \in S : asked.from <= x /\ x <= asked.to
    BY <1>2
  <1> HIDE DEF S
  <1>4. Min(S) \in S /\ \A x \in S : Min(S) <= x
    BY <1>1, <1>3, LeastMember
  <1>5. Max(S) \in S /\ \A x \in S : x <= Max(S)
    BY <1>1, <1>3, GreatestMember
  <1>6. /\ computeTimelineBounds(detections).from = Min(S)
        /\ computeTimelineBounds(detections).to = Max(S)
    BY DEF computeTimelineBounds, S
  <1>7. \A d \in detections : d.frameTs \in S
    BY DEF S
  <1>8. Min(S) \in Int /\ Max(S) \in Int /\ Min(S) <= Max(S)
    BY <1>3, <1>4, <1>5
  <1>9. QED BY <1>2, <1>4, <1>5, <1>6, <1>7, <1>8

(* The handle stands on the timeline, and where it stands is the position   *)
(* its instant is drawn at.                                                 *)
LEMMA HandleOnTimeline ==
  ASSUME ReplayInv, detections # {}
  PROVE  LET bounds == computeTimelineBounds(detections)
         IN  /\ currentTime \in bounds.from * Steps..bounds.to * Steps
             /\ timeToScrubFraction(bounds, currentTime) \in {0, scrub}
  <1> DEFINE from == computeTimelineBounds(detections).from
             to   == computeTimelineBounds(detections).to
             width == to - from
  <1>1. from \in Int /\ to \in Int /\ from <= to
    BY TimelineBounds
  <1>2. scrub \in Nat /\ scrub <= Steps /\ Steps \in Nat \ {0}
    BY ReplayAssumption DEF ReplayInv
  <1>3. currentTime = from * Steps + scrub * (to - from)
    BY DEF currentTime, scrubFractionToTime
  <1>4. timeToScrubFraction(computeTimelineBounds(detections), currentTime) =
          IF to = from THEN 0 ELSE (currentTime - from * Steps) \div (to - from)
    BY DEF timeToScrubFraction
  <1> HIDE DEF from, to
  <1>5. width \in Nat /\ scrub * width \in Nat /\ from * Steps \in Int
    BY <1>1, <1>2
  <1>6. scrub * width <= Steps * width
    BY <1>2, <1>5
  <1>7. from * Steps + Steps * width = to * Steps
    BY <1>1, <1>2
  <1>8. currentTime \in from * Steps..to * Steps
    <2>1. Steps * width \in Int /\ to * Steps \in Int
      BY <1>1, <1>2
    <2> DEFINE a == from * Steps
               b == scrub * width
               c == Steps * width
               e == to * Steps
    <2>2. /\ a \in Int /\ b \in Nat /\ c \in Int /\ e \in Int
          /\ b <= c /\ a + c = e /\ currentTime = a + b
      BY <1>3, <1>5, <1>6, <1>7, <2>1
    <2> HIDE DEF a, b, c, e
    <2>3. currentTime \in a..e
      BY <2>2
    <2>4. QED BY <2>3 DEF a, e
  <1>9. to # from => (currentTime - from * Steps) \div (to - from) = scrub
    <2>1. SUFFICES ASSUME to # from
                   PROVE  (currentTime - from * Steps) \div width = scrub
      OBVIOUS
    <2>2. width \in Nat \ {0}
      BY <1>1, <2>1
    <2>3. currentTime - from * Steps = scrub * width
      BY <1>3, <1>5
    <2>4. QED BY <1>2, <2>2, <2>3, WholeSteps
  <1>10. timeToScrubFraction(computeTimelineBounds(detections), currentTime) \in {0, scrub}
    BY <1>4, <1>9
  <1>11. QED BY <1>8, <1>10 DEF from, to

(* No detection falls between two positions that are not too far apart.     *)
LEMMA EveryDetectionReached ==
  ASSUME ReplayInv, NEW d \in detections,
         computeTimelineBounds(detections).to - computeTimelineBounds(detections).from
           <= 2 * Half * Steps
  PROVE  \E n \in 0..Steps :
           d \in selectDetectionsAt(detections,
                   scrubFractionToTime(computeTimelineBounds(detections), n))
  <1> DEFINE bounds == computeTimelineBounds(detections)
             from  == bounds.from
             width == bounds.to - bounds.from
             x     == (d.frameTs - from) * Steps
             reach == Half * Steps
  <1>1. /\ from \in Int /\ bounds.to \in Int /\ from <= bounds.to
        /\ d.frameTs \in Int /\ from <= d.frameTs /\ d.frameTs <= bounds.to
    BY TimelineBounds
  <1>2. Steps \in Nat \ {0} /\ Half \in Nat
    BY ReplayAssumption
  <1>3. width \in Nat /\ d.frameTs - from \in 0..width
    BY <1>1
  <1>4. reach \in Nat /\ width <= 2 * reach
    <2>1. reach \in Nat /\ 2 * Half * Steps = 2 * reach
      BY <1>2
    <2>2. QED BY <1>3, <2>1
  <1>5. x \in 0..width * Steps
    <2>1. PICK g \in 0..width : g = d.frameTs - from
      BY <1>3
    <2>2. g * Steps \in Nat /\ width * Steps \in Nat /\ g * Steps <= width * Steps
      BY <1>2, <1>3, <2>1
    <2>3. QED BY <2>1, <2>2
  <1>6. PICK n \in 0..Steps : x - n * width \in -reach..reach
    <2> HIDE DEF x, reach, width
    <2>1. QED BY <1>3, <1>4, <1>5, NearestPosition
  <1>7. d.frameTs * Steps - (from * Steps + n * width) = x - n * width
    <2>1. PICK f \in Int, g \in Int, w \in Int : f = d.frameTs /\ g = from /\ w = width
      BY <1>1, <1>3
    <2>2. f * Steps - (g * Steps + n * w) = (f - g) * Steps - n * w
      BY <1>2, <2>1
    <2>3. QED BY <2>1, <2>2
  <1>8. -Half * Steps = -reach
    BY <1>2
  <1>9. d.frameTs * Steps - scrubFractionToTime(bounds, n) \in -Half * Steps..Half * Steps
    BY <1>6, <1>7, <1>8 DEF scrubFractionToTime
  <1>10. QED BY <1>9 DEF selectDetectionsAt

(* The sign of a factor is the sign of the product. *)
LEMMA NegatedFactor ==
  ASSUME NEW x \in Int, NEW y \in Int
  PROVE  x * y \in Int /\ (-x) * y = -(x * y)
  OBVIOUS

(* Opposite corners of a turned box lie opposite its centre.                *)
LEMMA CornersOpposite ==
  ASSUME NEW d \in Stored, NEW i \in {1, 2}
  PROVE  LET o == obbToMapOverlay(d)
         IN  /\ o.corners[i].lat + o.corners[i + 2].lat = 2 * o.center.lat
             /\ o.corners[i].lon + o.corners[i + 2].lon = 2 * o.center.lon
  <1> DEFINE b == d.obb
             corner == obbCornersInFrame(b)
             turn == quarter(b.angle)
  <1>1. b.cx \in Int /\ b.cy \in Int /\ b.w \in Int /\ b.h \in Int /\ b.angle \in 0..3
    BY ReplayAssumption
  <1>2. turn[1] \in {-1, 0, 1} /\ turn[2] \in {-1, 0, 1}
    <2>1. b.angle = 0 \/ b.angle = 1 \/ b.angle = 2 \/ b.angle = 3
      BY <1>1
    <2>2. QED BY <2>1 DEF quarter
  <1> HIDE DEF b, turn
  <1>3. /\ corner[1] = <<2 * b.cx + (-b.w) * turn[1] - (-b.h) * turn[2],
                         2 * b.cy + (-b.w) * turn[2] + (-b.h) * turn[1]>>
        /\ corner[2] = <<2 * b.cx + b.w * turn[1] - (-b.h) * turn[2],
                         2 * b.cy + b.w * turn[2] + (-b.h) * turn[1]>>
        /\ corner[3] = <<2 * b.cx + b.w * turn[1] - b.h * turn[2],
                         2 * b.cy + b.w * turn[2] + b.h * turn[1]>>
        /\ corner[4] = <<2 * b.cx + (-b.w) * turn[1] - b.h * turn[2],
                         2 * b.cy + (-b.w) * turn[2] + b.h * turn[1]>>
    BY DEF obbCornersInFrame, turn
  <1> HIDE DEF corner
  <1>4. corner[i][1] + corner[i + 2][1] = 4 * b.cx /\ corner[i][2] + corner[i + 2][2] = 4 * b.cy
        /\ corner[i][1] \in Int /\ corner[i + 2][1] \in Int
        /\ corner[i][2] \in Int /\ corner[i + 2][2] \in Int
    <2>1. PICK s \in Int, t \in Int : s = turn[1] /\ t = turn[2]
      BY <1>2
    <2>2. PICK p \in Int : p = b.w * s /\ (-b.w) * s = -p
      BY <1>1, NegatedFactor
    <2>3. PICK q \in Int : q = b.h * t /\ (-b.h) * t = -q
      BY <1>1, NegatedFactor
    <2>4. PICK r \in Int : r = b.w * t /\ (-b.w) * t = -r
      BY <1>1, NegatedFactor
    <2>5. PICK u \in Int : u = b.h * s /\ (-b.h) * s = -u
      BY <1>1, NegatedFactor
    <2>6. PICK x \in Int, y \in Int : x = 2 * b.cx /\ y = 2 * b.cy
      BY <1>1
    <2>7. /\ corner[1] = <<x + (-p) - (-q), y + (-r) + (-u)>>
          /\ corner[2] = <<x + p - (-q), y + r + (-u)>>
          /\ corner[3] = <<x + p - q, y + r + u>>
          /\ corner[4] = <<x + (-p) - q, y + (-r) + u>>
      BY <1>3, <2>1, <2>2, <2>3, <2>4, <2>5, <2>6, Zenon
    <2>8. x + x = 4 * b.cx /\ y + y = 4 * b.cy
      BY <1>1, <2>6
    <2>9. CASE i = 1
      BY <2>7, <2>8, <2>9
    <2>10. CASE i = 2
      BY <2>7, <2>8, <2>10
    <2>11. QED BY <2>9, <2>10
  <1>5. /\ obbToMapOverlay(d).center = [lat |-> -(2 * b.cy), lon |-> 2 * b.cx]
        /\ \A j \in 1..4 :
             obbToMapOverlay(d).corners[j] = [lat |-> -corner[j][2], lon |-> corner[j][1]]
    BY DEF obbToMapOverlay, projectFramePoint, corner, b
  <1>6. i \in 1..4 /\ i + 2 \in 1..4
    OBVIOUS
  <1>7. QED BY <1>1, <1>4, <1>5, <1>6

(* For detections, ranges, steps and windows of any size, the map shows     *)
(* only what the last query asked for, and a range short enough has no gaps *)
(* between the positions of the handle.                                     *)
THEOREM ReplayStaysInRange == Spec => []ReplayShowsRange
  <1>1. ReplayInv => ReplayShowsRange
    <2> SUFFICES ASSUME ReplayInv PROVE ReplayShowsRange
      OBVIOUS
    <2>1. ReplayTypeOK
      BY DEF ReplayInv, ReplayTypeOK, Asks
    <2>2. /\ \A d \in detections : asked # NoQuery /\ matches(d, asked)
          /\ failed => ~loading
      BY DEF ReplayInv
    <2>3. \A o \in overlays : \A i \in {1, 2} :
            /\ o.corners[i].lat + o.corners[i + 2].lat = 2 * o.center.lat
            /\ o.corners[i].lon + o.corners[i + 2].lon = 2 * o.center.lon
      <3> SUFFICES ASSUME NEW o \in overlays
                   PROVE  \A i \in {1, 2} :
                            /\ o.corners[i].lat + o.corners[i + 2].lat = 2 * o.center.lat
                            /\ o.corners[i].lon + o.corners[i + 2].lon = 2 * o.center.lon
        OBVIOUS
      <3>1. PICK d \in Stored : o = obbToMapOverlay(d)
        BY DEF overlays, selectDetectionsAt, ReplayInv
      <3>2. QED BY <3>1, CornersOpposite
    <2>4. QED BY <2>1, <2>2, <2>3, HandleOnTimeline, EveryDetectionReached DEF ReplayShowsRange
  <1>2. QED BY <1>1, ReplayInductive, PTL

-----------------------------------------------------------------------------
(* The fleet map: a marker shows the last status and the newest sample.     *)

Shown == DroneStatus \cup {"none"}

Stamps == 0..MaxTs

(* The time stamps a marker may stand at: that of a sample or none. *)
LEMMA StampsType == 0 \in Stamps /\ Times \subseteq Stamps /\ Stamps \subseteq Nat
  <1>1. MaxTs \in Nat \ {0}
    BY LiveViewsAssumption
  <1>2. 0 \in Stamps
    BY <1>1 DEF Stamps
  <1>3. Times \subseteq Stamps
    BY <1>1 DEF Stamps, Times
  <1>4. Stamps \subseteq Nat
    BY <1>1 DEF Stamps
  <1>5. QED BY <1>2, <1>3, <1>4

MapInv ==
  /\ markers \in [Drones -> [known : BOOLEAN, status : Shown, ts : Stamps]]
  /\ heard \in [Drones -> [status : Shown, ts : Stamps]]
  /\ mapList \subseteq someDrones
  /\ MapShowsLatest

(* The later of two time stamps. *)
LEMMA LaterOfTwo ==
  ASSUME NEW a \in Nat, NEW b \in Nat
  PROVE  Max({a, b}) = IF b > a THEN b ELSE a
  <1> DEFINE top == IF b > a THEN b ELSE a
  <1>1. top \in {a, b} /\ \A x \in {a, b} : top >= x
    OBVIOUS
  <1>2. \A y \in {a, b} : (\A x \in {a, b} : y >= x) => y = top
    OBVIOUS
  <1>3. Max({a, b}) \in {a, b} /\ \A x \in {a, b} : Max({a, b}) >= x
    <2> HIDE DEF top
    <2>1. QED BY <1>1 DEF Max
  <1>4. QED BY <1>2, <1>3

(* A map just opened knows no drone and heard of none. *)
LEMMA BlankMap ==
  ASSUME markers' = [d \in Drones |-> NoMarker], heard' = [d \in Drones |-> Silence],
         mapList' \subseteq someDrones
  PROVE  MapInv'
  <1>1. /\ NoMarker \in [known : BOOLEAN, status : Shown, ts : Stamps]
        /\ Silence \in [status : Shown, ts : Stamps]
    BY StampsType DEF NoMarker, Silence, Shown
  <1>2. \A d \in Drones : /\ heard'[d].status = "none"
                          /\ markers'[d].ts = 0 /\ heard'[d].ts = 0
    BY DEF NoMarker, Silence
  <1>3. MapShowsLatest'
    BY <1>2 DEF MapShowsLatest
  <1>4. QED BY <1>1, <1>3 DEF MapInv

(* The map at first. *)
LEMMA InitMap == Init => MapInv
  <1> SUFFICES ASSUME MapBlank PROVE MapInv
    BY DEF Init, LiveInit
  <1>1. /\ NoMarker \in [known : BOOLEAN, status : Shown, ts : Stamps]
        /\ Silence \in [status : Shown, ts : Stamps]
    BY StampsType DEF NoMarker, Silence, Shown
  <1>2. \A d \in Drones : /\ heard[d].status = "none"
                          /\ markers[d].ts = 0 /\ heard[d].ts = 0
    BY DEF MapBlank, NoMarker, Silence
  <1>3. MapShowsLatest
    BY <1>2 DEF MapShowsLatest
  <1>4. QED BY <1>1, <1>3 DEF MapInv, MapBlank

(* A sample is shown if it is newer than what is shown, as heard keeps it.  *)
LEMMA SampleStep ==
  ASSUME MapInv, NEW d \in Drones, NEW ts \in Times, SamplePushed(d, ts)
  PROVE  MapInv'
  <1>1. ts \in Nat /\ ts \in Stamps /\ \A x \in Stamps : x \in Nat
    BY StampsType
  <1>2. CASE /\ page = telemetry
             /\ UNCHANGED <<markers, mapList, heard>>
    BY <1>2 DEF MapInv, MapShowsLatest
  <1>3. CASE /\ markers' = applyTelemetrySample(markers, d, ts)
             /\ heard' = [heard EXCEPT ![d].ts = Max({@, ts})]
             /\ UNCHANGED mapList
    <2>1. PICK old \in [known : BOOLEAN, status : Shown, ts : Stamps] : old = markers[d]
      BY DEF MapInv
    <2>2. heard[d].ts = old.ts /\ (heard[d].status # "none" => old.status = heard[d].status)
      BY <2>1 DEF MapInv, MapShowsLatest
    <2>3. PICK new \in [known : BOOLEAN, status : Shown, ts : Stamps] :
            /\ new = IF ts > old.ts
                     THEN [old EXCEPT !.ts = ts, !.status = IF old = NoMarker THEN "active" ELSE @]
                     ELSE old
      BY <1>1, LiveViewsAssumption DEF Shown
    <2>4. markers' = [markers EXCEPT ![d] = new]
      <3>1. CASE ts > old.ts
        <4>1. new = [markers[d] EXCEPT !.ts = ts,
                       !.status = IF markers[d] = NoMarker THEN "active" ELSE @]
          BY <2>1, <2>3, <3>1
        <4>2. markers' = [markers EXCEPT ![d].ts = ts,
                            ![d].status = IF markers[d] = NoMarker THEN "active" ELSE @]
          BY <1>3, <2>1, <3>1 DEF applyTelemetrySample, isFreshSample
        <4>3. \A e \in Drones : markers'[e] = IF e = d THEN new ELSE markers[e]
          BY <2>1, <4>1, <4>2 DEF MapInv
        <4>4. markers' = [e \in Drones |-> markers'[e]]
          BY <4>2 DEF MapInv
        <4>5. QED BY <4>3, <4>4 DEF MapInv
      <3>2. CASE ~(ts > old.ts)
        <4>1. new = markers[d] /\ markers' = markers
          BY <1>3, <2>1, <2>3, <3>2 DEF applyTelemetrySample, isFreshSample
        <4>2. QED BY <4>1 DEF MapInv
      <3>3. QED BY <3>1, <3>2
    <2>5. heard' = [heard EXCEPT ![d].ts = IF ts > old.ts THEN ts ELSE old.ts]
      <3>1. Max({heard[d].ts, ts}) = IF ts > old.ts THEN ts ELSE old.ts
        BY <1>1, <2>2, LaterOfTwo
      <3>2. QED BY <1>3, <3>1
    <2>6. new.ts = IF ts > old.ts THEN ts ELSE old.ts
      BY <2>3
    <2>7. heard[d].status # "none" => new.status = heard[d].status
      BY <2>2, <2>3 DEF NoMarker
    <2>8. /\ markers'[d] = new /\ heard'[d].ts = new.ts /\ heard'[d].status = heard[d].status
          /\ \A e \in Drones \ {d} : markers'[e] = markers[e] /\ heard'[e] = heard[e]
      BY <2>4, <2>5, <2>6 DEF MapInv
    <2>9. MapShowsLatest'
      <3>1. ASSUME NEW e \in Drones
            PROVE  /\ heard'[e].status # "none" => markers'[e].status = heard'[e].status
                   /\ markers'[e].ts = heard'[e].ts
        BY <2>7, <2>8 DEF MapInv, MapShowsLatest
      <3>2. QED BY <3>1 DEF MapShowsLatest
    <2>10. heard' \in [Drones -> [status : Shown, ts : Stamps]]
      BY <1>1, <2>1, <2>5 DEF MapInv
    <2>11. QED BY <1>3, <2>4, <2>9, <2>10 DEF MapInv
  <1>4. QED BY <1>2, <1>3 DEF SamplePushed, mapVars

(* A status is shown and heard alike. *)
LEMMA StatusStep ==
  ASSUME MapInv, NEW d \in Drones, NEW status \in DroneStatus, StatusPushed(d, status)
  PROVE  MapInv'
  <1>1. /\ markers' = [markers EXCEPT ![d].status = status]
        /\ heard' = [heard EXCEPT ![d].status = status]
        /\ UNCHANGED mapList
    BY DEF StatusPushed, applyStatusEvent
  <1>2. /\ markers' \in [Drones -> [known : BOOLEAN, status : Shown, ts : Stamps]]
        /\ heard' \in [Drones -> [status : Shown, ts : Stamps]]
    BY <1>1 DEF MapInv, Shown
  <1>3. /\ markers'[d].status = status /\ heard'[d].status = status
        /\ markers'[d].ts = markers[d].ts /\ heard'[d].ts = heard[d].ts
        /\ \A e \in Drones \ {d} : markers'[e] = markers[e] /\ heard'[e] = heard[e]
    BY <1>1 DEF MapInv
  <1>4. MapShowsLatest'
    BY <1>3 DEF MapInv, MapShowsLatest
  <1>5. QED BY <1>1, <1>2, <1>4 DEF MapInv

(* The list answers for the drones nothing was heard of. *)
LEMMA ListStep ==
  ASSUME MapInv, MapListAnswer
  PROVE  MapInv'
  <1>1. UNCHANGED heard /\ mapList' = {}
    BY DEF MapListAnswer
  <1>2. CASE markers' = markers
    BY <1>1, <1>2 DEF MapInv, MapShowsLatest
  <1>3. ASSUME NEW answer \in mapList, markers' = mergeDrones(answer)
        PROVE  MapInv'
    <2>1. PICK ds \in SUBSET Drones : answer \in [ds -> DroneStatus]
      BY <1>3 DEF MapInv, someDrones
    <2>2. \A d \in Drones :
            /\ seedDrones(answer)[d] \in [known : BOOLEAN, status : Shown, ts : Stamps]
            /\ seedDrones(answer)[d].ts = 0
      BY <2>1, StampsType DEF seedDrones, NoMarker, Shown
    <2>3. \A d \in Drones :
            markers'[d] = IF markers[d] # NoMarker THEN markers[d] ELSE seedDrones(answer)[d]
      BY <1>3 DEF mergeDrones
    <2>4. markers' \in [Drones -> [known : BOOLEAN, status : Shown, ts : Stamps]]
      <3>1. ASSUME NEW d \in Drones
            PROVE  (IF markers[d] # NoMarker THEN markers[d] ELSE seedDrones(answer)[d])
                     \in [known : BOOLEAN, status : Shown, ts : Stamps]
        BY <2>2 DEF MapInv
      <3>2. QED BY <1>3, <3>1 DEF mergeDrones
    <2>5. ASSUME NEW d \in Drones
          PROVE  /\ heard'[d].status # "none" => markers'[d].status = heard'[d].status
                 /\ markers'[d].ts = heard'[d].ts
      <3>1. CASE markers[d] # NoMarker
        BY <1>1, <2>3, <3>1 DEF MapInv, MapShowsLatest
      <3>2. CASE markers[d] = NoMarker
        <4>1. heard[d].status = "none" /\ heard[d].ts = 0
          BY <3>2 DEF MapInv, MapShowsLatest, NoMarker
        <4>2. QED BY <1>1, <2>2, <2>3, <3>2, <4>1
      <3>3. QED BY <3>1, <3>2
    <2>6. QED BY <1>1, <2>4, <2>5 DEF MapInv, MapShowsLatest
  <1>4. QED BY <1>2, <1>3 DEF MapListAnswer

(* Every step of the dashboard keeps it. *)
LEMMA NextMap == MapInv /\ [Next]_vars => MapInv'
  <1> SUFFICES ASSUME MapInv, [Next]_vars PROVE MapInv'
    OBVIOUS
  <1>1. ASSUME NEW p \in allPages, LoadPage(p) PROVE MapInv'
    <2>1. mapList' \subseteq someDrones
      BY <1>1 DEF LoadPage, LiveLoad
    <2>2. QED BY <1>1, <2>1, BlankMap DEF LoadPage, LiveLoad
  <1>2. CASE UNCHANGED mapVars
    BY <1>2 DEF mapVars, MapInv, MapShowsLatest
  <1>3. CASE LiveNext
    <2>1. CASE \E d \in Drones, ts \in Times : SamplePushed(d, ts)
      BY <2>1, SampleStep
    <2>2. CASE \E d \in Drones, status \in DroneStatus : StatusPushed(d, status)
      BY <2>2, StatusStep
    <2>3. CASE MapListAnswer
      BY <2>3, ListStep
    <2>4. CASE \E ds \in SUBSET Drones : SelectorAnswer(ds)
      BY <1>2, <2>4 DEF SelectorAnswer
    <2>5. CASE \E d \in Drones : SelectDrone(d)
      BY <1>2, <2>5 DEF SelectDrone
    <2>6. CASE \E samples \in SUBSET Times : HistoryAnswer(samples)
      BY <1>2, <2>6 DEF HistoryAnswer
    <2>7. CASE \E title \in PanelTitles : PanelBreaks(title)
      BY <1>2, <2>7 DEF PanelBreaks
    <2>8. QED BY <1>3, <2>1, <2>2, <2>3, <2>4, <2>5, <2>6, <2>7 DEF LiveNext
  <1>4. UNCHANGED liveVars => UNCHANGED mapVars
    BY DEF liveVars, mapVars
  <1>5. UNCHANGED vars => UNCHANGED liveVars
    BY DEF vars
  <1>6. QED BY <1>1, <1>2, <1>3, <1>4, <1>5 DEF Next

-----------------------------------------------------------------------------
(* Sorts and filters: both are given by the place of each member in a       *)
(* finite set that a strict order arranges.                                 *)

(* The members of S up to d. *)
UpTo(S, before, d) == {e \in S : e = d \/ <<e, d>> \in before}

StrictOrder(S, before) ==
  /\ \A a \in S : <<a, a>> \notin before
  /\ \A a, b \in S : a = b \/ <<a, b>> \in before \/ <<b, a>> \in before
  /\ \A a, b, c \in S : <<a, b>> \in before /\ <<b, c>> \in before => <<a, c>> \in before

(* Each member of S has a place of its own, earlier ones the smaller places,*)
(* and every place is taken.                                                *)
LEMMA PlacesInOrder ==
  ASSUME NEW S, IsFiniteSet(S), NEW before, StrictOrder(S, before)
  PROVE  /\ Cardinality(S) \in Nat
         /\ \A d \in S : Cardinality(UpTo(S, before, d)) \in 1..Cardinality(S)
         /\ \A d, e \in S : <<d, e>> \in before =>
              Cardinality(UpTo(S, before, d)) < Cardinality(UpTo(S, before, e))
         /\ \A k \in 1..Cardinality(S) : \E d \in S : Cardinality(UpTo(S, before, d)) = k
  <1> DEFINE place(d) == Cardinality(UpTo(S, before, d))
             n == Cardinality(S)
  <1>1. n \in Nat
    BY FS_CardinalityType
  <1>2. ASSUME NEW d \in S
        PROVE  IsFiniteSet(UpTo(S, before, d)) /\ place(d) \in 1..n
    <2> DEFINE T == UpTo(S, before, d)
    <2>1. T \in SUBSET S /\ d \in T
      BY DEF UpTo
    <2> HIDE DEF T
    <2>2. IsFiniteSet(T) /\ Cardinality(T) <= n
      BY <2>1, FS_Subset
    <2>3. Cardinality(T) \in Nat /\ Cardinality(T) # 0
      BY <2>1, <2>2, FS_CardinalityType, FS_EmptySet
    <2>4. Cardinality(T) \in 1..n
      BY <1>1, <2>2, <2>3
    <2>5. QED BY <2>2, <2>4 DEF T
  <1>3. ASSUME NEW d \in S, NEW e \in S, <<d, e>> \in before PROVE place(d) < place(e)
    <2> DEFINE T == UpTo(S, before, d)
               U == UpTo(S, before, e)
    <2>1. \A x \in T : x \in U
      BY <1>3 DEF UpTo, StrictOrder
    <2>2. e \in U /\ e \notin T
      BY <1>3 DEF UpTo, StrictOrder
    <2>3. IsFiniteSet(U) /\ IsFiniteSet(T) /\ Cardinality(T) \in Nat /\ Cardinality(U) \in Nat
      BY <1>2, FS_CardinalityType
    <2> HIDE DEF T, U
    <2>4. Cardinality(T) <= Cardinality(U) /\ Cardinality(T) # Cardinality(U)
      BY <2>1, <2>2, <2>3, FS_Subset
    <2>5. Cardinality(T) < Cardinality(U)
      BY <2>3, <2>4
    <2>6. QED BY <2>5 DEF T, U
  <1>4. ASSUME NEW k \in 1..n PROVE \E d \in S : place(d) = k
    <2> DEFINE f == [d \in S |-> place(d)]
               K == 1..n
    <2> HIDE DEF n
    <2>1. f \in [S -> K]
      BY <1>2
    <2>2. ASSUME NEW d \in S, NEW e \in S, f[d] = f[e] PROVE d = e
      <3>1. place(d) = place(e) /\ place(d) \in Int /\ place(e) \in Int
        BY <1>2, <2>2
      <3>2. d = e \/ <<d, e>> \in before \/ <<e, d>> \in before
        BY DEF StrictOrder
      <3>3. QED BY <1>3, <3>1, <3>2
    <2>3. f \in Injection(S, K)
      BY <2>1, <2>2 DEF Injection, IsInjective
    <2>4. IsFiniteSet(K) /\ Cardinality(K) = n
      BY <1>1, FS_Interval
    <2>5. f \in Surjection(S, K)
      <3>1. Cardinality(K) = Cardinality(S)
        BY <2>4 DEF n
      <3> HIDE DEF f, K
      <3>2. QED BY <2>3, <2>4, <3>1, FS_Injection
    <2>6. \E d \in S : f[d] = k
      BY <2>5 DEF Surjection
    <2>7. QED BY <2>6
  <1>5. QED BY <1>1, <1>2, <1>3, <1>4

(* A sort lists the members of the set, each once, in their order. *)
LEMMA Sorted ==
  ASSUME NEW S, IsFiniteSet(S), NEW before, StrictOrder(S, before)
  PROVE  /\ inOrder(S, before) \in Seq(S) /\ Cardinality(S) \in Nat
         /\ Len(inOrder(S, before)) = Cardinality(S)
         /\ \A d \in S : \E k \in 1..Cardinality(S) : inOrder(S, before)[k] = d
         /\ \A j, k \in 1..Cardinality(S) : j < k =>
              <<inOrder(S, before)[j], inOrder(S, before)[k]>> \in before
  <1> DEFINE place(d) == Cardinality(UpTo(S, before, d))
             n == Cardinality(S)
             s == inOrder(S, before)
             at(k) == CHOOSE d \in S : place(d) = k
  <1>1. /\ n \in Nat /\ \A d \in S : place(d) \in 1..n
        /\ \A d, e \in S : <<d, e>> \in before => place(d) < place(e)
        /\ \A k \in 1..n : \E d \in S : place(d) = k
    BY PlacesInOrder
  <1>2. s = [k \in 1..n |-> at(k)]
    BY DEF inOrder, UpTo
  <1>3. \A k \in 1..n : at(k) \in S /\ place(at(k)) = k
    BY <1>1
  <1> HIDE DEF at, place, n, s
  <1>4. s \in Seq(S) /\ Len(s) = n /\ \A k \in 1..n : s[k] \in S /\ place(s[k]) = k
    BY <1>1, <1>2, <1>3
  <1>5. ASSUME NEW j \in 1..n, NEW k \in 1..n, j < k PROVE <<s[j], s[k]>> \in before
    <2>1. s[j] = s[k] \/ <<s[j], s[k]>> \in before \/ <<s[k], s[j]>> \in before
      BY <1>4 DEF StrictOrder
    <2>2. ~(<<s[k], s[j]>> \in before) /\ s[j] # s[k]
      BY <1>1, <1>4, <1>5
    <2>3. QED BY <2>1, <2>2
  <1>6. ASSUME NEW d \in S PROVE s[place(d)] = d /\ place(d) \in 1..n
    <2>1. place(d) \in 1..n
      BY <1>1
    <2>2. s[place(d)] \in S /\ place(s[place(d)]) = place(d)
      BY <1>4, <2>1
    <2>3. d = s[place(d)] \/ <<d, s[place(d)]>> \in before \/ <<s[place(d)], d>> \in before
      BY <2>2 DEF StrictOrder
    <2>4. QED BY <1>1, <2>1, <2>2, <2>3
  <1>7. QED BY <1>1, <1>4, <1>5, <1>6 DEF n, s

(* A filter keeps the entries of its places, each once, in their order. *)
LEMMA Filtered ==
  ASSUME NEW S, NEW s \in Seq(S), NEW places \in SUBSET (1..Len(s))
  PROVE  LET t == kept(s, places)
         IN  /\ t \in Seq(S) /\ Len(t) = Cardinality(places) /\ Len(t) \in Nat
             /\ \A p \in places : \E k \in 1..Len(t) : t[k] = s[p]
             /\ \A k \in 1..Len(t) : \E p \in places : t[k] = s[p]
             /\ \A j, k \in 1..Len(t) : j < k =>
                  \E p, q \in places : p < q /\ t[j] = s[p] /\ t[k] = s[q]
  <1> DEFINE before == {x \in places \X places : x[1] < x[2]}
             f == inOrder(places, before)
             n == Cardinality(places)
  <1>1. \A p \in places : p \in Int
    OBVIOUS
  <1>2. \A p, q \in places : <<p, q>> \in before <=> p < q
    OBVIOUS
  <1> HIDE DEF before
  <1>3. StrictOrder(places, before)
    BY <1>1, <1>2 DEF StrictOrder
  <1>4. IsFiniteSet(places)
    <2>1. IsFiniteSet(1..Len(s))
      <3>1. Len(s) \in Int /\ 1 \in Int
        OBVIOUS
      <3>2. QED BY <3>1, FS_Interval
    <2>2. QED BY <2>1, FS_Subset
  <1>5. /\ f \in Seq(places) /\ n \in Nat /\ Len(f) = n
        /\ \A p \in places : \E k \in 1..n : f[k] = p
        /\ \A j, k \in 1..n : j < k => <<f[j], f[k]>> \in before
    BY <1>3, <1>4, Sorted
  <1>6. \A p, q \in places : q = p \/ <<q, p>> \in before <=> q <= p
    BY <1>1, <1>2
  <1>7. kept(s, places) = [k \in 1..n |-> s[f[k]]]
    <2> DEFINE at(k) == CHOOSE p \in places : Cardinality({q \in places : q <= p}) = k
    <2>1. \A p \in places : {q \in places : q <= p}
                              = {q \in places : q = p \/ <<q, p>> \in before}
      BY <1>6
    <2>2. \A k : at(k) = CHOOSE p \in places :
                   Cardinality({q \in places : q = p \/ <<q, p>> \in before}) = k
      BY <2>1
    <2>3. \A k \in 1..n : f[k] = at(k)
      BY <2>2 DEF inOrder
    <2>4. kept(s, places) = [k \in 1..n |-> s[at(k)]]
      BY DEF kept
    <2> HIDE DEF at, f, n
    <2>5. QED BY <2>3, <2>4
  <1> HIDE DEF f, n
  <1>8. f \in [1..n -> places]
    BY <1>5
  <1>9. \A k \in 1..n : s[f[k]] \in S
    <2>1. \A p \in places : s[p] \in S
      OBVIOUS
    <2>2. QED BY <1>8, <2>1
  <1>10. kept(s, places) \in Seq(S) /\ Len(kept(s, places)) = n
    BY <1>5, <1>7, <1>9
  <1>11. \A j, k \in 1..n : j < k => f[j] < f[k]
    BY <1>2, <1>5, <1>8
  <1>12. \A k \in 1..n : kept(s, places)[k] = s[f[k]] /\ f[k] \in places
    BY <1>7, <1>8
  <1>13. \A p \in places : \E k \in 1..n : kept(s, places)[k] = s[p]
    BY <1>5, <1>12
  <1>14. \A j, k \in 1..n : j < k =>
           \E p, q \in places : p < q /\ kept(s, places)[j] = s[p] /\ kept(s, places)[k] = s[q]
    BY <1>11, <1>12
  <1> DEFINE t == kept(s, places)
  <1>15. t \in Seq(S) /\ Len(t) = n /\ n \in Nat
    BY <1>5, <1>10
  <1>16. \A k \in 1..n : \E p \in places : t[k] = s[p]
    BY <1>12
  <1> HIDE DEF t
  <1>17. /\ t \in Seq(S) /\ Len(t) = n /\ Len(t) \in Nat
         /\ \A p \in places : \E k \in 1..Len(t) : t[k] = s[p]
         /\ \A k \in 1..Len(t) : \E p \in places : t[k] = s[p]
         /\ \A j, k \in 1..Len(t) : j < k =>
              \E p, q \in places : p < q /\ t[j] = s[p] /\ t[k] = s[q]
    <2>1. \A p \in places : \E k \in 1..n : t[k] = s[p]
      BY <1>13 DEF t
    <2>2. \A j, k \in 1..n : j < k =>
              \E p, q \in places : p < q /\ t[j] = s[p] /\ t[k] = s[q]
      BY <1>14 DEF t
    <2>3. QED BY <1>15, <1>16, <2>1, <2>2, Zenon
  <1>18. QED BY <1>17, Zenon DEF t, n

-----------------------------------------------------------------------------
(* The telemetry panels: series.                                            *)

Series ==
  {s \in Seq(Times) : /\ Len(s) <= Capacity
                      /\ \A i, j \in 1..Len(s) : i < j => s[i] < s[j]}

(* A series holds times in order, as many as its capacity. *)
LEMMA SeriesParts ==
  ASSUME NEW s \in Series
  PROVE  /\ s \in Seq(Times) /\ Len(s) \in Nat /\ Len(s) <= Capacity
         /\ \A i \in 1..Len(s) : s[i] \in Times /\ s[i] \in Nat \ {0}
         /\ \A i, j \in 1..Len(s) : i < j => s[i] < s[j]
  BY LiveViewsAssumption DEF Series, Times

(* The empty series. *)
LEMMA NoSeries == <<>> \in Series
  BY LiveViewsAssumption DEF Series

(* Sorting a finite set of numbers. *)
LEMMA Ascending ==
  ASSUME NEW S, IsFiniteSet(S), \A x \in S : x \in Int
  PROVE  /\ ascending(S) \in Seq(S) /\ Len(ascending(S)) \in Nat
         /\ Len(ascending(S)) = Cardinality(S)
         /\ \A i, j \in 1..Len(ascending(S)) : i < j => ascending(S)[i] < ascending(S)[j]
  <1> DEFINE before == {p \in S \X S : p[1] < p[2]}
             s == inOrder(S, before)
             n == Cardinality(S)
  <1>1. \A a, b \in S : <<a, b>> \in before <=> a < b
    OBVIOUS
  <1> HIDE DEF before
  <1>2. StrictOrder(S, before)
    BY <1>1 DEF StrictOrder
  <1>3. /\ s \in Seq(S) /\ n \in Nat /\ Len(s) = n
        /\ \A j, k \in 1..n : j < k => <<s[j], s[k]>> \in before
    BY <1>2, Sorted
  <1>4. ascending(S) = s
    BY DEF ascending, before
  <1> HIDE DEF s, n
  <1>5. \A j, k \in 1..n : j < k => s[j] < s[k]
    <2>1. \A k \in 1..n : s[k] \in S
      BY <1>3
    <2>2. QED BY <1>1, <1>3, <2>1
  <1>6. QED BY <1>3, <1>4, <1>5 DEF n

(* The newest of a list of times in order. *)
LEMMA Newest ==
  ASSUME NEW s \in Seq(Times), Len(s) > Capacity,
         \A i, j \in 1..Len(s) : i < j => s[i] < s[j]
  PROVE  newest(s) \in Series
  <1> DEFINE n == Len(s)
             m == n - Capacity + 1
             t == SubSeq(s, m, n)
  <1>1. n \in Nat /\ Capacity \in Nat \ {0} /\ m \in 1..n
    BY LiveViewsAssumption
  <1>2. t \in Seq(Times) /\ Len(t) = Capacity
    <2> HIDE DEF n
    <2>1. n - m + 1 = Capacity
      BY <1>1
    <2> HIDE DEF m
    <2>2. s \in Seq(Times) /\ n = Len(s)
      BY DEF n
    <2>3. t \in Seq(Times) /\ Len(t) = n - m + 1
      BY <1>1, <2>2
    <2>4. QED BY <2>1, <2>3
  <1>3. \A i \in 1..Capacity : t[i] = s[m + i - 1]
    <2>1. \A i \in 1..n - m + 1 : t[i] = s[m + i - 1]
      BY <1>1
    <2>2. n - m + 1 = Capacity
      BY <1>1
    <2>3. QED BY <2>1, <2>2
  <1>4. \A i \in 1..Capacity : m + i - 1 \in 1..n
    BY <1>1
  <1>5. \A i, j \in 1..Capacity : i < j => m + i - 1 < m + j - 1
    BY <1>1
  <1> HIDE DEF t, m
  <1>6. \A i, j \in 1..Capacity : i < j => t[i] < t[j]
    BY <1>3, <1>4, <1>5
  <1>7. t \in Series
    BY <1>1, <1>2, <1>6 DEF Series
  <1>8. QED BY <1>7 DEF newest, t, m, n

(* A sample newer than the last one is appended, the oldest makes room.     *)
LEMMA SamplePut ==
  ASSUME NEW s \in Series, NEW ts \in Times, isFreshSample(lastTs(s), ts)
  PROVE  pushBounded(s, ts) \in Series
  <1> DEFINE n == Len(s)
             t == Append(s, ts)
  <1>1. /\ s \in Seq(Times) /\ n \in Nat /\ n <= Capacity
        /\ \A i \in 1..n : s[i] \in Nat
        /\ \A i, j \in 1..n : i < j => s[i] < s[j]
    BY SeriesParts
  <1>2. t \in Seq(Times) /\ Len(t) = n + 1 /\ t[n + 1] = ts /\ \A i \in 1..n : t[i] = s[i]
    BY <1>1
  <1>3. \A i \in 1..n : s[i] < ts
    <2>1. n > 0 => s[n] < ts
      BY <1>1 DEF isFreshSample, lastTs, Last
    <2>2. ts \in Nat
      BY DEF Times
    <2>3. \A i \in 1..n : s[i] <= s[n]
      BY <1>1
    <2>4. QED BY <1>1, <2>1, <2>2, <2>3
  <1> HIDE DEF t, n
  <1>4. ASSUME NEW i \in 1..n + 1, NEW j \in 1..n + 1, i < j PROVE t[i] < t[j]
    <2>1. i \in 1..n
      BY <1>1, <1>4
    <2>2. CASE j \in 1..n
      BY <1>1, <1>2, <1>4, <2>1, <2>2
    <2>3. CASE j = n + 1
      BY <1>2, <1>3, <2>1, <2>3
    <2>4. QED BY <1>1, <2>2, <2>3
  <1>5. CASE Len(t) > Capacity
    <2>1. newest(t) \in Series
      BY <1>2, <1>4, <1>5, Newest
    <2>2. QED BY <1>5, <2>1 DEF pushBounded, t
  <1>6. CASE ~(Len(t) > Capacity)
    <2>1. Capacity \in Nat /\ Len(t) \in Nat
      BY <1>1, <1>2, LiveViewsAssumption
    <2>2. t \in Series
      BY <1>2, <1>4, <1>6, <2>1 DEF Series
    <2>3. QED BY <1>6, <2>2 DEF pushBounded, t
  <1>7. Len(t) \in Nat /\ Capacity \in Nat
    BY <1>1, <1>2, LiveViewsAssumption
  <1>8. QED BY <1>5, <1>6, <1>7

(* The history's answer replaces the series, sorted and cut. *)
LEMMA HistoryPut ==
  ASSUME NEW state \in [Drones -> Series], NEW d \in Drones, NEW samples \in SUBSET Times
  PROVE  seedPanelSamples(state, d, samples) \in [Drones -> Series]
  <1> DEFINE t == ascending(samples)
  <1>1. IsFiniteSet(samples) /\ \A x \in samples : x \in Int
    <2>1. IsFiniteSet(Times)
      <3>1. MaxTs \in Int /\ 1 \in Int
        BY LiveViewsAssumption
      <3>2. QED BY <3>1, FS_Interval DEF Times
    <2>2. IsFiniteSet(samples)
      BY <2>1, FS_Subset
    <2>3. \A x \in samples : x \in Int
      BY DEF Times
    <2>4. QED BY <2>2, <2>3
  <1>2. /\ t \in Seq(samples) /\ Len(t) \in Nat
        /\ \A i, j \in 1..Len(t) : i < j => t[i] < t[j]
    BY <1>1, Ascending
  <1> HIDE DEF t
  <1>3. t \in Seq(Times)
    <2>1. \A i \in 1..Len(t) : t[i] \in Times
      BY <1>2
    <2>2. QED BY <1>2, <2>1
  <1>4. CASE samples = {}
    <2>1. seedPanelSamples(state, d, samples) = state
      BY <1>4, Zenon DEF seedPanelSamples
    <2>2. QED BY <2>1
  <1>5. CASE samples # {} /\ Len(t) > Capacity
    <2>1. newest(t) \in Series
      BY <1>2, <1>3, <1>5, Newest
    <2>2. seedPanelSamples(state, d, samples) = [state EXCEPT ![d] = newest(t)]
      BY <1>5 DEF seedPanelSamples, t
    <2>3. QED BY <2>1, <2>2
  <1>6. CASE samples # {} /\ ~(Len(t) > Capacity)
    <2>1. t \in Series
      BY <1>2, <1>3, <1>6, LiveViewsAssumption DEF Series
    <2>2. seedPanelSamples(state, d, samples) = [state EXCEPT ![d] = t]
      BY <1>6 DEF seedPanelSamples, t
    <2>3. QED BY <2>1, <2>2
  <1>7. Len(t) \in Nat /\ Capacity \in Nat
    BY <1>2, LiveViewsAssumption
  <1>8. QED BY <1>4, <1>5, <1>6, <1>7

-----------------------------------------------------------------------------
(* The telemetry panels: what every step keeps.                             *)

PanelsInv ==
  /\ panels \in [Drones -> Series]
  /\ selected \in Drones \cup {NoDrone} /\ history \in Drones \cup {NoDrone}
  /\ history # NoDrone => history = selected
  /\ broken \subseteq PanelTitles

(* Panels just opened are empty. *)
LEMMA BlankPanels ==
  /\ PanelsBlank => PanelsInv
  /\ \A p : LiveLoad(p) => PanelsInv'
  <1>1. PanelsBlank => PanelsInv
    BY NoSeries DEF PanelsBlank, PanelsInv
  <1>2. ASSUME NEW p, LiveLoad(p) PROVE PanelsInv'
    <2>1. /\ panels' = [d \in Drones |-> <<>>] /\ selected' = NoDrone /\ history' = NoDrone
          /\ broken' = {}
      BY <1>2 DEF LiveLoad
    <2>2. QED BY <2>1, NoSeries DEF PanelsInv
  <1>3. QED BY <1>1, <1>2

(* Selecting a drone asks for its history, and for no other. *)
LEMMA SelectStep ==
  ASSUME PanelsInv, NEW d \in Drones, select(d), UNCHANGED <<panels, broken>>
  PROVE  PanelsInv'
  BY DEF PanelsInv, select

(* The steps of the two live pages. *)
LEMMA PanelsStep == PanelsInv /\ LiveNext => PanelsInv'
  <1> SUFFICES ASSUME PanelsInv, LiveNext PROVE PanelsInv'
    OBVIOUS
  <1>1. ASSUME NEW d \in Drones, NEW ts \in Times, SamplePushed(d, ts) PROVE PanelsInv'
    <2>1. CASE UNCHANGED panelVars
      BY <2>1 DEF panelVars, PanelsInv
    <2>2. CASE panels' = applyPanelSample(panels, d, ts) /\ UNCHANGED <<selected, history, broken>>
      <3>1. panels[d] \in Series
        BY DEF PanelsInv
      <3>2. CASE isFreshSample(lastTs(panels[d]), ts)
        <4>1. pushBounded(panels[d], ts) \in Series
          BY <3>1, <3>2, SamplePut
        <4>2. panels' = [panels EXCEPT ![d] = pushBounded(panels[d], ts)]
          BY <2>2, <3>2 DEF applyPanelSample
        <4>3. panels' \in [Drones -> Series]
          BY <4>1, <4>2 DEF PanelsInv
        <4>4. QED BY <2>2, <4>3 DEF PanelsInv
      <3>3. CASE ~isFreshSample(lastTs(panels[d]), ts)
        <4>1. panels' = panels
          BY <2>2, <3>3 DEF applyPanelSample
        <4>2. QED BY <2>2, <4>1 DEF PanelsInv
      <3>4. QED BY <3>2, <3>3
    <2>3. QED BY <1>1, <2>1, <2>2 DEF SamplePushed
  <1>2. ASSUME NEW d \in Drones, NEW status \in DroneStatus, StatusPushed(d, status)
        PROVE  PanelsInv'
    BY <1>2 DEF StatusPushed, panelVars, PanelsInv
  <1>3. CASE MapListAnswer
    BY <1>3 DEF MapListAnswer, panelVars, PanelsInv
  <1>4. ASSUME NEW ds \in SUBSET Drones, SelectorAnswer(ds) PROVE PanelsInv'
    <2> DEFINE first == listed'[1]
    <2>1. /\ ds # {} /\ listed' = ascending(ds) /\ UNCHANGED <<panels, broken>>
          /\ select(IF selected = NoDrone THEN first ELSE selected)
      BY <1>4 DEF SelectorAnswer
    <2>2. first \in Drones
      <3>1. IsFiniteSet(ds) /\ \A x \in ds : x \in Int
        <4>1. IsFiniteSet(ds)
          BY FS_Subset, LiveViewsAssumption
        <4>2. \A x \in Drones : x \in Int
          BY LiveViewsAssumption
        <4>3. QED BY <4>1, <4>2
      <3>2. Cardinality(ds) # 0
        BY <2>1, <3>1, FS_EmptySet
      <3>3. /\ ascending(ds) \in Seq(ds) /\ Len(ascending(ds)) \in Nat
            /\ Len(ascending(ds)) = Cardinality(ds)
        BY <3>1, Ascending
      <3>4. ascending(ds)[1] \in ds
        BY <3>2, <3>3
      <3>5. QED BY <2>1, <3>4
    <2> HIDE DEF first
    <2>3. CASE selected = NoDrone
      BY <2>1, <2>2, <2>3, SelectStep
    <2>4. CASE selected # NoDrone
      <3>1. selected \in Drones
        BY <2>4 DEF PanelsInv
      <3>2. QED BY <2>1, <2>4, <3>1, SelectStep
    <2>5. QED BY <2>3, <2>4
  <1>5. ASSUME NEW d \in Drones, SelectDrone(d) PROVE PanelsInv'
    BY <1>5, SelectStep DEF SelectDrone
  <1>6. ASSUME NEW samples \in SUBSET Times, HistoryAnswer(samples) PROVE PanelsInv'
    <2>1. /\ history # NoDrone /\ history' = NoDrone /\ UNCHANGED <<selected, broken>>
          /\ panels' = seedPanelSamples(panels, history, samples) \/ panels' = panels
      BY <1>6 DEF HistoryAnswer
    <2>2. history \in Drones /\ panels \in [Drones -> Series]
      BY <2>1 DEF PanelsInv
    <2>3. panels' \in [Drones -> Series]
      BY <2>1, <2>2, HistoryPut
    <2>4. QED BY <2>1, <2>3 DEF PanelsInv
  <1>7. ASSUME NEW title \in PanelTitles, PanelBreaks(title) PROVE PanelsInv'
    BY <1>7 DEF PanelBreaks, PanelsInv
  <1>8. QED BY <1>1, <1>2, <1>3, <1>4, <1>5, <1>6, <1>7 DEF LiveNext

(* Every step of the dashboard keeps it. *)
LEMMA PanelsInductive == Spec => []PanelsInv
  <1>1. Init => PanelsInv
    BY BlankPanels DEF Init, LiveInit
  <1>2. PanelsInv /\ [Next]_vars => PanelsInv'
    <2> SUFFICES ASSUME PanelsInv, [Next]_vars PROVE PanelsInv'
      OBVIOUS
    <2>1. ASSUME NEW p \in allPages, LoadPage(p) PROVE PanelsInv'
      BY <2>1, BlankPanels DEF LoadPage
    <2>2. CASE UNCHANGED liveVars
      BY <2>2 DEF liveVars, panelVars, PanelsInv
    <2>3. QED BY <2>1, <2>2, PanelsStep DEF Next, vars
  <1>3. QED BY <1>1, <1>2, PTL DEF Spec

-----------------------------------------------------------------------------
(* The sparkline: whole numbers within the box. *)

(* A part of a span that is scaled to another length lies within it. *)
LEMMA ScaledWithin ==
  ASSUME NEW size \in Nat, NEW span \in Nat \ {0}, NEW part \in 0..span
  PROVE  (size * part) \div span \in 0..size
  <1> DEFINE x == size * part
             p == x \div span
  <1>1. x \in Nat /\ x <= size * span
    <2>1. part \in Nat /\ span - part \in Nat
      OBVIOUS
    <2>2. size * part \in Nat /\ size * (span - part) \in Nat
      BY <2>1
    <2>3. size * span = size * part + size * (span - part)
      BY <2>1
    <2>4. QED BY <2>2, <2>3
  <1> HIDE DEF x
  <1>2. p \in Nat /\ span * p <= x /\ x < span * p + span
    BY <1>1
  <1> HIDE DEF p
  <1>3. p <= size
    <2>1. SUFFICES ASSUME p >= size + 1 PROVE FALSE
      BY <1>2
    <2>2. span * p >= span * (size + 1) /\ span * (size + 1) = size * span + span
      BY <1>2, <2>1
    <2>3. size * span \in Nat
      OBVIOUS
    <2>4. QED BY <1>1, <1>2, <2>2, <2>3
  <1>4. p \in 0..size
    BY <1>2, <1>3
  <1>5. QED BY <1>4 DEF p, x

(* Scaled to a length that has room for every step, steps stay apart. *)
LEMMA ScaledApart ==
  ASSUME NEW size \in Nat, NEW span \in Nat \ {0}, span <= size, NEW i \in Nat
  PROVE  (size * i) \div span < (size * (i + 1)) \div span
  <1> DEFINE x == size * i
             y == size * (i + 1)
             p == x \div span
             q == y \div span
  <1>1. x \in Nat /\ y = x + size /\ y \in Nat
    OBVIOUS
  <1> HIDE DEF x, y
  <1>2. p \in Nat /\ span * p <= x
    BY <1>1
  <1>3. q \in Nat /\ y < span * q + span
    BY <1>1
  <1> HIDE DEF p, q
  <1>4. p < q
    <2>1. SUFFICES ASSUME q <= p PROVE FALSE
      BY <1>2, <1>3
    <2>2. span * q <= span * p /\ span * q \in Nat /\ span * p \in Nat
      BY <1>2, <1>3, <2>1
    <2>3. QED BY <1>1, <1>2, <1>3, <2>2
  <1>5. QED BY <1>4 DEF p, q, x, y

(* A full span is the full length. *)
LEMMA ScaledWhole ==
  ASSUME NEW size \in Nat, NEW span \in Nat \ {0}
  PROVE  (size * span) \div span = size
  BY WholeSteps

(* A finite set of numbers has a least member and a greatest. *)
LEMMA Extremes ==
  ASSUME NEW S, IsFiniteSet(S), S # {}, \A x \in S : x \in Int
  PROVE  LET low  == CHOOSE v \in S : \A w \in S : v <= w
             high == CHOOSE v \in S : \A w \in S : w <= v
         IN  low \in S /\ high \in S /\ \A w \in S : low <= w /\ w <= high
  <1> DEFINE before == {p \in S \X S : p[1] < p[2]}
             s == inOrder(S, before)
             n == Cardinality(S)
             Low(v) == \A w \in S : v <= w
             High(v) == \A w \in S : w <= v
  <1>1. \A a, b \in S : <<a, b>> \in before <=> a < b
    OBVIOUS
  <1> HIDE DEF before
  <1>2. StrictOrder(S, before)
    BY <1>1 DEF StrictOrder
  <1>3. /\ s \in Seq(S) /\ n \in Nat /\ Len(s) = n
        /\ \A d \in S : \E k \in 1..n : s[k] = d
        /\ \A j, k \in 1..n : j < k => <<s[j], s[k]>> \in before
    BY <1>2, Sorted
  <1>4. n # 0
    BY FS_EmptySet
  <1> HIDE DEF s, n
  <1>5. \A k \in 1..n : s[k] \in S
    BY <1>3
  <1>6. \A j, k \in 1..n : j < k => s[j] < s[k]
    BY <1>1, <1>3, <1>5
  <1>7. \A k \in 1..n : s[1] <= s[k] /\ s[k] <= s[n] /\ 1 \in 1..n /\ n \in 1..n
    BY <1>3, <1>4, <1>5, <1>6
  <1>8. s[1] \in S /\ s[n] \in S
    BY <1>3, <1>4, <1>5
  <1>9. \E v \in S : Low(v)
    BY <1>3, <1>7, <1>8
  <1>10. \E v \in S : High(v)
    BY <1>3, <1>7, <1>8
  <1>11. (CHOOSE v \in S : Low(v)) \in S /\ Low(CHOOSE v \in S : Low(v))
    <2> HIDE DEF Low
    <2>1. QED BY <1>9
  <1>12. (CHOOSE v \in S : High(v)) \in S /\ High(CHOOSE v \in S : High(v))
    <2> HIDE DEF High
    <2>1. QED BY <1>10
  <1>13. QED BY <1>11, <1>12

(* The sparkline of a series in a box with room for every step. *)
LEMMA SparkFits ==
  ASSUME NEW series \in Series
  PROVE  LET width == 4 + 2 * Capacity
             spark == buildSparkline(series, width, 10, 2)
         IN  /\ \A i \in 1..Len(series) - 1 : spark[i].x < spark[i + 1].x
             /\ \A i \in 1..Len(series) :
                  /\ spark[i].x \in 2..width - 2 /\ spark[i].y \in 2..8
                  /\ i = Len(series) => spark[i].x = width - 2
  <1> DEFINE n == Len(series)
             size == 2 * Capacity
             width == 4 + 2 * Capacity
             values == {Reading[series[i]] : i \in 1..n}
             low == CHOOSE v \in values : \A w \in values : v <= w
             high == CHOOSE v \in values : \A w \in values : w <= v
             across(i) == IF n = 1 THEN size ELSE (size * (i - 1)) \div (n - 1)
             down(i) == IF high = low THEN 6 \div 2
                        ELSE (6 * (high - Reading[series[i]])) \div (high - low)
             spark == [i \in 1..n |-> [x |-> 2 + across(i), y |-> 2 + down(i)]]
  <1>1. Capacity \in Nat \ {0} /\ size \in Nat /\ width - 2 * 2 = size /\ 10 - 2 * 2 = 6
    BY LiveViewsAssumption
  <1>2. /\ n \in Nat /\ n <= Capacity
        /\ \A i \in 1..n : series[i] \in Times
    BY SeriesParts
  <1>3. \A i \in 1..n : Reading[series[i]] \in Int /\ Reading[series[i]] \in values
    BY <1>2, LiveViewsAssumption DEF Times
  <1>4. values \subseteq Int
    BY <1>3
  <1>5. buildSparkline(series, width, 10, 2) = spark
    BY <1>1 DEF buildSparkline
  <1>6. ASSUME NEW i \in 1..n PROVE across(i) \in 0..size /\ (i = n => across(i) = size)
    <2>1. CASE n = 1
      BY <1>1, <2>1
    <2>2. CASE n # 1
      <3>1. n - 1 \in Nat \ {0} /\ i - 1 \in 0..n - 1
        BY <1>2, <2>2
      <3>2. (size * (i - 1)) \div (n - 1) \in 0..size
        BY <1>1, <3>1, ScaledWithin
      <3>3. (size * (n - 1)) \div (n - 1) = size
        BY <1>1, <3>1, ScaledWhole
      <3>4. QED BY <2>2, <3>2, <3>3
    <2>3. QED BY <2>1, <2>2
  <1>7. ASSUME NEW i \in 1..n - 1 PROVE across(i) < across(i + 1) /\ i \in 1..n /\ i + 1 \in 1..n
    <2>1. n - 1 \in Nat \ {0} /\ n # 1 /\ i - 1 \in Nat /\ n - 1 <= size
          /\ (i - 1) + 1 = i /\ (i + 1) - 1 = i
      BY <1>1, <1>2
    <2>2. (size * (i - 1)) \div (n - 1) < (size * ((i - 1) + 1)) \div (n - 1)
      BY <1>1, <2>1, ScaledApart
    <2>3. i \in 1..n /\ i + 1 \in 1..n
      BY <1>2
    <2>4. QED BY <2>1, <2>2, <2>3
  <1>8. ASSUME NEW i \in 1..n PROVE down(i) \in 0..6
    <2> DEFINE v == Reading[series[i]]
    <2>1. v \in values /\ v \in Int
      BY <1>3
    <2>2. /\ low \in values /\ high \in values
          /\ \A w \in values : low <= w /\ w <= high
      <3>1. IsFiniteSet(values)
        <4>1. IsFiniteSet(1..n)
          BY <1>2, FS_Interval
        <4> DEFINE f == [k \in 1..n |-> Reading[series[k]]]
        <4>2. f \in Surjection(1..n, values)
          <5>1. f \in [1..n -> values] /\ \A w \in values : \E k \in 1..n : f[k] = w
            OBVIOUS
          <5>2. QED BY <5>1 DEF Surjection
        <4> HIDE DEF f, values, n
        <4>3. QED BY <4>1, <4>2, FS_Surjection
      <3>2. QED BY <1>4, <2>1, <3>1, Extremes
    <2> HIDE DEF low, high, values, v
    <2>3. low \in Int /\ high \in Int /\ low <= v /\ v <= high
      BY <1>4, <2>1, <2>2
    <2>4. CASE high = low
      <3>1. 6 \div 2 = 3
        OBVIOUS
      <3>2. QED BY <2>4, <3>1 DEF v
    <2>5. CASE high # low
      <3>1. high - low \in Nat \ {0} /\ high - v \in 0..high - low
        <4>1. v \in Int
          BY <2>1
        <4>2. low < high
          <5>1. low <= high
            BY <2>3, <4>1
          <5>2. QED BY <2>3, <2>5, <5>1
        <4>3. high - low \in Nat \ {0}
          <5>1. high - low > 0 /\ high - low \in Int
            BY <2>3, <4>2
          <5> DEFINE m == high - low
          <5> HIDE DEF m
          <5>2. m \in Int /\ m > 0
            BY <5>1 DEF m
          <5>3. m \in Nat \ {0}
            BY <5>2
          <5>4. QED BY <5>3 DEF m
        <4>4. high - v \in 0..high - low
          BY <2>3, <4>1
        <4>5. QED BY <4>3, <4>4
      <3>2. (6 * (high - v)) \div (high - low) \in 0..6
        BY <3>1, ScaledWithin
      <3>3. QED BY <2>5, <3>2 DEF v
    <2>6. QED BY <2>4, <2>5
  <1>9. \A i \in 1..n : spark[i].x = 2 + across(i) /\ spark[i].y = 2 + down(i)
    OBVIOUS
  <1>10. width - 2 = 2 + size
    BY <1>1
  <1> HIDE DEF across, down, spark, size, width, n
  <1>11. \A i \in 1..n - 1 : spark[i].x < spark[i + 1].x
    <2>1. \A i \in 1..n : across(i) \in Int
      BY <1>6
    <2>2. QED BY <1>7, <1>9, <2>1
  <1>12. \A i \in 1..n : /\ spark[i].x \in 2..width - 2 /\ spark[i].y \in 2..8
                         /\ i = n => spark[i].x = width - 2
    <2> SUFFICES ASSUME NEW i \in 1..n
                 PROVE  /\ spark[i].x \in 2..width - 2 /\ spark[i].y \in 2..8
                        /\ i = n => spark[i].x = width - 2
      OBVIOUS
    <2>1. across(i) \in 0..size /\ (i = n => across(i) = size) /\ down(i) \in 0..6
      BY <1>6, <1>8
    <2>2. spark[i].x = 2 + across(i) /\ spark[i].y = 2 + down(i)
      BY <1>9
    <2>3. QED BY <1>1, <1>10, <2>1, <2>2
  <1>13. QED BY <1>5, <1>11, <1>12 DEF width, n

(* Samples and histories arrive in any order and late: a series is in order *)
(* and within its capacity, its sparkline within the box, and a history     *)
(* still awaited is that of the drone displayed (telemetry-panels.tsx over  *)
(* lib/telemetry-panel-state.ts); with the map's part, for any fleet, any   *)
(* readings and any capacity.                                               *)
THEOREM LiveViewsStayCurrent == Spec => []LiveViewsCurrent
  <1>1. Spec => []MapInv
    BY InitMap, NextMap, PTL DEF Spec
  <1>2. MapInv /\ PanelsInv => LiveViewsCurrent
    <2> SUFFICES ASSUME MapInv, PanelsInv PROVE LiveViewsCurrent
      OBVIOUS
    <2>1. MapShowsLatest
      BY DEF MapInv
    <2>2. \A d \in Drones : panels[d] \in Series
      BY DEF PanelsInv
    <2>3. LiveTypeOK
      <3>1. \A d \in Drones : markers[d].ts \in 0..MaxTs
        BY DEF MapInv, Stamps
      <3>2. \A d \in Drones : panels[d] \in Seq(Times)
        BY <2>2, SeriesParts
      <3>3. QED BY <3>1, <3>2 DEF LiveTypeOK, PanelsInv
    <2>4. history # NoDrone => history = effectiveDroneId
      <3>1. ASSUME history # NoDrone PROVE history = effectiveDroneId
        <4>1. selected # NoDrone /\ history = selected
          BY <3>1 DEF PanelsInv
        <4>2. effectiveDroneId = selected
          BY <4>1, Zenon DEF effectiveDroneId
        <4>3. QED BY <4>1, <4>2
      <3>2. QED BY <3>1
    <2>5. ASSUME NEW d \in Drones
          PROVE  LET series == panels[d]
                     width  == 4 + 2 * Capacity
                     spark  == buildSparkline(series, width, 10, 2)
                 IN  /\ Len(series) <= Capacity
                     /\ \A i \in 1..Len(series) - 1 :
                          series[i] < series[i + 1] /\ spark[i].x < spark[i + 1].x
                     /\ \A i \in 1..Len(series) :
                          /\ spark[i].x \in 2..width - 2 /\ spark[i].y \in 2..8
                          /\ i = Len(series) => spark[i].x = width - 2
      <3> DEFINE s == panels[d]
      <3>1. s \in Series
        BY <2>2
      <3> HIDE DEF s
      <3>2. Len(s) <= Capacity /\ \A i \in 1..Len(s) - 1 : s[i] < s[i + 1]
        <4>1. /\ Len(s) \in Nat /\ Len(s) <= Capacity
              /\ \A i, j \in 1..Len(s) : i < j => s[i] < s[j]
          BY <3>1, SeriesParts
        <4>2. \A i \in 1..Len(s) - 1 : i \in 1..Len(s) /\ i + 1 \in 1..Len(s) /\ i < i + 1
          BY <4>1
        <4>3. QED BY <4>1, <4>2
      <3>3. QED BY <3>1, <3>2, SparkFits DEF s
    <2>6. QED BY <2>1, <2>3, <2>4, <2>5 DEF LiveViewsCurrent, PanelsInOrder
  <1>3. QED BY <1>1, <1>2, PanelsInductive, PTL

-----------------------------------------------------------------------------
(* The mission planner: routes.                                             *)

Statuses == {"idle", "pending", "failed", "submitted"}

Route == {wps \in Seq(Waypoint) : Len(wps) <= MaxWaypoints /\ wellNumbered(wps)}

(* A route's waypoints, wherever they are put. *)
LEMMA RouteParts ==
  ASSUME NEW wps \in Route
  PROVE  /\ wps \in Seq([seq : Nat, at : Points]) /\ wps \in Seq(Waypoint)
         /\ Len(wps) \in Nat /\ Len(wps) <= MaxWaypoints
         /\ wellNumbered(wps)
         /\ \A i \in 1..Len(wps) : wps[i] \in Waypoint /\ wps[i].seq = i - 1
  <1>1. wps \in Seq(Waypoint) /\ Len(wps) <= MaxWaypoints /\ wellNumbered(wps)
    BY DEF Route
  <1>2. \A w \in Waypoint : w \in [seq : Nat, at : Points]
    BY DEF Waypoint
  <1>3. wps \in Seq([seq : Nat, at : Points])
    <2>1. Len(wps) \in Nat /\ \A i \in 1..Len(wps) : wps[i] \in Waypoint
      BY <1>1
    <2>2. \A i \in 1..Len(wps) : wps[i] \in [seq : Nat, at : Points]
      BY <1>2, <2>1
    <2> DEFINE R == [seq : Nat, at : Points]
    <2> HIDE DEF R
    <2>3. \A i \in 1..Len(wps) : wps[i] \in R
      BY <2>2 DEF R
    <2>4. wps \in Seq(R)
      BY <1>1, <2>3
    <2>5. QED BY <2>4 DEF R
  <1>4. QED BY <1>1, <1>3 DEF wellNumbered

(* The empty route. *)
LEMMA NoRoute == <<>> \in Route
  BY PlannerAssumption DEF Route, wellNumbered

(* Renumbering makes a route of any list of waypoints that is not too long. *)
LEMMA Resequenced ==
  ASSUME NEW s \in Seq([seq : Nat, at : Points]), Len(s) <= MaxWaypoints
  PROVE  resequence(s) \in Route
  <1> DEFINE n == Len(s)
             w(i) == [s[i] EXCEPT !.seq = i - 1]
             t == [i \in 1..n |-> w(i)]
  <1>1. n \in Nat /\ n <= MaxWaypoints /\ MaxWaypoints \in Nat
    BY PlannerAssumption
  <1>2. ASSUME NEW i \in 1..n PROVE w(i) \in Waypoint /\ w(i).seq = i - 1
    <2> DEFINE R == [seq : Nat, at : Points]
    <2>1. s[i] \in R
      <3> HIDE DEF R
      <3>1. s \in Seq(R)
        BY DEF R
      <3>2. QED BY <3>1 DEF n
    <2>2. i - 1 \in 0..MaxWaypoints - 1
      BY <1>1
    <2>3. QED BY <2>1, <2>2 DEF Waypoint
  <1> HIDE DEF w, n
  <1>3. t \in Seq(Waypoint) /\ Len(t) = n /\ \A i \in 1..n : t[i].seq = i - 1
    BY <1>1, <1>2
  <1>4. t \in Route
    <2> HIDE DEF t
    <2>1. QED BY <1>1, <1>3 DEF Route, wellNumbered
  <1>5. resequence(s) = t
    BY DEF resequence, n, w
  <1>6. QED BY <1>4, <1>5

(* A waypoint added has the next number. *)
LEMMA Added ==
  ASSUME NEW wps \in Route, Len(wps) < MaxWaypoints, NEW p \in Points
  PROVE  addWaypoint(wps, p) \in Route
  <1> DEFINE n == Len(wps)
             w == [seq |-> n, at |-> p]
             t == Append(wps, w)
  <1>1. /\ n \in Nat /\ n + 1 <= MaxWaypoints /\ wps \in Seq(Waypoint)
        /\ \A i \in 1..n : wps[i].seq = i - 1
    BY RouteParts, PlannerAssumption
  <1>2. w \in Waypoint
    BY <1>1, PlannerAssumption DEF Waypoint
  <1>3. w.seq = n
    OBVIOUS
  <1> HIDE DEF n, w
  <1>4. t \in Seq(Waypoint) /\ Len(t) = n + 1
    BY <1>1, <1>2 DEF n
  <1>5. \A i \in 1..n + 1 : t[i].seq = i - 1
    BY <1>1, <1>2, <1>3 DEF n
  <1>6. t \in Route
    <2> HIDE DEF t
    <2>1. QED BY <1>1, <1>4, <1>5 DEF Route, wellNumbered
  <1>7. QED BY <1>6 DEF addWaypoint, n, w

(* A waypoint moved on the map keeps its number. *)
LEMMA Updated ==
  ASSUME NEW wps \in Route, NEW n, NEW p \in Points
  PROVE  moveWaypoint(wps, n, p) \in Route
  <1> DEFINE w(i) == IF wps[i].seq = n THEN [wps[i] EXCEPT !.at = p] ELSE wps[i]
             m == Len(wps)
             t == [i \in 1..m |-> w(i)]
  <1>1. m \in Nat /\ m <= MaxWaypoints /\ \A i \in 1..m : wps[i] \in Waypoint /\ wps[i].seq = i - 1
    BY RouteParts
  <1>2. \A i \in 1..m : w(i) \in Waypoint /\ w(i).seq = i - 1
    BY <1>1 DEF Waypoint
  <1> HIDE DEF w, m
  <1>3. t \in Seq(Waypoint) /\ Len(t) = m /\ \A i \in 1..m : t[i].seq = i - 1
    BY <1>1, <1>2
  <1>4. t \in Route
    <2> HIDE DEF t
    <2>1. QED BY <1>1, <1>3 DEF Route, wellNumbered
  <1>5. QED BY <1>4 DEF moveWaypoint, updateWaypoint, w, m

(* What is left when a waypoint is removed is numbered anew. *)
LEMMA Removed ==
  ASSUME NEW wps \in Route, NEW n
  PROVE  removeWaypoint(wps, n) \in Route
  <1> DEFINE places == {i \in DOMAIN wps : wps[i].seq # n}
             S == [seq : Nat, at : Points]
             t == kept(wps, places)
  <1>1. wps \in Seq(S) /\ Len(wps) \in Nat /\ Len(wps) <= MaxWaypoints
    BY RouteParts
  <1>2. places \in SUBSET (1..Len(wps))
    BY <1>1
  <1> HIDE DEF places, S
  <1>3. t \in Seq(S) /\ Len(t) = Cardinality(places) /\ Len(t) \in Nat
    BY <1>1, <1>2, Filtered, Zenon
  <1>4. Cardinality(places) <= Len(wps)
    <2> DEFINE K == 1..Len(wps)
               len == Len(wps)
    <2>1. IsFiniteSet(K) /\ Cardinality(K) = Len(wps)
      <3>1. len \in Nat
        BY <1>1
      <3> HIDE DEF len
      <3>2. IsFiniteSet(1..len) /\ Cardinality(1..len) = IF 1 > len THEN 0 ELSE len - 1 + 1
        BY <3>1, FS_Interval
      <3>3. Cardinality(1..len) = len
        BY <3>1, <3>2
      <3>4. QED BY <3>2, <3>3 DEF len
    <2> HIDE DEF K
    <2>2. places \in SUBSET K
      BY <1>2 DEF K
    <2>3. Cardinality(places) <= Cardinality(K)
      BY <2>1, <2>2, FS_Subset
    <2>4. QED BY <2>1, <2>3
  <1> HIDE DEF t
  <1>5. Len(t) <= MaxWaypoints
    BY <1>1, <1>3, <1>4, PlannerAssumption
  <1>6. resequence(t) \in Route
    BY <1>3, <1>5, Resequenced DEF S
  <1>7. QED BY <1>6 DEF removeWaypoint, t, places

(* A waypoint given another place in the list: the list is numbered anew.   *)
LEMMA Reordered ==
  ASSUME NEW wps \in Route, NEW from \in Int, NEW to \in Int
  PROVE  reorderWaypoints(wps, from, to) \in Route
  <1> DEFINE S == [seq : Nat, at : Points]
             n == Len(wps)
             i == from + 1
             j == to + 1
             w == wps[from + 1]
             rest == RemoveAt(wps, i)
             t == InsertAt(rest, j, w)
  <1>1. wps \in Seq(S) /\ n \in Nat /\ n <= MaxWaypoints
    BY RouteParts
  <1>2. CASE {from, to} \subseteq 0..n - 1 /\ from # to
    <2>1. i \in 1..n /\ j \in 1..n /\ i \in Int /\ j \in Int
      BY <1>1, <1>2
    <2>2. w \in S
      <3> HIDE DEF S
      <3>1. QED BY <1>1, <2>1
    <2> HIDE DEF S, i, j, w
    <2>3. rest \in Seq(S) /\ Len(rest) = n - 1
      <3> DEFINE a == SubSeq(wps, 1, i - 1)
                 b == SubSeq(wps, i + 1, n)
      <3>1. a \in Seq(S) /\ Len(a) = i - 1
        BY <1>1, <2>1
      <3>2. b \in Seq(S) /\ Len(b) = n - i
        BY <1>1, <2>1
      <3> HIDE DEF a, b
      <3>3. a \o b \in Seq(S) /\ Len(a \o b) = (i - 1) + (n - i)
        BY <3>1, <3>2
      <3>4. rest = a \o b
        BY DEF RemoveAt, a, b
      <3>5. QED BY <1>1, <2>1, <3>3, <3>4
    <2> HIDE DEF n, rest
    <2>4. t \in Seq(S) /\ Len(t) = n
      <3> DEFINE a == SubSeq(rest, 1, j - 1)
                 b == SubSeq(rest, j, n - 1)
      <3>1. a \in Seq(S) /\ Len(a) = j - 1
        BY <1>1, <2>1, <2>3
      <3>2. b \in Seq(S) /\ Len(b) = n - j
        BY <1>1, <2>1, <2>3
      <3> HIDE DEF a, b
      <3>3. a \o <<w>> \o b \in Seq(S) /\ Len(a \o <<w>> \o b) = (j - 1) + 1 + (n - j)
        BY <2>2, <3>1, <3>2
      <3>4. t = a \o <<w>> \o b
        BY <2>3 DEF InsertAt, a, b
      <3>5. QED BY <1>1, <2>1, <3>3, <3>4
    <2> HIDE DEF t
    <2>5. resequence(t) \in Route
      BY <1>1, <2>4, Resequenced DEF S
    <2>6. reorderWaypoints(wps, from, to) = resequence(t)
      BY <1>2 DEF reorderWaypoints, t, rest, i, j, w, n
    <2>7. QED BY <2>5, <2>6
  <1>3. CASE ~({from, to} \subseteq 0..n - 1 /\ from # to)
    BY <1>3 DEF reorderWaypoints
  <1>4. QED BY <1>2, <1>3

-----------------------------------------------------------------------------
(* The mission planner: what every step keeps.  Only the planner's page has *)
(* a draft, requests and a timer; what its last edit left is in storage, or *)
(* in the hands of the mount that has read it and not rendered it yet.      *)

Draft(statuses) ==
  [waypoints : Route, geofences : Seq(Seq(Points)), transmission : statuses]

Transmits(call) == call.kind \in {"check", "submit"}

CallOK(call) ==
  \/ call = NoCall
  \/ call \in [kind : {"geofence"}, body : Seq(Points)]
  \/ call \in [kind : {"check", "submit"}, body : Route]

(* What the planner's state is worth while another page is displayed. *)
Away == draft = emptyDraft /\ retryTimer = NoTimer /\ \A s \in Slots : calls[s] = NoCall

PlannerTypes ==
  /\ page \in allPages
  /\ draft \in Draft(Statuses) /\ storage \in Draft(Statuses \cup {"none"})
  /\ drawing \in Seq(Points)
  /\ conflicts \subseteq 0..MaxWaypoints - 2
  /\ DOMAIN calls = Slots /\ \A s \in Slots : CallOK(calls[s])
  /\ retryTimer \in Route /\ work \in Route
  /\ restored \in Draft((Statuses \ {"pending"}) \cup {"none"}) /\ interrupted \in BOOLEAN

held == IF restored # NoDraft THEN restored ELSE storage

PlannerInv ==
  /\ PlannerTypes
  /\ ~interrupted => held.waypoints = work
  /\ storage.transmission = "none" => storage = NoDraft
  /\ restored.transmission = "none" => restored = NoDraft
  /\ IF page = planner THEN storage = draft ELSE Away /\ restored = NoDraft
  /\ draft.transmission = "pending" => \E s \in Slots : Transmits(calls[s])

(* The draft of a planner never used. *)
LEMMA EmptyDrafts ==
  /\ emptyDraft \in Draft(Statuses) /\ emptyDraft \in Draft(Statuses \cup {"none"})
  /\ emptyDraft.waypoints = <<>>
  /\ emptyDraft.transmission = "idle"
  /\ NoDraft \in Draft(Statuses \cup {"none"}) /\ NoDraft.waypoints = <<>>
  /\ NoDraft \in Draft((Statuses \ {"pending"}) \cup {"none"})
  /\ NoDraft.transmission = "none"
  <1>1. <<>> \in Seq(Seq(Points))
    OBVIOUS
  <1>2. QED BY <1>1, NoRoute DEF emptyDraft, NoDraft, Draft, Statuses

(* The fields of a draft, and what setting its status changes. *)
LEMMA DraftFields ==
  ASSUME NEW statuses, NEW d \in Draft(statuses)
  PROVE  /\ d.waypoints \in Route /\ d.geofences \in Seq(Seq(Points))
         /\ d.transmission \in statuses
         /\ \A status \in Statuses :
              /\ [d EXCEPT !.transmission = status] \in Draft(Statuses)
              /\ [d EXCEPT !.transmission = status].waypoints = d.waypoints
              /\ [d EXCEPT !.transmission = status].transmission = status
  BY DEF Draft

(* A free slot, a geofence request, a transmission. *)
LEMMA Calls ==
  ASSUME NEW call, CallOK(call)
  PROVE  /\ call.kind \in {"none", "geofence", "check", "submit"}
         /\ call.kind = "geofence" => call.body \in Seq(Points)
         /\ Transmits(call) => call.body \in Route /\ call # NoCall
         /\ call.kind = "geofence" => call # NoCall
         /\ call.kind = "check" =>
              CallOK([call EXCEPT !.kind = "submit"]) /\ Transmits([call EXCEPT !.kind = "submit"])
  <1>1. NoCall.kind = "none"
    BY DEF NoCall
  <1>2. CASE call = NoCall
    BY <1>1, <1>2 DEF Transmits
  <1>3. CASE call \in [kind : {"geofence"}, body : Seq(Points)]
    BY <1>1, <1>3 DEF Transmits
  <1>4. CASE call \in [kind : {"check", "submit"}, body : Route]
    <2>1. call.kind \in {"check", "submit"} /\ call.body \in Route
      BY <1>4
    <2>2. [call EXCEPT !.kind = "submit"] \in [kind : {"check", "submit"}, body : Route]
      BY <1>4
    <2>3. QED BY <1>1, <2>1, <2>2 DEF Transmits, CallOK
  <1>5. QED BY <1>2, <1>3, <1>4 DEF CallOK

(* The planner at first. *)
LEMMA InitPlanner == Init => PlannerInv
  <1> SUFFICES ASSUME Init PROVE PlannerInv
    OBVIOUS
  <1>1. /\ draft = emptyDraft /\ storage = NoDraft /\ page = home /\ work = <<>>
        /\ drawing = <<>> /\ conflicts = {} /\ calls = [s \in Slots |-> NoCall]
        /\ retryTimer = <<>> /\ restored = NoDraft /\ interrupted = FALSE
    BY DEF Init, PlannerInit, PlannerBlank, NoTimer
  <1>2. page \in allPages /\ page # planner
    BY <1>1 DEF allPages, home, planner
  <1>3. \A s \in Slots : calls[s] = NoCall
    BY <1>1
  <1>4. PlannerTypes
    <2>1. interrupted \in BOOLEAN
      BY <1>1, Zenon
    <2>2. QED BY <1>1, <1>2, <1>3, <2>1, EmptyDrafts, NoRoute DEF PlannerTypes, CallOK
  <1>5. Away
    BY <1>1, <1>3 DEF Away, NoTimer
  <1>6. QED BY <1>1, <1>2, <1>4, <1>5, EmptyDrafts DEF PlannerInv, held

(* Opening a page: the planner reads its draft and writes the empty one, no *)
(* other touches it.                                                        *)
LEMMA LoadPlanner ==
  ASSUME PlannerInv, NEW p \in allPages, page' = p, PlannerLoad(p)
  PROVE  PlannerInv'
  <1>1. /\ drawing' = <<>> /\ conflicts' = {} /\ retryTimer' = <<>> /\ work' = work
        /\ DOMAIN calls' = Slots /\ \A s \in Slots : calls'[s] = NoCall
        /\ interrupted' = (interrupted \/ restored # NoDraft)
    BY DEF PlannerLoad, NoTimer
  <1>2. /\ storage \in Draft(Statuses \cup {"none"})
        /\ storage.transmission = "none" => storage = NoDraft
        /\ interrupted \in BOOLEAN
        /\ ~interrupted /\ restored = NoDraft => storage.waypoints = work
    BY DEF PlannerInv, PlannerTypes, held
  <1>3. work' \in Route /\ interrupted' \in BOOLEAN
        /\ (~interrupted' => storage.waypoints = work')
    <2>1. work' \in Route
      BY <1>1 DEF PlannerInv, PlannerTypes
    <2>2. interrupted' \in BOOLEAN
      BY <1>1, <1>2, Zenon
    <2>3. ~interrupted' => storage.waypoints = work'
      BY <1>1, <1>2, Zenon
    <2>4. QED BY <2>1, <2>2, <2>3
  <1>4. CASE p = planner
    <2> DEFINE d == loadDraft(storage)
    <2>1. draft' = emptyDraft /\ storage' = emptyDraft /\ restored' = d
      BY <1>4 DEF PlannerLoad, setDraft
    <2>2. /\ d \in Draft((Statuses \ {"pending"}) \cup {"none"})
          /\ d.waypoints = storage.waypoints
          /\ d.transmission = "none" => d = NoDraft
          /\ d = NoDraft => storage.waypoints = <<>>
      <3>1. CASE storage.transmission = "pending"
        <4>1. d = [storage EXCEPT !.transmission = "failed"]
          BY <3>1 DEF loadDraft, markFailed
        <4>2. "failed" \in Statuses /\ "failed" \in (Statuses \ {"pending"}) \cup {"none"}
          BY DEF Statuses
        <4>3. d.waypoints = storage.waypoints /\ d.transmission = "failed"
              /\ d \in Draft((Statuses \ {"pending"}) \cup {"none"})
          BY <1>2, <4>1, <4>2 DEF Draft
        <4>4. QED BY <4>3, EmptyDrafts
      <3>2. CASE storage.transmission # "pending"
        <4>1. d = storage
          BY <3>2 DEF loadDraft
        <4>2. storage.transmission \in (Statuses \ {"pending"}) \cup {"none"}
          BY <1>2, <3>2, DraftFields
        <4>3. storage \in Draft((Statuses \ {"pending"}) \cup {"none"})
          BY <1>2, <4>2 DEF Draft
        <4>4. QED BY <1>2, <4>1, <4>3, EmptyDrafts
      <3>3. QED BY <3>1, <3>2
    <2> HIDE DEF d
    <2>3. PlannerTypes'
      BY <1>1, <1>3, <2>1, <2>2, EmptyDrafts, NoRoute DEF PlannerTypes, CallOK
    <2>4. ~interrupted' => held'.waypoints = work'
      BY <1>3, <2>1, <2>2, EmptyDrafts DEF held
    <2>5. QED BY <1>1, <1>4, <2>1, <2>2, <2>3, <2>4, EmptyDrafts DEF PlannerInv
  <1>5. CASE p # planner
    <2>1. draft' = emptyDraft /\ storage' = storage /\ restored' = NoDraft
      BY <1>5 DEF PlannerLoad
    <2>2. PlannerTypes'
      BY <1>1, <1>2, <1>3, <2>1, EmptyDrafts, NoRoute DEF PlannerTypes, CallOK
    <2>3. Away'
      BY <1>1, <2>1 DEF Away, NoTimer
    <2>4. ~interrupted' => held'.waypoints = work'
      BY <1>3, <2>1 DEF held
    <2>5. QED BY <1>2, <1>5, <2>1, <2>2, <2>3, <2>4, EmptyDrafts DEF PlannerInv
  <1>6. QED BY <1>4, <1>5

(* While the planner is displayed a step that stores the draft it sets, and *)
(* keeps the route, makes it the work or renders the one restored, keeps    *)
(* the invariant.                                                           *)
LEMMA DraftSet ==
  ASSUME PlannerInv, page = planner, page' = page, NEW d \in Draft(Statuses), setDraft(d),
         \/ d.waypoints = draft.waypoints /\ UNCHANGED <<restored, work, interrupted>>
         \/ /\ restored' = NoDraft /\ work' \in Route /\ interrupted' \in BOOLEAN
            /\ ~interrupted' => d.waypoints = work',
         drawing' \in Seq(Points), conflicts' \subseteq 0..MaxWaypoints - 2,
         DOMAIN calls' = Slots, \A s \in Slots : CallOK(calls'[s]), retryTimer' \in Route,
         d.transmission = "pending" => \E s \in Slots : Transmits(calls'[s])
  PROVE  PlannerInv'
  <1>1. draft' = d /\ storage' = d /\ page' \in allPages
    BY DEF setDraft, PlannerInv, PlannerTypes
  <1>2. d \in Draft(Statuses \cup {"none"}) /\ d.transmission # "none"
    BY DEF Draft, Statuses
  <1>3. restored' \in Draft((Statuses \ {"pending"}) \cup {"none"})
        /\ (restored'.transmission = "none" => restored' = NoDraft)
        /\ work' \in Route /\ interrupted' \in BOOLEAN
    BY EmptyDrafts DEF PlannerInv, PlannerTypes
  <1>4. PlannerTypes'
    BY <1>1, <1>2, <1>3 DEF PlannerTypes
  <1>5. ~interrupted' => held'.waypoints = work'
    <2>1. CASE d.waypoints = draft.waypoints /\ UNCHANGED <<restored, work, interrupted>>
      BY <1>1, <2>1 DEF PlannerInv, held
    <2>2. CASE restored' = NoDraft /\ (~interrupted' => d.waypoints = work')
      BY <1>1, <2>2 DEF held
    <2>3. QED BY <2>1, <2>2
  <1>6. QED BY <1>1, <1>2, <1>3, <1>4, <1>5 DEF PlannerInv

(* A step that leaves draft and storage alone. *)
LEMMA DraftKept ==
  ASSUME PlannerInv, page = planner,
         UNCHANGED <<page, draft, storage, restored, work, interrupted>>,
         drawing' \in Seq(Points), conflicts' \subseteq 0..MaxWaypoints - 2,
         DOMAIN calls' = Slots, \A s \in Slots : CallOK(calls'[s]), retryTimer' \in Route,
         \A s \in Slots : Transmits(calls[s]) => Transmits(calls'[s])
  PROVE  PlannerInv'
  <1>1. PlannerTypes'
    BY DEF PlannerInv, PlannerTypes
  <1>2. QED BY <1>1 DEF PlannerInv, held

(* The facts a step starts from. *)
LEMMA PlannerFields ==
  ASSUME PlannerInv
  PROVE  /\ draft \in Draft(Statuses) /\ draft.waypoints \in Route
         /\ drawing \in Seq(Points) /\ conflicts \subseteq 0..MaxWaypoints - 2
         /\ DOMAIN calls = Slots /\ \A s \in Slots : CallOK(calls[s])
         /\ retryTimer \in Route /\ work \in Route
         /\ draft.waypoints \in Route
         /\ draft.transmission = "pending" => \E s \in Slots : Transmits(calls[s])
         /\ \A s \in Slots : calls[s] # NoCall => page = planner
         /\ retryTimer # NoTimer => page = planner
  BY DraftFields DEF PlannerInv, PlannerTypes, Away

(* An edit of the route. *)
LEMMA EditStep ==
  ASSUME PlannerInv, page' = page, NEW wps \in Route, Edit(wps)
  PROVE  PlannerInv'
  <1> DEFINE d == [draft EXCEPT !.waypoints = wps]
  <1>1. draft \in Draft(Statuses)
    BY PlannerFields
  <1>2. d \in Draft(Statuses) /\ d.waypoints = wps /\ d.transmission = draft.transmission
    BY <1>1 DEF Draft
  <1>3. setDraft(d) /\ work' = wps /\ conflicts' = {} /\ page = planner
        /\ interrupted' = FALSE /\ restored' = NoDraft
        /\ UNCHANGED <<drawing, calls, retryTimer>>
    BY DEF Edit, editing
  <1> HIDE DEF d
  <1>4. QED BY <1>2, <1>3, PlannerFields, DraftSet

(* The draft read at the mount is rendered. *)
LEMMA RestoreStep ==
  ASSUME PlannerInv, page' = page, Restore
  PROVE  PlannerInv'
  <1>1. /\ restored # NoDraft /\ setDraft(restored) /\ restored' = NoDraft
        /\ UNCHANGED <<drawing, conflicts, calls, retryTimer, work, interrupted>>
    BY DEF Restore
  <1>2. restored \in Draft(Statuses) /\ restored.transmission # "pending" /\ page = planner
    <2>1. /\ restored \in Draft((Statuses \ {"pending"}) \cup {"none"})
          /\ restored.transmission # "none" /\ page = planner
      BY <1>1 DEF PlannerInv, PlannerTypes
    <2>2. restored.transmission \in Statuses \ {"pending"}
      BY <2>1, DraftFields
    <2>3. QED BY <2>1, <2>2 DEF Draft
  <1>3. interrupted' \in BOOLEAN /\ (~interrupted' => restored.waypoints = work')
    BY <1>1 DEF PlannerInv, PlannerTypes, held
  <1>4. work' \in Route
    BY <1>1, PlannerFields
  <1>5. /\ drawing' \in Seq(Points) /\ conflicts' \subseteq 0..MaxWaypoints - 2
        /\ DOMAIN calls' = Slots /\ retryTimer' \in Route
        /\ \A s \in Slots : CallOK(calls'[s])
    BY <1>1, PlannerFields
  <1>6. QED BY <1>1, <1>2, <1>3, <1>4, <1>5, DraftSet

(* The clicks and drags on the map. *)
LEMMA EditingStep ==
  ASSUME PlannerInv, page' = page,
         \/ \E p \in Points : AddWaypoint(p) \/ AddVertex(p)
         \/ \E n \in 0..MaxWaypoints - 1 :
              DropWaypoint(n) \/ \E p \in Points : DragWaypoint(n, p)
         \/ UndoVertex
  PROVE  PlannerInv'
  <1>1. page = planner => draft.waypoints \in Route
    BY PlannerFields
  <1>2. ASSUME NEW p \in Points, AddWaypoint(p) PROVE PlannerInv'
    <2>1. Len(draft.waypoints) < MaxWaypoints /\ Edit(addWaypoint(draft.waypoints, p))
      BY <1>2 DEF AddWaypoint
    <2>2. QED BY <2>1, PlannerFields, Added, EditStep
  <1>3. ASSUME NEW p \in Points, AddVertex(p) PROVE PlannerInv'
    <2>1. drawing' \in Seq(Points)
      BY <1>3, PlannerFields DEF AddVertex
    <2>2. QED BY <1>3, <2>1, PlannerFields, DraftKept DEF AddVertex, editing
  <1>4. ASSUME NEW n \in 0..MaxWaypoints - 1, DropWaypoint(n) PROVE PlannerInv'
    BY <1>4, PlannerFields, Removed, EditStep DEF DropWaypoint
  <1>5. ASSUME NEW n \in 0..MaxWaypoints - 1, NEW p \in Points, DragWaypoint(n, p)
        PROVE  PlannerInv'
    BY <1>5, PlannerFields, Updated, EditStep DEF DragWaypoint
  <1>6. CASE UndoVertex
    <2>1. drawing \in Seq(Points) /\ drawing # <<>> /\ drawing' = SubSeq(drawing, 1, Len(drawing) - 1)
      BY <1>6, PlannerFields DEF UndoVertex, Front
    <2>2. drawing' \in Seq(Points)
      BY <2>1
    <2>3. CASE page = planner
      BY <1>6, <2>2, <2>3, PlannerFields, DraftKept DEF UndoVertex
    <2>4. CASE page # planner
      <3>1. UNCHANGED <<page, draft, conflicts, calls, retryTimer, storage, restored, work,
                        interrupted>>
        BY <1>6 DEF UndoVertex
      <3>2. PlannerTypes'
        BY <2>2, <3>1 DEF PlannerInv, PlannerTypes
      <3>3. QED BY <3>1, <3>2 DEF PlannerInv, Away, held
    <2>5. QED BY <2>3, <2>4
  <1>7. QED BY <1>2, <1>3, <1>4, <1>5, <1>6

(* A request is put in a free slot; the others stay. *)
LEMMA Sent1 ==
  ASSUME PlannerInv, NEW kind, NEW body, CallOK([kind |-> kind, body |-> body]), send(kind, body)
  PROVE  /\ DOMAIN calls' = Slots /\ \A s \in Slots : CallOK(calls'[s])
         /\ \A s \in Slots : Transmits(calls[s]) => Transmits(calls'[s])
         /\ kind \in {"check", "submit"} => \E s \in Slots : Transmits(calls'[s])
  <1>1. PICK s \in Slots : calls[s] = NoCall
                           /\ calls' = [calls EXCEPT ![s] = [kind |-> kind, body |-> body]]
    BY DEF send
  <1>2. DOMAIN calls = Slots /\ \A t \in Slots : CallOK(calls[t])
    BY PlannerFields
  <1>3. calls'[s] = [kind |-> kind, body |-> body] /\ \A t \in Slots \ {s} : calls'[t] = calls[t]
    BY <1>1, <1>2
  <1>4. ~Transmits(calls[s])
    BY <1>1 DEF NoCall, Transmits
  <1>5. kind \in {"check", "submit"} => Transmits(calls'[s])
    BY <1>3 DEF Transmits
  <1>6. DOMAIN calls' = Slots
    BY <1>1, <1>2
  <1>7. QED BY <1>2, <1>3, <1>4, <1>5, <1>6

(* A request ends: its slot is free. *)
LEMMA Ended1 ==
  ASSUME PlannerInv, NEW s \in Slots, ended(s)
  PROVE  /\ DOMAIN calls' = Slots /\ \A t \in Slots : CallOK(calls'[t])
         /\ \A t \in Slots \ {s} : calls'[t] = calls[t]
  BY PlannerFields DEF ended, CallOK

(* Transmitting a route, first or again. *)
LEMMA TransmitStep ==
  ASSUME PlannerInv, page' = page, page = planner, NEW route \in Route, transmit(route),
         retryTimer' \in Route
  PROVE  PlannerInv'
  <1> DEFINE d == [draft EXCEPT !.transmission = "pending"]
  <1>1. draft \in Draft(Statuses)
    BY PlannerFields
  <1>2. "pending" \in Statuses
    BY DEF Statuses
  <1>3. d \in Draft(Statuses) /\ d.waypoints = draft.waypoints
    BY <1>1, <1>2, DraftFields
  <1>4. setDraft(d) /\ UNCHANGED <<drawing, conflicts, restored, work, interrupted>>
    BY DEF transmit, markPending
  <1> HIDE DEF d
  <1>5. CallOK([kind |-> "check", body |-> route])
    BY DEF CallOK
  <1>6. send("check", route)
    BY DEF transmit
  <1>7. /\ DOMAIN calls' = Slots /\ \A s \in Slots : CallOK(calls'[s])
        /\ \E s \in Slots : Transmits(calls'[s])
    BY <1>5, <1>6, Sent1
  <1>8. QED BY <1>3, <1>4, <1>7, PlannerFields, DraftSet

(* The draft's status when a transmission is over. *)
LEMMA OverStep ==
  ASSUME PlannerInv, page' = page, page = planner, NEW status \in {"failed", "submitted"},
         setDraft([draft EXCEPT !.transmission = status]), NEW s \in Slots, ended(s),
         conflicts' \subseteq 0..MaxWaypoints - 2, retryTimer' \in Route,
         UNCHANGED <<drawing, restored, work, interrupted>>
  PROVE  PlannerInv'
  <1> DEFINE d == [draft EXCEPT !.transmission = status]
  <1>1. draft \in Draft(Statuses)
    BY PlannerFields
  <1>2. status \in Statuses /\ status # "pending"
    BY DEF Statuses
  <1>3. d \in Draft(Statuses) /\ d.waypoints = draft.waypoints /\ d.transmission = status
    BY <1>1, <1>2, DraftFields
  <1> HIDE DEF d
  <1>4. setDraft(d)
    BY DEF d
  <1>5. QED BY <1>2, <1>3, <1>4, PlannerFields, Ended1, DraftSet

(* A ring that is closed is one of the drawn points. *)
LEMMA RingCloses ==
  ASSUME NEW vs \in Seq(Points), Len(vs) >= 3
  PROVE  closeRing(vs) \in Seq(Points)
  <1>1. vs[1] \in Points
    OBVIOUS
  <1>2. Append(vs, vs[1]) \in Seq(Points) /\ NoRing \in Seq(Points)
    BY <1>1 DEF NoRing
  <1>3. QED BY <1>2 DEF closeRing

(* The answers to a geofence. *)
LEMMA GeofenceStep ==
  ASSUME PlannerInv, page' = page,
         SubmitGeofence \/ \E s \in Slots : GeofenceAnswer(s)
  PROVE  PlannerInv'
  <1>1. CASE SubmitGeofence
    <2>1. closeRing(drawing) \in Seq(Points)
      BY <1>1, PlannerFields, RingCloses DEF SubmitGeofence
    <2>2. CallOK([kind |-> "geofence", body |-> closeRing(drawing)])
      BY <2>1 DEF CallOK
    <2>3. send("geofence", closeRing(drawing))
      BY <1>1 DEF SubmitGeofence
    <2>4. /\ DOMAIN calls' = Slots /\ \A s \in Slots : CallOK(calls'[s])
          /\ \A s \in Slots : Transmits(calls[s]) => Transmits(calls'[s])
      BY <2>2, <2>3, Sent1
    <2>5. /\ page = planner
          /\ UNCHANGED <<draft, drawing, conflicts, retryTimer, storage, restored, work, interrupted>>
      BY <1>1 DEF SubmitGeofence
    <2>6. QED BY <2>4, <2>5, PlannerFields, DraftKept
  <1>2. ASSUME NEW s \in Slots, GeofenceAnswer(s) PROVE PlannerInv'
    <2>1. calls[s].kind = "geofence" /\ ended(s)
          /\ UNCHANGED <<conflicts, retryTimer, restored, work, interrupted>>
      BY <1>2 DEF GeofenceAnswer
    <2>2. CallOK(calls[s]) /\ draft \in Draft(Statuses) /\ drawing \in Seq(Points)
      BY PlannerFields
    <2>3. calls[s].body \in Seq(Points) /\ page = planner /\ ~Transmits(calls[s])
      BY <2>1, <2>2, Calls, PlannerFields DEF Transmits
    <2>4. /\ DOMAIN calls' = Slots /\ \A t \in Slots : CallOK(calls'[t])
          /\ \A t \in Slots : Transmits(calls[t]) => Transmits(calls'[t])
      BY <2>1, <2>3, Ended1
    <2>5. CASE UNCHANGED <<draft, drawing, storage>>
      BY <2>1, <2>3, <2>4, <2>5, PlannerFields, DraftKept
    <2>6. CASE setDraft([draft EXCEPT !.geofences = Append(@, calls[s].body)]) /\ drawing' = <<>>
      <3> DEFINE d == [draft EXCEPT !.geofences = Append(@, calls[s].body)]
      <3>1. draft.geofences \in Seq(Seq(Points))
        BY <2>2, DraftFields
      <3>2. Append(draft.geofences, calls[s].body) \in Seq(Seq(Points))
        BY <2>3, <3>1
      <3>3. /\ d \in Draft(Statuses) /\ d.waypoints = draft.waypoints
            /\ d.transmission = draft.transmission
        BY <2>2, <3>1, <3>2 DEF Draft
      <3>4. setDraft(d)
        BY <2>6
      <3> HIDE DEF d
      <3>5. drawing' \in Seq(Points)
        BY <2>6
      <3>6. d.transmission = "pending" => \E t \in Slots : Transmits(calls'[t])
        BY <2>4, <3>3, PlannerFields
      <3>7. QED BY <2>1, <2>3, <2>4, <3>3, <3>4, <3>5, <3>6, PlannerFields, DraftSet
    <2>7. QED BY <1>2, <2>5, <2>6 DEF GeofenceAnswer
  <1>3. QED BY <1>1, <1>2

(* The transmission's own steps. *)
LEMMA TransmissionStep ==
  ASSUME PlannerInv, page' = page,
         \/ SubmitMission \/ RetryTimerFires
         \/ \E s \in Slots : SubmitAnswer(s) \/ TransmissionFails(s)
         \/ \E s \in Slots : \E reported : CheckAnswer(s, reported)
  PROVE  PlannerInv'
  <1>1. CASE SubmitMission
    BY <1>1, PlannerFields, TransmitStep DEF SubmitMission
  <1>2. CASE RetryTimerFires
    <2>1. retryTimer' \in Route /\ retryTimer # NoTimer /\ transmit(retryTimer)
      BY <1>2, NoRoute DEF RetryTimerFires, NoTimer
    <2>2. QED BY <2>1, PlannerFields, TransmitStep
  <1>3. ASSUME NEW s \in Slots, calls[s].kind \in {"check", "submit"}
        PROVE  page = planner /\ calls[s].body \in Route
    <2>1. CallOK(calls[s]) /\ Transmits(calls[s])
      BY <1>3, PlannerFields DEF Transmits
    <2>2. QED BY <2>1, Calls, PlannerFields
  <1>4. ASSUME NEW s \in Slots, SubmitAnswer(s) PROVE PlannerInv'
    <2>1. /\ calls[s].kind = "submit" /\ ended(s) /\ conflicts' = {}
          /\ setDraft([draft EXCEPT !.transmission = "submitted"])
          /\ UNCHANGED <<drawing, retryTimer, restored, work, interrupted>>
      BY <1>4 DEF SubmitAnswer, markSubmitted
    <2>2. page = planner
      BY <1>3, <2>1
    <2>3. conflicts' \subseteq 0..MaxWaypoints - 2 /\ retryTimer' \in Route
      BY <2>1, PlannerFields
    <2>4. QED BY <2>1, <2>2, <2>3, OverStep
  <1>5. ASSUME NEW s \in Slots, TransmissionFails(s) PROVE PlannerInv'
    <2>1. /\ calls[s].kind \in {"check", "submit"} /\ ended(s) /\ retryTimer' = calls[s].body
          /\ setDraft([draft EXCEPT !.transmission = "failed"])
          /\ UNCHANGED <<drawing, conflicts, restored, work, interrupted>>
      BY <1>5 DEF TransmissionFails, markFailed
    <2>2. page = planner /\ retryTimer' \in Route
      BY <1>3, <2>1
    <2>3. conflicts' \subseteq 0..MaxWaypoints - 2
      BY <2>1, PlannerFields
    <2>4. QED BY <2>1, <2>2, <2>3, OverStep
  <1>6. ASSUME NEW s \in Slots, NEW reported, CheckAnswer(s, reported) PROVE PlannerInv'
    <2>1. /\ calls[s].kind = "check" /\ reported \subseteq 0..Len(calls[s].body) - 2
          /\ conflicts' = reported /\ UNCHANGED <<drawing, retryTimer, restored, work, interrupted>>
      BY <1>6 DEF CheckAnswer
    <2>2. page = planner /\ calls[s].body \in Route
      BY <1>3, <2>1
    <2>3. conflicts' \subseteq 0..MaxWaypoints - 2
      <3>1. Len(calls[s].body) \in Nat /\ Len(calls[s].body) <= MaxWaypoints /\ MaxWaypoints \in Nat
        BY <2>2, RouteParts, PlannerAssumption
      <3>2. QED BY <2>1, <3>1
    <2>4. retryTimer' \in Route
      BY <2>1, PlannerFields
    <2>5. CASE reported = {}
      <3>1. /\ calls' = [calls EXCEPT ![s].kind = "submit"]
            /\ UNCHANGED <<draft, storage>>
        BY <1>6, <2>5 DEF CheckAnswer
      <3>2. DOMAIN calls = Slots /\ \A t \in Slots : CallOK(calls[t])
        BY PlannerFields
      <3>3. /\ DOMAIN calls' = Slots /\ calls'[s] = [calls[s] EXCEPT !.kind = "submit"]
            /\ \A t \in Slots \ {s} : calls'[t] = calls[t]
        BY <3>1, <3>2
      <3>4. CallOK(calls'[s]) /\ Transmits(calls'[s])
        BY <2>1, <3>2, <3>3, Calls
      <3>5. /\ \A t \in Slots : CallOK(calls'[t])
            /\ \A t \in Slots : Transmits(calls[t]) => Transmits(calls'[t])
        BY <3>2, <3>3, <3>4
      <3>6. QED BY <2>1, <2>2, <2>3, <2>4, <3>1, <3>3, <3>5, PlannerFields, DraftKept
    <2>6. CASE reported # {}
      <3>1. ended(s) /\ setDraft([draft EXCEPT !.transmission = "failed"])
        BY <1>6, <2>6 DEF CheckAnswer, markFailed
      <3>2. QED BY <2>1, <2>2, <2>3, <2>4, <3>1, OverStep
    <2>7. QED BY <2>5, <2>6
  <1>7. QED BY <1>1, <1>2, <1>4, <1>5, <1>6

(* Every step of the dashboard keeps it. *)
LEMMA NextPlanner == PlannerInv /\ [Next]_vars => PlannerInv'
  <1> SUFFICES ASSUME PlannerInv, [Next]_vars PROVE PlannerInv'
    OBVIOUS
  <1>1. ASSUME NEW p \in allPages, LoadPage(p) PROVE PlannerInv'
    BY <1>1, LoadPlanner DEF LoadPage
  <1>2. CASE PlannerNext /\ page' = page
    BY <1>2, RestoreStep, EditingStep, GeofenceStep, TransmissionStep DEF PlannerNext
  <1>3. CASE UNCHANGED <<page, plannerVars>>
    BY <1>3 DEF plannerVars, PlannerInv, PlannerTypes, Away, held
  <1>4. QED BY <1>1, <1>2, <1>3 DEF Next, vars

(* The route the last edit left is on screen and stored, or read by a mount  *)
(* that is about to show and store it, unless the page was left in between; *)
(* every route in play is numbered as Mission Planning demands, and a       *)
(* planner that shows "pending" has a transmission in flight, through       *)
(* failures, retries and page loads (components/mission-planner.tsx over    *)
(* the reducers of lib/mission-planner-state.ts), for routes of any length. *)
THEOREM PlannerKeepsWork == Spec => []WorkIsKept
  <1>1. Spec => []PlannerInv
    BY InitPlanner, NextPlanner, PTL DEF Spec
  <1>2. PlannerInv => WorkIsKept
    <2> SUFFICES ASSUME PlannerInv PROVE WorkIsKept
      OBVIOUS
    <2>1. PlannerTypeOK
      <3>1. draft.waypoints \in Seq(Waypoint) /\ work \in Seq(Waypoint)
        BY PlannerFields, RouteParts
      <3>2. draft.transmission \in {"idle", "pending", "failed", "submitted"}
        BY PlannerFields, DraftFields DEF Statuses
      <3>3. \A s \in Slots : calls[s].kind \in {"none", "geofence", "check", "submit"}
        BY PlannerFields, Calls
      <3>4. QED BY <3>1, <3>2, <3>3, PlannerFields DEF PlannerTypeOK
    <2>2. draft.transmission = "pending" =>
            \E s \in Slots : calls[s].kind \in {"check", "submit"}
      BY PlannerFields DEF Transmits
    <2>3. /\ page = planner => storage = draft
          /\ ~interrupted => (IF restored # NoDraft THEN restored ELSE storage).waypoints = work
      BY DEF PlannerInv, held
    <2>4. ASSUME NEW wps \in {draft.waypoints, restored.waypoints, retryTimer}
                   \cup {calls[s].body : s \in {s \in Slots : calls[s].kind \in {"check", "submit"}}}
          PROVE  /\ wellNumbered(wps)
                 /\ \A i, j \in 0..Len(wps) : wellNumbered(reorderWaypoints(wps, i, j))
      <3>1. \A s \in Slots : calls[s].kind \in {"check", "submit"} => calls[s].body \in Route
        BY PlannerFields, Calls DEF Transmits
      <3>2. wps \in Route
        <4>1. restored.waypoints \in Route
          BY DraftFields DEF PlannerInv, PlannerTypes
        <4>2. QED BY <3>1, <4>1, PlannerFields
      <3>3. \A i, j \in 0..Len(wps) : i \in Int /\ j \in Int
        BY <3>2, RouteParts
      <3>4. QED BY <3>2, <3>3, RouteParts, Reordered
    <2>5. QED BY <2>1, <2>2, <2>3, <2>4 DEF WorkIsKept
  <1>3. QED BY <1>1, <1>2, PTL
=============================================================================
