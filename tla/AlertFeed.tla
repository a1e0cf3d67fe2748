----------------------------- MODULE AlertFeed ------------------------------
(***************************************************************************)
(* The alert feed page: components/alert-feed.tsx over the reducers of     *)
(* lib/alert-feed-state.ts, the socket of lib/ws-client.ts and the calls   *)
(* of lib/api-client.ts, with the Alert Service behind it.  The service's  *)
(* rows change as its escalation engine changes them, with calls that      *)
(* overlap and save over each other (Escalation.tla has its every step).   *)
(* A push, the seed and an acknowledgement's answer travel separately,     *)
(* overtake each other and meet in the feed.                               *)
(***************************************************************************)
EXTENDS Pages

CONSTANTS
  Alerts,     \* alert ids
  MaxLevel,   \* bound on escalationLevel
  MaxPushed   \* bound on the pushes on their way

DEFAULT_MAX_DISPLAY_RETRIES == 2

ASSUME AlertFeedAssumption == MaxLevel \in Nat /\ MaxPushed \in Nat \ {0}

VARIABLES
  service,  \* the service's alerts
  pushed,   \* events on their way to the page
  missed,   \* history: alerts with a change that was not pushed to this page
  feed,     \* AlertFeedState: an item per alert, or NoItem
  seed,     \* the listAlerts call: [status, alerts]
  acks,     \* the acknowledge call of each alert: none, sent or its answer
  crashes   \* AlertDisplayGuard's failedAttempts, per row

feedVars == <<service, pushed, missed, feed, seed, acks, crashes>>

alertsPage == "alerts"
STATUS_RANK == [OPEN |-> 0, ESCALATED |-> 1, ACKNOWLEDGED |-> 2, CLOSED |-> 3]
Alert   == [status : DOMAIN STATUS_RANK, escalationLevel : 0..MaxLevel]
NoAlert == [status |-> "none", escalationLevel |-> 0]
NoItem  == [alert |-> NoAlert, acknowledging |-> FALSE]
Sent    == [status |-> "sent", escalationLevel |-> 0]
Failed  == [status |-> "failed", escalationLevel |-> 0]
list(status, alerts) == [status |-> status, alerts |-> alerts]
NoAlerts == [id \in Alerts |-> NoAlert]

-----------------------------------------------------------------------------
(* Reducers *)

isNewerAlert(existing, incoming) ==
  LET rank(a) == STATUS_RANK[a.status]
  IN  IF rank(incoming) # rank(existing)
      THEN rank(incoming) > rank(existing)
      ELSE incoming.escalationLevel > existing.escalationLevel

applyNewAlert(state, id, alert) ==
  IF state[id] = NoItem \/ isNewerAlert(state[id].alert, alert)
  THEN [state EXCEPT ![id].alert = alert]
  ELSE state

(* An acknowledgement replaces what is displayed, without comparing. *)
applyAck(state, id, alert) ==
  [state EXCEPT ![id] = [alert |-> IF @.alert.status = alert.status /\ ~@.acknowledging
                                   THEN @.alert ELSE alert,
                         acknowledging |-> FALSE]]

beginAcknowledge(state, id) == [state EXCEPT ![id].acknowledging = TRUE]
failAcknowledge(state, id)  == [state EXCEPT ![id].acknowledging = FALSE]

isActionable(item) == item.alert.status \in {"OPEN", "ESCALATED"}

seedAlerts(alerts) ==
  [id \in Alerts |-> [alert |-> alerts[id], acknowledging |-> FALSE]]

nextDisplayAction(failedAttempts) ==
  IF failedAttempts < DEFAULT_MAX_DISPLAY_RETRIES THEN "retry" ELSE "log"

-----------------------------------------------------------------------------
FeedBlank ==
  /\ pushed = {} /\ missed = {} /\ feed = [id \in Alerts |-> NoItem]
  /\ seed = list("none", NoAlerts) /\ acks = NoAlerts /\ crashes = [id \in Alerts |-> 0]

FeedInit == FeedBlank /\ service = NoAlerts

(* The rows the service may hold: a row climbs OPEN, or ESCALATED once its   *)
(* chain is used up; only the demonstration data set writes CLOSED ones.     *)
raised == {a \in Alert : a.status = "CLOSED" => a.escalationLevel = 0}

(* The page's mount asks for the list and connects the socket; while it was  *)
(* away the service went on.                                                 *)
FeedLoad(p) ==
  /\ seed' = list(IF p = alertsPage THEN "sent" ELSE "none", NoAlerts)
  /\ pushed' = {} /\ missed' = {} /\ feed' = [id \in Alerts |-> NoItem]
  /\ acks' = NoAlerts /\ crashes' = [id \in Alerts |-> 0]
  /\ service' \in IF p = alertsPage THEN [Alerts -> raised \cup {NoAlert}]
                                    ELSE {NoAlerts}

(* A call saves a row.  It pushes that row, now or after other calls have    *)
(* saved theirs, unless the socket is still connecting, the step is one that *)
(* is not announced, or the call dies.                                       *)
store(id, alert, event) ==
  /\ page = alertsPage
  /\ service' = [service EXCEPT ![id] = alert]
  /\ \/ /\ Cardinality(pushed) < MaxPushed
        /\ pushed' = pushed \cup {[event |-> event, id |-> id, alert |-> alert]}
        /\ UNCHANGED missed
     \/ missed' = missed \cup {id} /\ UNCHANGED pushed

(* What the call that saves loaded: the row as it is, or as it was before    *)
(* other calls saved theirs.  Which rows those were is left open: any row of *)
(* a life that no call can have closed.                                      *)
loaded(id) ==
  IF service[id].status \in {"none", "CLOSED"} THEN {}
  ELSE {a \in Alert : a.status # "CLOSED"}

Raise(id) ==
  /\ service[id] = NoAlert
  /\ store(id, [status |-> "OPEN", escalationLevel |-> 0], "alert:new")
  /\ UNCHANGED <<feed, seed, acks, crashes>>

(* A sweep takes an OPEN row one level up, which ends its chain or does not, *)
(* or finds its chain already used up.                                       *)
escalated(row) ==
  {a \in Alert : \/ /\ a.status \in {"OPEN", "ESCALATED"}
                    /\ a.escalationLevel = row.escalationLevel + 1
                 \/ a = [row EXCEPT !.status = "ESCALATED"]}

Escalate(id) ==
  /\ \E row \in loaded(id) :
       /\ row.status = "OPEN"
       /\ \E a \in escalated(row) : store(id, a, "alert:new")
  /\ UNCHANGED <<feed, seed, acks, crashes>>

acknowledged(row) == [row EXCEPT !.status = "ACKNOWLEDGED"]

(* Another responder acknowledges it. *)
AcknowledgedElsewhere(id) ==
  /\ \E row \in loaded(id) :
       row.status \in {"OPEN", "ESCALATED"} /\ store(id, acknowledged(row), "alert:ack")
  /\ UNCHANGED <<feed, seed, acks, crashes>>

(* The connection drops and is made again: what was on its way is lost. *)
SocketReconnects ==
  /\ pushed # {} /\ pushed' = {}
  /\ missed' = missed \cup {e.id : e \in pushed}
  /\ UNCHANGED <<service, feed, seed, acks, crashes>>

Pushed ==
  /\ \E e \in pushed :
       /\ pushed' = pushed \ {e}
       /\ feed' = IF e.event = "alert:new" THEN applyNewAlert(feed, e.id, e.alert)
                                           ELSE applyAck(feed, e.id, e.alert)
  /\ UNCHANGED <<service, missed, seed, acks, crashes>>

(* listAlerts reads the alerts at one moment and its answer lands at another;*)
(* a call that fails leaves the page with what is pushed.                    *)
ListHandled ==
  /\ seed.status = "sent"
  /\ \/ seed' = list("answered", service) /\ UNCHANGED missed
     \/ seed' = list("none", NoAlerts) /\ missed' = Alerts
  /\ UNCHANGED <<service, pushed, feed, acks, crashes>>

(* Mutant: the seed is merged over what the socket delivered. *)
mergeSeedOver(alerts) ==
  [id \in Alerts |-> IF alerts[id] # NoAlert THEN seedAlerts(alerts)[id] ELSE feed[id]]

mergeSeed(alerts) ==
  [id \in Alerts |-> IF feed[id] # NoItem THEN feed[id] ELSE seedAlerts(alerts)[id]]

Seeded ==
  /\ seed.status = "answered" /\ seed' = list("none", NoAlerts)
  /\ feed' = mergeSeed(seed.alerts)
  /\ UNCHANGED <<service, pushed, missed, acks, crashes>>

(* The row's button, if it is displayed: enabled on an actionable row that   *)
(* is not acknowledging.                                                     *)
AcknowledgeClick(id) ==
  /\ isActionable(feed[id]) /\ ~feed[id].acknowledging
  /\ nextDisplayAction(crashes[id]) = "retry"
  /\ acks' = [acks EXCEPT ![id] = Sent]
  /\ feed' = beginAcknowledge(feed, id)
  /\ UNCHANGED <<service, pushed, missed, seed, crashes>>

(* The service refuses the call, or it is lost; or it loads the alert,       *)
(* acknowledges it and answers; or finds it acknowledged and answers that.   *)
AcknowledgeHandled(id) ==
  /\ acks[id] = Sent
  /\ \/ acks' = [acks EXCEPT ![id] = Failed] /\ UNCHANGED <<service, pushed, missed>>
     \/ \E row \in loaded(id) :
          /\ acks' = [acks EXCEPT ![id] = acknowledged(row)]
          /\ IF row.status = "ACKNOWLEDGED"
             THEN UNCHANGED <<service, pushed, missed>>
             ELSE store(id, acknowledged(row), "alert:ack")
  /\ UNCHANGED <<feed, seed, crashes>>

(* Mutant: a refused acknowledgement leaves the row as it is. *)
AcknowledgeAnswerIgnored(id) ==
  /\ acks[id] \notin {NoAlert, Sent}
  /\ acks' = [acks EXCEPT ![id] = NoAlert]
  /\ feed' = IF acks[id] = Failed THEN feed ELSE applyAck(feed, id, acks[id])
  /\ UNCHANGED <<service, pushed, missed, seed, crashes>>

AcknowledgeAnswer(id) ==
  /\ acks[id] \notin {NoAlert, Sent}
  /\ acks' = [acks EXCEPT ![id] = NoAlert]
  /\ feed' = IF acks[id] = Failed THEN failAcknowledge(feed, id)
                                  ELSE applyAck(feed, id, acks[id])
  /\ UNCHANGED <<service, pushed, missed, seed, crashes>>

(* A row throws while rendering: twice it is tried again, then it is logged  *)
(* and an error row stands in for it.                                        *)
RowCrashes(id) ==
  /\ feed[id] # NoItem
  /\ nextDisplayAction(crashes[id]) = "retry"
  /\ crashes' = [crashes EXCEPT ![id] = @ + 1]
  /\ UNCHANGED <<service, pushed, missed, feed, seed, acks>>

FeedNext ==
  \/ \E id \in Alerts : \/ Raise(id) \/ Escalate(id) \/ AcknowledgedElsewhere(id)
                        \/ AcknowledgeClick(id) \/ AcknowledgeHandled(id)
                        \/ AcknowledgeAnswer(id) \/ RowCrashes(id)
  \/ SocketReconnects \/ Pushed \/ ListHandled \/ Seeded

-----------------------------------------------------------------------------
FeedTypeOK ==
  /\ service \in [Alerts -> Alert \cup {NoAlert}]
  /\ feed \in [Alerts -> [alert : Alert \cup {NoAlert}, acknowledging : BOOLEAN]]
  /\ crashes \in [Alerts -> 0..DEFAULT_MAX_DISPLAY_RETRIES]
  /\ missed \subseteq Alerts

(* Whatever the order in which pushes, the list and the answers arrive, an   *)
(* alert on screen never steps back: not from acknowledged to escalated, nor *)
(* to a lower level.                                                         *)
FeedNeverRegresses ==
  [][\A id \in Alerts :
       (page = alertsPage /\ feed[id] # NoItem /\ feed'[id] # NoItem) =>
         ~ isNewerAlert(feed'[id].alert, feed[id].alert)]_<<page, feed>>

(* Everything the service has told the page of an alert has arrived. *)
CaughtUp(id) ==
  /\ page = alertsPage /\ seed.status = "none" /\ id \notin missed
  /\ \A e \in pushed : e.id # id

(* A row that shows "Acknowledging", its button disabled, has a call in      *)
(* flight that will end it, and while one is in flight the row has no button *)
(* to send another; and once the page has caught up, a row is shown for each *)
(* alert, and it is not behind the stored one: no escalated, acknowledged or *)
(* closed alert still looks open, and none shows too low a level before it   *)
(* is acknowledged.  It may be ahead: an acknowledgement that an overlapping *)
(* sweep has undone stays on screen.                                         *)
FeedIsHonest ==
  FeedTypeOK /\ \A id \in Alerts :
    /\ feed[id].acknowledging => acks[id] # NoAlert
    /\ acks[id] # NoAlert => feed[id].acknowledging \/ ~isActionable(feed[id])
    /\ CaughtUp(id) /\ service[id] # NoAlert =>
         /\ feed[id] # NoItem
         /\ \/ feed[id].alert.status = "ACKNOWLEDGED" /\ service[id].status = "ACKNOWLEDGED"
            \/ ~isNewerAlert(feed[id].alert, service[id])
=============================================================================
