--------------------------- MODULE AlertLifecycle ---------------------------
(***************************************************************************)
(* What the alert-notification service promises about a single alert row,  *)
(* with no processes, timers or failures: it is raised OPEN at level 0,    *)
(* climbs the escalation chain of the rule in force one contact at a time, *)
(* becomes ESCALATED when the chain is used up, and may be acknowledged    *)
(* once, by one user.  Escalation.tla is checked to implement it when the  *)
(* calls of the service do not overlap.                                    *)
(***************************************************************************)
EXTENDS Naturals

CONSTANTS Alerts, Users, NoUser, Rules, Seeded

VARIABLE rows   \* rows[a]: the persisted row of alert a

NoRow == [status |-> "ABSENT", level |-> 0, by |-> NoUser]

(***************************************************************************)
(* The demonstration data set writes CLOSED rows; every other alert is     *)
(* still to be raised.                                                     *)
(***************************************************************************)
Init ==
  \E u \in Users :
    rows = [a \in Alerts |-> IF a \in Seeded
                             THEN [status |-> "CLOSED", level |-> 0, by |-> u]
                             ELSE NoRow]

Raise(a) ==
  /\ rows[a].status = "ABSENT"
  /\ rows' = [rows EXCEPT ![a] = [status |-> "OPEN", level |-> 0, by |-> NoUser]]

Escalate(a) ==
  /\ rows[a].status = "OPEN"
  /\ \E r \in Rules :
       /\ rows[a].level < r.chain
       /\ rows' = [rows EXCEPT
                     ![a].level = @ + 1,
                     ![a].status = IF rows[a].level + 1 = r.chain
                                   THEN "ESCALATED" ELSE "OPEN"]

(* The chain in force has no contact left for this alert. *)
Exhaust(a) ==
  /\ rows[a].status = "OPEN"
  /\ \E r \in Rules : rows[a].level >= r.chain
  /\ rows' = [rows EXCEPT ![a].status = "ESCALATED"]

Acknowledge(a, u) ==
  /\ rows[a].status \in {"OPEN", "ESCALATED"}
  /\ rows' = [rows EXCEPT ![a].status = "ACKNOWLEDGED", ![a].by = u]

Next ==
  \E a \in Alerts :
    \/ Raise(a)
    \/ Escalate(a)
    \/ Exhaust(a)
    \/ \E u \in Users : Acknowledge(a, u)

Spec == Init /\ [][Next]_rows
=============================================================================
