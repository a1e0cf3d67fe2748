---------------------------- MODULE FleetProofs -----------------------------
(***************************************************************************)
(* Theorems about Fleet, for every set of drones, components, statuses,    *)
(* increments and thresholds, and any number of overlapping calls, flushes *)
(* and crashes.                                                            *)
(***************************************************************************)
EXTENDS Fleet, FiniteSetTheorems, FunctionTheorems, SequenceTheorems, TLAPS

-----------------------------------------------------------------------------
(* Lists of events without repetition *)

Distinct(s) == \A i, j \in 1..Len(s) : s[i] = s[j] => i = j

(* A list that loses its head loses just that event. *)
LEMMA PopList ==
  ASSUME NEW s \in Seq(Nat), s # <<>>, Distinct(s)
  PROVE  /\ Tail(s) \in Seq(Nat) /\ Distinct(Tail(s))
         /\ Head(s) \in elements(s) /\ Head(s) \in Nat
         /\ elements(Tail(s)) = elements(s) \ {Head(s)}
         /\ Len(s) = 1 => Tail(s) = <<>>
         /\ Len(s) # 1 => Tail(s) # <<>>
  <1>1. Len(s) \in Nat \ {0} /\ Head(s) = s[1]
    BY EmptySeq
  <1>2. /\ Tail(s) \in Seq(Nat) /\ Len(Tail(s)) = Len(s) - 1 /\ Head(s) \in Nat
        /\ \A i \in 1..Len(Tail(s)) : Tail(s)[i] = s[i + 1]
    BY HeadTailProperties
  <1>3. ASSUME NEW i \in 1..Len(Tail(s)), NEW j \in 1..Len(Tail(s)), Tail(s)[i] = Tail(s)[j]
        PROVE  i = j
    <2>1. i + 1 \in 1..Len(s) /\ j + 1 \in 1..Len(s) /\ s[i + 1] = s[j + 1]
      BY <1>1, <1>2, <1>3
    <2>2. i + 1 = j + 1
      BY <2>1 DEF Distinct
    <2>3. QED BY <1>1, <1>2, <2>2
  <1>4. ASSUME NEW e \in elements(Tail(s)) PROVE e \in elements(s) \ {Head(s)}
    <2>1. PICK i \in 1..Len(Tail(s)) : e = s[i + 1]
      BY <1>2, <1>4 DEF elements
    <2>2. i + 1 \in 1..Len(s) /\ 1 \in 1..Len(s) /\ i + 1 # 1
      BY <1>1, <1>2, <2>1
    <2>3. s[i + 1] # s[1]
      BY <2>2 DEF Distinct
    <2>4. QED BY <1>1, <2>1, <2>2, <2>3 DEF elements
  <1>5. ASSUME NEW e \in elements(s), e # Head(s) PROVE e \in elements(Tail(s))
    <2>1. PICK i \in 1..Len(s) : e = s[i]
      BY DEF elements
    <2>2. i - 1 \in 1..Len(Tail(s)) /\ Tail(s)[i - 1] = s[(i - 1) + 1] /\ (i - 1) + 1 = i
      BY <1>1, <1>2, <1>5, <2>1
    <2>3. QED BY <2>1, <2>2 DEF elements
  <1>6. /\ Len(s) = 1 => Tail(s) = <<>>
        /\ Len(s) # 1 => Tail(s) # <<>>
    <2>1. Tail(s) # <<>> => Len(Tail(s)) # 0
      BY <1>2, EmptySeq
    <2>2. Tail(s) = <<>> => Len(Tail(s)) = 0
      BY EmptySeq
    <2>3. QED BY <1>1, <1>2, <2>1, <2>2
  <1>7. elements(Tail(s)) = elements(s) \ {Head(s)}
    BY <1>4, <1>5
  <1>8. Distinct(Tail(s))
    BY <1>3 DEF Distinct
  <1>9. Head(s) \in elements(s)
    BY <1>1 DEF elements
  <1>10. QED BY <1>2, <1>6, <1>7, <1>8, <1>9

(* A list that gains a new event holds that one besides. *)
LEMMA PushList ==
  ASSUME NEW s \in Seq(Nat), Distinct(s), NEW e \in Nat, e \notin elements(s)
  PROVE  /\ Append(s, e) \in Seq(Nat) /\ Distinct(Append(s, e))
         /\ elements(Append(s, e)) = elements(s) \cup {e}
  <1> DEFINE t == Append(s, e)
  <1>1. /\ t \in Seq(Nat) /\ Len(t) = Len(s) + 1 /\ Len(s) \in Nat
        /\ \A i \in 1..Len(s) : t[i] = s[i]
        /\ t[Len(s) + 1] = e
    BY AppendProperties, LenProperties
  <1> HIDE DEF t
  <1>2. \A i \in 1..Len(t) : i \in 1..Len(s) \/ i = Len(s) + 1
    BY <1>1
  <1>3. \A i \in 1..Len(s) : s[i] # e
    BY DEF elements
  <1>4. Distinct(t)
    BY <1>1, <1>2, <1>3 DEF Distinct
  <1>5. elements(t) = elements(s) \cup {e}
    BY SMTT(30), <1>1, <1>2 DEF elements
  <1>6. QED BY <1>1, <1>4, <1>5 DEF t

(* The list without events. *)
LEMMA EmptyList == <<>> \in Seq(Nat) /\ Distinct(<<>>) /\ elements(<<>>) = {}
  BY DEF Distinct, elements

(* The ids of n events that follow N others. *)
LEMMA FreshList ==
  ASSUME NEW N \in Nat, NEW n \in Nat
  PROVE  LET s == [i \in 1..n |-> N + i]
         IN  /\ s \in Seq(Nat) /\ Len(s) = n /\ Distinct(s)
             /\ elements(s) = {i \in 1..N + n : i > N}
             /\ n # 0 => s # <<>>
  <1> DEFINE s == [i \in 1..n |-> N + i]
  <1>1. s \in Seq(Nat) /\ Len(s) = n
    OBVIOUS
  <1>2. \A i \in 1..n : s[i] = N + i
    OBVIOUS
  <1> HIDE DEF s
  <1>3. Distinct(s)
    BY <1>1, <1>2 DEF Distinct
  <1>4. ASSUME NEW e \in 1..N + n, e > N PROVE e \in elements(s)
    <2>1. e - N \in 1..n /\ N + (e - N) = e
      BY <1>4
    <2>2. s[e - N] = e
      BY <1>2, <2>1
    <2>3. QED BY <1>1, <2>1, <2>2 DEF elements
  <1>5. ASSUME NEW e \in elements(s) PROVE e \in 1..N + n /\ e > N
    BY SMTT(30), <1>1, <1>2 DEF elements
  <1>6. n # 0 => s # <<>>
    BY <1>1, EmptySeq
  <1>7. QED BY <1>1, <1>3, <1>4, <1>5, <1>6 DEF s

(* The components that become due, one after the other. *)
LEMMA SetAsList ==
  ASSUME NEW S, IsFiniteSet(S)
  PROVE  /\ seqOf(S) \in Seq(S)
         /\ \A c \in S : \E i \in 1..Len(seqOf(S)) : seqOf(S)[i] = c
         /\ Len(seqOf(S)) \in Nat
  <1> DEFINE n == Cardinality(S)
  <1>1. n \in Nat /\ ExistsBijection(1..n, S)
    BY FS_CardinalityType
  <1>2. PICK f : f \in Bijection(1..n, S)
    BY <1>1 DEF ExistsBijection
  <1>3. f \in [1..n -> S] /\ \A a, b \in 1..n : f[a] = f[b] => a = b
    <2>1. f \in Injection(1..n, S)
      BY <1>2 DEF Bijection
    <2>2. QED BY <2>1, Fun_InjectionProperties
  <1>4. \A i, j \in DOMAIN f : i # j => f[i] # f[j]
    BY <1>3
  <1> DEFINE s == seqOf(S)
  <1>5. s \in [1..n -> S] /\ \A i, j \in DOMAIN s : i # j => s[i] # s[j]
    BY <1>3, <1>4 DEF seqOf
  <1> HIDE DEF s
  <1>6. s \in Injection(1..n, S)
    BY <1>5, Fun_IsInj
  <1>7. Cardinality(1..n) = n
    BY <1>1, FS_Interval
  <1>8. s \in Surjection(1..n, S)
    BY <1>6, <1>7, FS_Injection
  <1>9. \A c \in S : \E i \in 1..n : s[i] = c
    BY <1>8 DEF Surjection
  <1>10. s \in Seq(S) /\ Len(s) = n
    BY <1>1, <1>5
  <1>11. QED BY <1>1, <1>9, <1>10 DEF s

-----------------------------------------------------------------------------
(* Events in places *)

(* Each of the N events is in one of the places of P. *)
OnePlace(P, N) ==
  /\ \A x \in Places : P[x] \subseteq 1..N
  /\ \A i \in 1..N : \E x \in Places : i \in P[x]
  /\ \A i \in 1..N : \A x, y \in Places : i \in P[x] /\ i \in P[y] => x = y

(* Events that leave where they are for one place are still in one place. *)
LEMMA Moved ==
  ASSUME NEW N \in Nat, NEW P, NEW Q, OnePlace(P, N),
         NEW M \in SUBSET (1..N), NEW b \in Places,
         \A x \in Places \ {b} : Q[x] = P[x] \ M,
         Q[b] = P[b] \cup M
  PROVE  OnePlace(Q, N)
  <1>1. \A x \in Places : Q[x] \subseteq 1..N
    BY DEF OnePlace
  <1>2. ASSUME NEW i \in 1..N PROVE \E x \in Places : i \in Q[x]
    BY DEF OnePlace
  <1>3. ASSUME NEW i \in 1..N, NEW x \in Places, NEW y \in Places, i \in Q[x], i \in Q[y]
        PROVE  x = y
    <2>1. CASE i \in M
      BY <1>3, <2>1
    <2>2. CASE i \notin M
      BY <1>3, <2>2 DEF OnePlace
    <2>3. QED BY <2>1, <2>2
  <1>4. QED BY <1>1, <1>2, <1>3 DEF OnePlace

(* New events that are put in one place are in one place. *)
LEMMA Issued ==
  ASSUME NEW N \in Nat, NEW n \in Nat, NEW P, NEW Q, OnePlace(P, N), NEW b \in Places,
         \A x \in Places \ {b} : Q[x] = P[x],
         Q[b] = P[b] \cup {i \in 1..N + n : i > N}
  PROVE  OnePlace(Q, N + n)
  <1>1. \A i \in 1..N + n : i \in 1..N \/ i > N
    OBVIOUS
  <1>2. \A i \in 1..N : i \in 1..N + n /\ ~(i > N)
    OBVIOUS
  <1>3. \A x \in Places : Q[x] \subseteq 1..N + n
    BY <1>2 DEF OnePlace
  <1>4. \A i \in 1..N + n : \E x \in Places : i \in Q[x]
    BY <1>1 DEF OnePlace
  <1>5. ASSUME NEW i \in 1..N + n, NEW x \in Places, NEW y \in Places, i \in Q[x], i \in Q[y]
        PROVE  x = y
    <2>1. CASE i \in 1..N
      BY <1>2, <1>5, <2>1 DEF OnePlace
    <2>2. CASE i > N
      <3>1. \A z \in Places : i \notin P[z]
        BY <1>2, <2>2 DEF OnePlace
      <3>2. QED BY <1>5, <3>1
    <2>3. QED BY <1>1, <2>1, <2>2
  <1>6. QED BY <1>3, <1>4, <1>5 DEF OnePlace

-----------------------------------------------------------------------------
(* Types *)

Pcs == {"idle", "insert", "load", "save", "usage", "record", "publish"}

Change == [status : Statuses \cup {Unset}, model : Models \cup {Unset}]

Call == [pc : Pcs, drone : Drones \cup {Unset}, expected : Nat, changes : Change,
         previous : Row, entity : Row, base : Lifecycle, events : Seq(Nat)]

StatusEvent == [kind : {"status"}, drone : Drones, previousStatus : Statuses \cup {Unset},
                status : Statuses \cup {Unset}, version : Nat]

MaintenanceEvent == [kind : {"maintenance"}, drone : Drones, component : Components]

Types ==
  /\ drone \in [Drones -> Row]
  /\ lifecycle \in [Drones -> Lifecycle]
  /\ call \in [Calls -> Call]
  /\ \A k \in Calls : call[k].pc \in {"insert", "load", "save", "usage", "record"} =>
                       call[k].drone \in Drones
  /\ queue \in Seq(Nat)
  /\ flush \in [Flushes -> Seq(Nat)]
  /\ issued \in Seq(StatusEvent \cup MaintenanceEvent)
  /\ begun \in 0..MaxCalls

(* Lists hold an event once; only a call that publishes holds any. *)
Lists ==
  /\ Distinct(queue)
  /\ \A f \in Flushes : Distinct(flush[f])
  /\ \A k \in Calls : Distinct(call[k].events)
  /\ \A k \in Calls : call[k].events # <<>> <=> call[k].pc = "publish"

Where == Types /\ Lists /\ OnePlace(place, Len(issued))

(* The records that stand for "no call", "no drone" and "no lifecycle". *)
LEMMA IdleCall ==
  /\ Idle \in Call /\ Idle.events = <<>> /\ Idle.pc = "idle"
  /\ NoDrone \in Row /\ NoLifecycle \in Lifecycle
  <1>1. NoDrone \in Row
    BY DEF NoDrone, Row, Unset
  <1>2. NoLifecycle \in Lifecycle
    BY FleetAssumption DEF NoLifecycle, Lifecycle
  <1>3. NoChange \in Change
    BY DEF NoChange, Change
  <1>4. "idle" \in Pcs /\ <<>> \in Seq(Nat) /\ NoVersion \in Nat
    BY DEF Pcs, NoVersion
  <1>5. QED BY <1>1, <1>2, <1>3, <1>4 DEF Idle, Call

-----------------------------------------------------------------------------
(* What becomes of the events in each kind of step *)

(* The ids each place holds. *)
LEMMA PlaceOf ==
  /\ place["queue"] = elements(queue) /\ place["delivered"] = delivered
  /\ place["lost"] = lost
  /\ \A f \in Flushes : place[f] = elements(flush[f])
  /\ \A k \in Calls : place[k] = elements(call[k].events)
  /\ {"queue", "delivered", "lost"} \subseteq Places
  /\ Flushes \subseteq Places /\ Calls \subseteq Places
  BY FleetAssumption DEF place, Places

(* The ids each place holds after a step. *)
LEMMA PlaceOfNext ==
  /\ place'["queue"] = elements(queue') /\ place'["delivered"] = delivered'
  /\ place'["lost"] = lost'
  /\ \A f \in Flushes : place'[f] = elements(flush'[f])
  /\ \A k \in Calls : place'[k] = elements(call'[k].events)
  BY FleetAssumption DEF place, Places, elements

(* A place is of one kind only. *)
LEMMA PlacesApart ==
  ASSUME NEW x \in Places
  PROVE  \/ x = "queue" /\ x \notin Flushes \cup Calls
         \/ x = "delivered" /\ x \notin Flushes \cup Calls
         \/ x = "lost" /\ x \notin Flushes \cup Calls
         \/ x \in Flushes /\ x \notin Calls /\ x \notin {"queue", "delivered", "lost"}
         \/ x \in Calls /\ x \notin Flushes /\ x \notin {"queue", "delivered", "lost"}
  BY FleetAssumption DEF Places

(* The ids given out can be counted. *)
LEMMA IssuedLength ==
  ASSUME Types PROVE Len(issued) \in Nat
  BY LenProperties DEF Types

(* A call that goes on without issuing or publishing anything. *)
LEMMA QuietStep ==
  ASSUME Where, NEW k \in Calls, NEW r \in Call, goto(k, r),
         call[k].pc # "publish", r.pc # "publish", r.events = <<>>,
         r.pc = "idle" \/ r.drone \in Drones,
         UNCHANGED <<publisher, issued>>,
         drone' \in [Drones -> Row], lifecycle' \in [Drones -> Lifecycle],
         begun' \in 0..MaxCalls
  PROVE  Where'
  <1> USE DEF Where
  <1>1. /\ call' = [call EXCEPT ![k] = r] /\ call \in [Calls -> Call]
        /\ UNCHANGED <<queue, flush, delivered, lost>>
    BY DEF goto, publisher, Types
  <1>2. /\ call'[k] = r /\ call' \in [Calls -> Call]
        /\ \A l \in Calls \ {k} : call'[l] = call[l]
    BY <1>1
  <1>3. Types'
    <2>1. \A l \in Calls : call'[l].pc \in {"insert", "load", "save", "usage", "record"} =>
                           call'[l].drone \in Drones
      BY <1>2 DEF Types
    <2>2. QED BY <1>1, <1>2, <2>1 DEF Types
  <1>4. \A l \in Calls : call'[l].events = call[l].events
    BY <1>2 DEF Lists
  <1>5. Lists'
    BY <1>1, <1>2, <1>4, EmptyList DEF Lists
  <1>6. \A x \in Places : place'[x] = place[x]
    BY <1>1, <1>4, PlaceOf, PlaceOfNext, PlacesApart
  <1>7. QED BY <1>3, <1>5, <1>6 DEF OnePlace

(* A call that has saved issues its events and holds them. *)
LEMMA IssueStep ==
  ASSUME Where, NEW k \in Calls, call[k].pc # "publish",
         NEW events \in Seq(StatusEvent \cup MaintenanceEvent),
         issue(k, call[k], events),
         UNCHANGED <<publisher, begun>>,
         drone' \in [Drones -> Row], lifecycle' \in [Drones -> Lifecycle]
  PROVE  Where'
  <1> USE DEF Where
  <1> DEFINE N == Len(issued)  n == Len(events)  ids == [i \in 1..n |-> N + i]
  <1>1. N \in Nat /\ n \in Nat
    BY IssuedLength, LenProperties
  <1>2. PICK M \in Nat : M = N
    BY <1>1
  <1>3. PICK list : list = [i \in 1..n |-> M + i]
    OBVIOUS
  <1>4. /\ list \in Seq(Nat) /\ Distinct(list) /\ Len(list) = n
        /\ elements(list) = {i \in 1..M + n : i > M}
        /\ n # 0 => list # <<>>
    BY <1>1, <1>2, <1>3, FreshList
  <1>5. /\ issued \in Seq(StatusEvent \cup MaintenanceEvent)
        /\ issued' = issued \o events
    BY DEF Types, issue
  <1>6. /\ issued' \in Seq(StatusEvent \cup MaintenanceEvent) /\ Len(issued') = M + n
    BY <1>2, <1>5, ConcatProperties
  <1>7. PICK r \in Call :
          /\ call' = [call EXCEPT ![k] = r]
          /\ r.events = (IF events = <<>> THEN <<>> ELSE list)
          /\ r.pc = (IF events = <<>> THEN "idle" ELSE "publish")
    <2>1. CASE events = <<>>
      BY <2>1, IdleCall DEF issue, goto
    <2>2. CASE events # <<>>
      <3>1. [call[k] EXCEPT !.pc = "publish", !.events = list] \in Call
        <4>1. call[k] \in Call /\ "publish" \in Pcs
          BY DEF Types, Pcs
        <4>2. QED BY <1>4, <4>1 DEF Call
      <3>2. call' = [call EXCEPT ![k] = [call[k] EXCEPT !.pc = "publish", !.events = list]]
        BY <1>2, <1>3, <2>2 DEF issue, goto
      <3>3. call[k] \in Call
        BY DEF Types
      <3>4. QED BY <2>2, <3>1, <3>2, <3>3 DEF Call
    <2>3. QED BY <2>1, <2>2
  <1>8. /\ r.events \in Seq(Nat) /\ Distinct(r.events)
        /\ elements(r.events) = {i \in 1..M + n : i > M}
        /\ r.events # <<>> <=> r.pc = "publish"
    <2>1. CASE events = <<>>
      <3>1. n = 0
        BY <2>1
      <3>2. {i \in 1..M + n : i > M} = {}
        BY <1>2, <3>1
      <3>3. QED BY <1>7, <2>1, <3>2, EmptyList
    <2>2. CASE events # <<>>
      <3>1. n # 0
        BY <2>2, EmptySeq
      <3>2. QED BY <1>4, <1>7, <2>2, <3>1
    <2>3. QED BY <2>1, <2>2
  <1>9. /\ call \in [Calls -> Call]
        /\ UNCHANGED <<queue, flush, delivered, lost>>
    BY DEF publisher, Types
  <1>10. /\ call'[k] = r /\ call' \in [Calls -> Call]
         /\ \A l \in Calls \ {k} : call'[l] = call[l]
    BY <1>7, <1>9
  <1>11. Types'
    <2>1. \A l \in Calls : call'[l].pc \in {"insert", "load", "save", "usage", "record"} =>
                           call'[l].drone \in Drones
      BY <1>7, <1>10 DEF Types
    <2>2. QED BY <1>6, <1>9, <1>10, <2>1 DEF Types
  <1>12. Lists'
    BY <1>8, <1>9, <1>10 DEF Lists
  <1>13. /\ \A x \in Places \ {k} : place'[x] = place[x]
         /\ place'[k] = place[k] \cup {i \in 1..M + n : i > M}
    <2>1. place[k] = {} /\ k \in Places
      BY PlaceOf, EmptyList DEF Lists
    <2>2. place'[k] = {i \in 1..M + n : i > M}
      BY <1>8, <1>10, PlaceOfNext
    <2>3. \A x \in Places \ {k} : place'[x] = place[x]
      BY <1>9, <1>10, PlaceOf, PlaceOfNext, PlacesApart
    <2>4. QED BY <2>1, <2>2, <2>3
  <1>14. OnePlace(place', M + n)
    <2>1. OnePlace(place, M) /\ k \in Places
      BY <1>2, PlaceOf
    <2> HIDE DEF n
    <2>2. QED BY <1>1, <1>13, <2>1, Issued
  <1>15. QED BY <1>6, <1>11, <1>12, <1>14 DEF OnePlace

(* An event that a call publishes leaves its list. *)
LEMMA PublishStep ==
  ASSUME Where, NEW k \in Calls, PublishOk(k) \/ PublishFails(k)
  PROVE  Where'
  <1> USE DEF Where
  <1>1. /\ call[k].pc = "publish" /\ published(k)
        /\ UNCHANGED <<drone, lifecycle, flush, lost, begun, issued>>
    BY DEF PublishOk, PublishFails, store
  <1>2. PICK r \in Call : r = call[k]
    BY DEF Types
  <1>3. r.events \in Seq(Nat) /\ r.events # <<>> /\ Distinct(r.events)
    BY <1>1, <1>2 DEF Call, Lists
  <1>4. PICK e \in Nat : e = Head(r.events)
    BY <1>3, PopList
  <1>5. /\ Tail(r.events) \in Seq(Nat) /\ Distinct(Tail(r.events)) /\ e \in elements(r.events)
        /\ elements(Tail(r.events)) = elements(r.events) \ {e}
        /\ Len(r.events) = 1 => Tail(r.events) = <<>>
        /\ Len(r.events) # 1 => Tail(r.events) # <<>>
    BY <1>3, <1>4, PopList
  <1>6. PICK t \in Call : /\ call' = [call EXCEPT ![k] = t] /\ t.events = Tail(r.events)
                          /\ t.events # <<>> <=> t.pc = "publish"
                          /\ t.pc \in {"idle", "publish"}
    <2>1. CASE Len(r.events) = 1
      BY <1>2, <1>5, <2>1, IdleCall, <1>1 DEF published, goto
    <2>2. CASE Len(r.events) # 1
      <3>1. [r EXCEPT !.events = Tail(@)] \in Call
        BY <1>5 DEF Call
      <3>2. call' = [call EXCEPT ![k] = [r EXCEPT !.events = Tail(@)]]
        BY <1>1, <1>2, <2>2 DEF published, goto
      <3>3. [r EXCEPT !.events = Tail(@)].events = Tail(r.events)
            /\ [r EXCEPT !.events = Tail(@)].pc = "publish"
        BY <1>1, <1>2 DEF Call
      <3>4. QED BY <1>5, <2>2, <3>1, <3>2, <3>3
    <2>3. QED BY <2>1, <2>2
  <1>7. /\ call \in [Calls -> Call] /\ call'[k] = t /\ call' \in [Calls -> Call]
        /\ \A l \in Calls \ {k} : call'[l] = call[l]
    BY <1>6 DEF Types
  <1>8. /\ k \in Places /\ place[k] = elements(r.events) /\ place'[k] = place[k] \ {e}
        /\ e \in place[k] /\ place[k] \subseteq 1..Len(issued)
    BY <1>2, <1>5, <1>6, <1>7, PlaceOf, PlaceOfNext DEF OnePlace
  <1>9. \A x \in Places \ {k} : e \notin place[x]
    BY <1>8 DEF OnePlace
  <1>10. PICK b \in {"queue", "delivered"} :
           /\ place'[b] = place[b] \cup {e}
           /\ \A x \in Places \ {k, b} : place'[x] = place[x]
           /\ queue' \in Seq(Nat) /\ Distinct(queue')
    <2>1. CASE PublishOk(k)
      <3>1. delivered' = delivered \cup {e} /\ queue' = queue
        BY <1>2, <1>4, <2>1 DEF PublishOk
      <3>2. \A x \in Places \ {k, "delivered"} : place'[x] = place[x]
        BY <1>1, <1>7, <3>1, PlaceOf, PlaceOfNext, PlacesApart
      <3>3. place'["delivered"] = place["delivered"] \cup {e}
        BY <3>1, PlaceOf, PlaceOfNext
      <3>4. QED BY <3>1, <3>2, <3>3 DEF Types, Lists
    <2>2. CASE PublishFails(k)
      <3>1. queue' = Append(queue, e) /\ delivered' = delivered
        BY <1>2, <1>4, <2>2 DEF PublishFails
      <3>2. e \notin elements(queue)
        BY <1>8, <1>9, PlaceOf, FleetAssumption
      <3>3. /\ queue' \in Seq(Nat) /\ Distinct(queue')
            /\ elements(queue') = elements(queue) \cup {e}
        BY <3>1, <3>2, PushList DEF Types, Lists
      <3>4. \A x \in Places \ {k, "queue"} : place'[x] = place[x]
        BY <1>1, <1>7, <3>1, PlaceOf, PlaceOfNext, PlacesApart
      <3>5. place'["queue"] = place["queue"] \cup {e}
        BY <3>3, PlaceOf, PlaceOfNext
      <3>6. QED BY <3>3, <3>4, <3>5
    <2>3. QED BY <2>1, <2>2
  <1>11. OnePlace(place', Len(issued))
    <2>1. b # k /\ b \in Places
      BY FleetAssumption, PlaceOf
    <2>2. \A x \in Places \ {b} : place'[x] = place[x] \ {e}
      BY <1>8, <1>9, <1>10
    <2>3. {e} \in SUBSET (1..Len(issued)) /\ Len(issued) \in Nat
      BY <1>8, IssuedLength
    <2>4. OnePlace(place, Len(issued)) /\ place'[b] = place[b] \cup {e}
      BY <1>10
    <2>5. QED BY <2>1, <2>2, <2>3, <2>4, Moved
  <1>12. Types'
    <2>1. \A l \in Calls : call'[l].pc \in {"insert", "load", "save", "usage", "record"} =>
                           call'[l].drone \in Drones
      BY <1>6, <1>7 DEF Types
    <2>2. QED BY <1>1, <1>7, <1>10, <2>1 DEF Types
  <1>13. Lists'
    BY <1>1, <1>5, <1>6, <1>7, <1>10 DEF Lists
  <1>14. QED BY <1>1, <1>11, <1>12, <1>13

(* A flush takes the whole queue; each of its items is delivered or queued  *)
(* again, while others are queued and other flushes run.                    *)
LEMMA FlushStep ==
  ASSUME Where, NEW f \in Flushes, Flush(f)
  PROVE  Where'
  <1> USE DEF Where
  <1>1. UNCHANGED <<drone, lifecycle, call, lost, begun, issued>>
    BY DEF Flush, FlushBegin, FlushDelivers, FlushFails, store
  <1>2. flush \in [Flushes -> Seq(Nat)] /\ queue \in Seq(Nat) /\ Len(issued) \in Nat
    BY IssuedLength DEF Types
  <1>3. PICK s \in Seq(Nat) : s = flush[f]
    BY <1>2
  <1>4. Distinct(s) /\ f \in Places /\ place[f] = elements(s)
    BY <1>3, PlaceOf DEF Lists
  <1>5. CASE FlushBegin(f)
    <2>1. /\ s = <<>> /\ flush' = [flush EXCEPT ![f] = queue] /\ queue' = <<>>
          /\ delivered' = delivered
      BY <1>3, <1>5 DEF FlushBegin
    <2>2. /\ flush'[f] = queue /\ \A g \in Flushes \ {f} : flush'[g] = flush[g]
          /\ flush' \in [Flushes -> Seq(Nat)]
      BY <1>2, <2>1
    <2>3. Types' /\ Lists'
      BY <1>1, <2>1, <2>2, EmptyList DEF Types, Lists
    <2>4. f # "queue" /\ "queue" \in Places
      BY FleetAssumption, PlaceOf
    <2>5. /\ place'[f] = place["queue"] /\ place[f] = {} /\ place'["queue"] = {}
          /\ \A x \in Places \ {f, "queue"} : place'[x] = place[x]
      BY <1>1, <1>4, <2>1, <2>2, EmptyList, PlaceOf, PlaceOfNext, PlacesApart
    <2>6. \A x \in Places \ {f} : place'[x] = place[x] \ place["queue"]
      BY <1>4, <2>4, <2>5 DEF OnePlace
    <2>7. place["queue"] \in SUBSET (1..Len(issued))
      BY <2>4 DEF OnePlace
    <2>8. place'[f] = place[f] \cup place["queue"]
      BY <2>5
    <2>9. OnePlace(place, Len(issued))
      OBVIOUS
    <2>10. OnePlace(place', Len(issued))
      BY <1>2, <1>4, <2>6, <2>7, <2>8, <2>9, Moved
    <2>11. QED BY <1>1, <2>3, <2>10
  <1>6. CASE FlushDelivers(f) \/ FlushFails(f)
    <2>1. s # <<>> /\ flush' = [flush EXCEPT ![f] = Tail(s)]
      BY <1>3, <1>6 DEF FlushDelivers, FlushFails
    <2>2. PICK e \in Nat : e = Head(s)
      BY <1>4, <2>1, PopList
    <2>3. /\ Tail(s) \in Seq(Nat) /\ Distinct(Tail(s)) /\ e \in elements(s)
          /\ elements(Tail(s)) = elements(s) \ {e}
      BY <1>4, <2>1, <2>2, PopList
    <2>4. /\ flush'[f] = Tail(s) /\ \A g \in Flushes \ {f} : flush'[g] = flush[g]
          /\ flush' \in [Flushes -> Seq(Nat)]
      BY <1>2, <2>1, <2>3
    <2>5. /\ place'[f] = place[f] \ {e} /\ e \in place[f] /\ place[f] \subseteq 1..Len(issued)
      BY <1>4, <2>3, <2>4, PlaceOfNext DEF OnePlace
    <2>6. \A x \in Places \ {f} : e \notin place[x]
      BY <1>4, <2>5 DEF OnePlace
    <2>7. PICK b \in {"queue", "delivered"} :
             /\ place'[b] = place[b] \cup {e}
             /\ \A x \in Places \ {f, b} : place'[x] = place[x]
             /\ queue' \in Seq(Nat) /\ Distinct(queue')
      <3>1. CASE FlushDelivers(f)
        <4>1. delivered' = delivered \cup {e} /\ queue' = queue
          BY <1>3, <2>2, <3>1 DEF FlushDelivers
        <4>2. \A x \in Places \ {f, "delivered"} : place'[x] = place[x]
          BY SMTT(30), <1>1, <2>4, <4>1, PlaceOf, PlaceOfNext, PlacesApart
        <4>3. place'["delivered"] = place["delivered"] \cup {e}
          BY <4>1, PlaceOf, PlaceOfNext
        <4>4. QED BY <4>1, <4>2, <4>3 DEF Types, Lists
      <3>2. CASE FlushFails(f)
        <4>1. queue' = Append(queue, e) /\ delivered' = delivered
          BY <1>3, <2>2, <3>2 DEF FlushFails
        <4>2. e \notin elements(queue)
          BY <2>5, <2>6, PlaceOf, FleetAssumption
        <4>3. /\ queue' \in Seq(Nat) /\ Distinct(queue')
              /\ elements(queue') = elements(queue) \cup {e}
          BY <4>1, <4>2, PushList DEF Types, Lists
        <4>4. \A x \in Places \ {f, "queue"} : place'[x] = place[x]
          BY ZenonT(60), <1>1, <2>4, <4>1, PlaceOf, PlaceOfNext, PlacesApart
        <4>5. place'["queue"] = place["queue"] \cup {e}
          BY <4>3, PlaceOf, PlaceOfNext
        <4>6. QED BY <4>3, <4>4, <4>5
      <3>3. QED BY <1>6, <3>1, <3>2
    <2>8. OnePlace(place', Len(issued))
      <3>1. b # f /\ b \in Places
        BY FleetAssumption, PlaceOf
      <3>2. \A x \in Places \ {b} : place'[x] = place[x] \ {e}
        BY <2>5, <2>6, <2>7
      <3>3. {e} \in SUBSET (1..Len(issued))
        BY <2>5
      <3>4. OnePlace(place, Len(issued)) /\ place'[b] = place[b] \cup {e}
        BY <2>7
      <3>5. QED BY <1>2, <3>1, <3>2, <3>3, <3>4, Moved
    <2>9. Types' /\ Lists'
      BY <1>1, <2>3, <2>4, <2>7 DEF Types, Lists
    <2>10. QED BY <1>1, <2>8, <2>9
  <1>7. QED BY <1>5, <1>6 DEF Flush

(* A crash takes all that is not delivered. *)
LEMMA CrashStep ==
  ASSUME Where, Crash
  PROVE  Where'
  <1> USE DEF Where
  <1>1. /\ call' = [k \in Calls |-> Idle] /\ queue' = <<>>
        /\ flush' = [f \in Flushes |-> <<>>]
        /\ lost' = lost \cup undelivered
        /\ UNCHANGED <<drone, lifecycle, delivered, begun, issued>>
    BY DEF Crash, store
  <1>2. Types' /\ Lists'
    BY <1>1, IdleCall, EmptyList DEF Types, Lists
  <1>3. /\ "lost" \in Places /\ Len(issued) \in Nat
        /\ \A f \in Flushes : f # "lost" /\ f \in Places
        /\ \A k \in Calls : k # "lost" /\ k \in Places
    BY FleetAssumption, PlaceOf, IssuedLength
  <1>4. \A e : e \in undelivered <=>
               \/ e \in elements(queue)
               \/ \E f \in Flushes : e \in elements(flush[f])
               \/ \E k \in Calls : e \in elements(call[k].events)
    <2>1. \A e : e \in UNION {elements(flush[f]) : f \in Flushes}
                 <=> \E f \in Flushes : e \in elements(flush[f])
      OBVIOUS
    <2>2. \A e : e \in UNION {elements(call[k].events) : k \in Calls}
                 <=> \E k \in Calls : e \in elements(call[k].events)
      OBVIOUS
    <2>3. QED BY <2>1, <2>2 DEF undelivered
  <1>5. \A e : e \in undelivered <=>
               \/ e \in place["queue"]
               \/ \E f \in Flushes : e \in place[f]
               \/ \E k \in Calls : e \in place[k]
    BY <1>4, PlaceOf
  <1>6. undelivered \in SUBSET (1..Len(issued))
    BY <1>3, <1>5, PlaceOf DEF OnePlace
  <1>7. place["delivered"] \cap undelivered = {}
    <2>1. SUFFICES ASSUME NEW e \in undelivered, e \in place["delivered"] PROVE FALSE
      OBVIOUS
    <2>2. PICK x \in Places : e \in place[x] /\ x # "delivered"
      BY <1>3, <1>5, PlaceOf, FleetAssumption
    <2>3. e \in 1..Len(issued) /\ "delivered" \in Places
      BY <1>6, PlaceOf
    <2>4. QED BY <2>1, <2>2, <2>3 DEF OnePlace
  <1>8. /\ place'["queue"] = {} /\ place'["delivered"] = place["delivered"]
        /\ place'["lost"] = place["lost"] \cup undelivered
        /\ \A f \in Flushes : place'[f] = {}
        /\ \A k \in Calls : place'[k] = {}
    BY <1>1, IdleCall, EmptyList, PlaceOf, PlaceOfNext
  <1>9. ASSUME NEW x \in Places \ {"lost"}
        PROVE  place'[x] = place[x] \ undelivered
    <2>1. CASE x = "delivered"
      BY <1>7, <1>8, <2>1
    <2>2. CASE x = "queue" \/ x \in Flushes \/ x \in Calls
      <3>1. ASSUME NEW e \in place[x] PROVE e \in undelivered
        <4>1. CASE x = "queue"
          BY <1>5, <3>1, <4>1
        <4>2. CASE x \in Flushes
          BY <1>5, <3>1, <4>2
        <4>3. CASE x \in Calls
          BY <1>5, <3>1, <4>3
        <4>4. QED BY <2>2, <4>1, <4>2, <4>3
      <3>2. place'[x] = {}
        BY <1>8, <2>2
      <3>3. QED BY <3>1, <3>2
    <2>3. QED BY <2>1, <2>2, PlacesApart
  <1>10. OnePlace(place, Len(issued))
    OBVIOUS
  <1>11. OnePlace(place', Len(issued))
    BY ZenonT(60), <1>3, <1>6, <1>8, <1>9, <1>10, Moved
  <1>12. QED BY <1>1, <1>2, <1>11

-----------------------------------------------------------------------------
(* The calls *)

(* Records a call goes on with, changed in some of their fields. *)
LEMMA CallFields ==
  ASSUME NEW r \in Call
  PROVE  /\ r.pc \in Pcs /\ r.drone \in Drones \cup {Unset} /\ r.changes \in Change
         /\ r.previous \in Row /\ r.entity \in Row /\ r.base \in Lifecycle
         /\ r.events \in Seq(Nat) /\ r.expected \in Nat
  BY DEF Call

(* An update changes fields of a row and leaves its version to the save. *)
LEMMA ChangedRow ==
  ASSUME NEW row \in Row, NEW c \in Change
  PROVE  changed(row, c) \in Row /\ changed(row, c).version = row.version
  BY DEF Row, Change, changed

(* What a call that begins holds. *)
Opened(r) ==
  /\ r.pc \in {"idle", "insert", "load", "usage"} /\ r.events = <<>>
  /\ r.pc = "insert" => r.entity.version = 1
  /\ r.pc = "load" => r.previous = drone[r.drone] /\ r.previous.version # 0
  /\ r.pc # "idle" => r.drone \in Drones

(* A call begins without touching a row, an event or the publisher. *)
LEMMA BeginStep ==
  ASSUME Where, NEW k \in Calls, Begin(k)
  PROVE  /\ Where' /\ UNCHANGED <<store, publisher, issued>> /\ begun' = begun + 1
         /\ call[k].pc = "idle" /\ begun < MaxCalls
         /\ \E r \in Call : Opened(r) /\ goto(k, r)
  <1> USE DEF Where
  <1>1. begun \in 0..MaxCalls /\ MaxCalls \in Nat /\ drone \in [Drones -> Row]
    BY FleetAssumption DEF Types
  <1>2. PICK d \in Drones :
          \/ \E s \in Statuses : CreateCheck(k, d, s)
          \/ \E s \in Statuses \cup {Unset}, m \in Models \cup {Unset},
               v \in {NoVersion, drone[d].version} :
               UpdateFind(k, d, [status |-> s, model |-> m], v)
          \/ UsageFind(k, d)
    BY DEF Begin
  <1>3. \E r \in Call : Opened(r) /\ enter(k, r)
    <2>1. {"idle", "insert", "load", "usage"} \subseteq Pcs
      BY DEF Pcs
    <2>2. PICK i \in Call : i = Idle /\ i.events = <<>> /\ i.pc = "idle"
      BY IdleCall
    <2>3. CASE enter(k, Idle)
      BY <2>2, <2>3 DEF Opened
    <2>4. CASE \E s \in Statuses, m \in Models :
                 enter(k, [Idle EXCEPT !.pc = "insert", !.drone = d,
                          !.entity = [version |-> 1, status |-> s, model |-> m]])
      <3>1. PICK s \in Statuses, m \in Models :
                 enter(k, [Idle EXCEPT !.pc = "insert", !.drone = d,
                          !.entity = [version |-> 1, status |-> s, model |-> m]])
        BY <2>4
      <3>2. PICK e \in Row : e = [version |-> 1, status |-> s, model |-> m]
        BY DEF Row
      <3>3. e.version = 1
        BY <3>2
      <3>4. [i EXCEPT !.pc = "insert", !.drone = d, !.entity = e] \in Call
        BY <2>1, <2>2 DEF Call
      <3>5. PICK r \in Call : r = [i EXCEPT !.pc = "insert", !.drone = d, !.entity = e]
        BY <3>4
      <3>6. r.pc = "insert" /\ r.drone = d /\ r.entity = e /\ r.events = <<>>
        BY <2>2, <3>5 DEF Call
      <3>7. enter(k, r)
        BY <2>2, <3>1, <3>2, <3>5
      <3>8. QED BY <3>3, <3>6, <3>7 DEF Opened
    <2>5. CASE \E c \in Change, v \in Nat :
                 /\ drone[d].version # 0
                 /\ enter(k, [Idle EXCEPT !.pc = "load", !.drone = d, !.changes = c,
                                          !.expected = v, !.previous = drone[d]])
      <3>1. PICK c \in Change, v \in Nat :
                 /\ drone[d].version # 0
                 /\ enter(k, [Idle EXCEPT !.pc = "load", !.drone = d, !.changes = c,
                                          !.expected = v, !.previous = drone[d]])
        BY <2>5
      <3>2. PICK p \in Row : p = drone[d]
        BY <1>1
      <3>3. [i EXCEPT !.pc = "load", !.drone = d, !.changes = c,
                      !.expected = v, !.previous = p] \in Call
        BY <2>1, <2>2 DEF Call
      <3>4. PICK r \in Call : r = [i EXCEPT !.pc = "load", !.drone = d, !.changes = c,
                                            !.expected = v, !.previous = p]
        BY <3>3
      <3>5. r.pc = "load" /\ r.drone = d /\ r.previous = p /\ r.events = <<>>
        BY <2>2, <3>4 DEF Call
      <3>6. enter(k, r)
        BY <2>2, <3>1, <3>2, <3>4
      <3>7. QED BY <3>1, <3>2, <3>5, <3>6 DEF Opened
    <2>6. CASE enter(k, [Idle EXCEPT !.pc = "usage", !.drone = d])
      <3>1. PICK r \in Call : r = [i EXCEPT !.pc = "usage", !.drone = d]
        BY <2>1, <2>2 DEF Call
      <3>2. r.pc = "usage" /\ r.drone = d /\ r.events = <<>>
        BY <2>2, <3>1 DEF Call
      <3>3. QED BY <2>2, <2>6, <3>1, <3>2 DEF Opened
    <2>7. CASE \E s \in Statuses : CreateCheck(k, d, s)
      BY <2>3, <2>4, <2>7 DEF CreateCheck
    <2>8. CASE UsageFind(k, d)
      BY <2>3, <2>6, <2>8 DEF UsageFind
    <2>9. CASE \E s \in Statuses \cup {Unset}, m \in Models \cup {Unset},
                  v \in {NoVersion, drone[d].version} :
                 UpdateFind(k, d, [status |-> s, model |-> m], v)
      <3>1. PICK s \in Statuses \cup {Unset}, m \in Models \cup {Unset},
                 v \in {NoVersion, drone[d].version} :
                 UpdateFind(k, d, [status |-> s, model |-> m], v)
        BY <2>9
      <3>2. [status |-> s, model |-> m] \in Change /\ v \in Nat
        BY <1>1 DEF Change, NoVersion, Row
      <3>3. PICK c \in Change : c = [status |-> s, model |-> m]
        BY <3>2
      <3>4. UpdateFind(k, d, c, v)
        BY <3>1, <3>3
      <3>5. QED BY <2>3, <2>5, <3>2, <3>4 DEF UpdateFind
    <2>10. QED BY <1>2, <2>7, <2>8, <2>9
  <1>4. UNCHANGED <<store, publisher, issued>>
    BY <1>2 DEF CreateCheck, UpdateFind, UsageFind
  <1>5. PICK r \in Call : Opened(r) /\ enter(k, r)
    BY <1>3
  <1>6. call[k].pc = "idle" /\ begun < MaxCalls /\ begun' = begun + 1 /\ goto(k, r)
    BY <1>5 DEF enter, goto
  <1>7. /\ drone' \in [Drones -> Row] /\ lifecycle' \in [Drones -> Lifecycle]
        /\ begun' \in 0..MaxCalls
    BY <1>1, <1>4, <1>6 DEF Types, store
  <1>8. Where'
    <2>1. r.pc # "publish" /\ r.events = <<>> /\ (r.pc = "idle" \/ r.drone \in Drones)
      BY <1>5 DEF Opened
    <2>2. UNCHANGED <<publisher, issued>>
      BY <1>4
    <2>3. QED BY <1>6, <1>7, <2>1, <2>2, QuietStep
  <1>9. QED BY <1>4, <1>5, <1>6, <1>8

(* What a call in progress holds. *)
LEMMA CallType ==
  ASSUME Where, NEW k \in Calls
  PROVE  /\ call[k] \in Call
         /\ call[k].pc \in {"insert", "load", "save", "usage", "record"} =>
              call[k].drone \in Drones
         /\ call[k].pc # "publish" => call[k].events = <<>>
  BY DEF Where, Types, Lists

(* The steps that neither issue nor publish. *)
LEMMA ResumeStep ==
  ASSUME Where, NEW k \in Calls,
         CreateInsert(k) \/ UpdateLoad(k) \/ UsageLoad(k) \/ Abort(k)
  PROVE  Where'
  <1>1. PICK r \in Call : r = call[k]
    BY CallType
  <1>2. /\ r.pc \in {"insert", "load", "save", "usage", "record"}
        /\ r.drone \in Drones /\ r.events = <<>>
    BY <1>1, CallType DEF CreateInsert, UpdateLoad, UsageLoad, Abort
  <1>3. /\ UNCHANGED <<publisher, issued, begun>> /\ begun \in 0..MaxCalls
        /\ drone \in [Drones -> Row] /\ lifecycle \in [Drones -> Lifecycle]
    BY DEF CreateInsert, UpdateLoad, UsageLoad, Abort, Where, Types
  <1>4. drone' \in [Drones -> Row] /\ lifecycle' \in [Drones -> Lifecycle]
    <2>1. CASE CreateInsert(k)
      BY <1>1, <1>3, <2>1, CallFields DEF CreateInsert
    <2>2. CASE UpdateLoad(k) \/ UsageLoad(k) \/ Abort(k)
      BY <1>3, <2>2 DEF UpdateLoad, UsageLoad, Abort, store
    <2>3. QED BY <2>1, <2>2
  <1>5. \E t \in Call : goto(k, t) /\ t.events = <<>> /\ t.pc # "publish"
                       /\ (t.pc = "idle" \/ t.drone \in Drones)
    <2>1. CASE goto(k, Idle)
      BY <2>1, IdleCall
    <2>2. CASE \E e \in Row : goto(k, [r EXCEPT !.pc = "save", !.entity = e])
      <3>1. PICK e \in Row : goto(k, [r EXCEPT !.pc = "save", !.entity = e])
        BY <2>2
      <3>2. "save" \in Pcs
        BY DEF Pcs
      <3>3. PICK t \in Call : t = [r EXCEPT !.pc = "save", !.entity = e]
        BY <3>2 DEF Call
      <3>4. t.pc = "save" /\ t.drone = r.drone /\ t.events = r.events
        BY <3>3 DEF Call
      <3>5. QED BY <1>2, <3>1, <3>3, <3>4
    <2>3. CASE \E l \in Lifecycle : goto(k, [r EXCEPT !.pc = "record", !.base = l])
      <3>1. PICK l \in Lifecycle : goto(k, [r EXCEPT !.pc = "record", !.base = l])
        BY <2>3
      <3>2. "record" \in Pcs
        BY DEF Pcs
      <3>3. PICK t \in Call : t = [r EXCEPT !.pc = "record", !.base = l]
        BY <3>2 DEF Call
      <3>4. t.pc = "record" /\ t.drone = r.drone /\ t.events = r.events
        BY <3>3 DEF Call
      <3>5. QED BY <1>2, <3>1, <3>3, <3>4
    <2>4. CASE CreateInsert(k) \/ Abort(k)
      BY <2>1, <2>4 DEF CreateInsert, Abort
    <2>5. CASE UpdateLoad(k)
      <3>1. changed(drone[r.drone], r.changes) \in Row
        BY <1>2, <1>3, ChangedRow, CallFields
      <3>2. QED BY <1>1, <2>1, <2>2, <2>5, <3>1 DEF UpdateLoad
    <2>6. CASE UsageLoad(k)
      BY <1>1, <1>2, <1>3, <2>3, <2>6 DEF UsageLoad
    <2>7. QED BY <2>4, <2>5, <2>6
  <1>6. QED BY <1>1, <1>2, <1>3, <1>4, <1>5, QuietStep

(* What an update stores and announces. *)
LEMMA SavedRow ==
  ASSUME Where, NEW k \in Calls, UpdateSave(k)
  PROVE  \E saved \in Row :
           /\ saved.version \in {call[k].entity.version, drone[call[k].drone].version,
                               drone[call[k].drone].version + 1}
           /\ drone' = [drone EXCEPT ![call[k].drone] = saved]
           /\ stored' = stored \cup {<<call[k].drone, saved.version, saved.status>>}
           /\ issue(k, call[k], IF saved.status # call[k].previous.status
                                THEN <<statusEvent(call[k], saved)>> ELSE <<>>)
  <1>1. PICK r \in Call : r = call[k] /\ r.drone \in Drones
    BY CallType DEF UpdateSave
  <1>2. PICK row \in Row : row = drone[r.drone]
    BY <1>1 DEF Where, Types
  <1>3. row.version \in Nat /\ r.entity \in Row /\ r.entity.version \in Nat
    BY CallFields DEF Row
  <1>4. PICK v \in IF sameColumns(r.entity, row) /\ r.entity.version = row.version
                   THEN {row.version}
                   ELSE {row.version + 1} \cup ({r.entity.version} \ {row.version}) :
           /\ drone' = [drone EXCEPT ![r.drone] = [r.entity EXCEPT !.version = v]]
           /\ stored' = stored \cup {<<r.drone, v, [r.entity EXCEPT !.version = v].status>>}
           /\ issue(k, r, IF [r.entity EXCEPT !.version = v].status # r.previous.status
                          THEN <<statusEvent(r, [r.entity EXCEPT !.version = v])>> ELSE <<>>)
    BY <1>1, <1>2 DEF UpdateSave
  <1>5. v \in {r.entity.version, row.version, row.version + 1} /\ v \in Nat
    BY <1>3, <1>4
  <1>6. PICK saved \in Row : saved = [r.entity EXCEPT !.version = v]
    BY <1>3, <1>5 DEF Row
  <1>7. saved.version = v
    BY <1>3, <1>6 DEF Row
  <1>8. QED BY <1>1, <1>2, <1>4, <1>5, <1>6, <1>7

(* A save publishes a status event when the status changed, or nothing. *)
LEMMA StatusEvents ==
  ASSUME NEW r \in Call, r.drone \in Drones, NEW saved \in Row
  PROVE  LET events == IF saved.status # r.previous.status
                       THEN <<statusEvent(r, saved)>> ELSE <<>>
         IN  events \in Seq(StatusEvent \cup MaintenanceEvent)
  <1>1. statusEvent(r, saved) \in StatusEvent
    BY CallFields DEF Row, statusEvent, StatusEvent
  <1>2. <<statusEvent(r, saved)>> \in Seq(StatusEvent \cup MaintenanceEvent)
    BY <1>1
  <1>3. <<>> \in Seq(StatusEvent \cup MaintenanceEvent)
    OBVIOUS
  <1>4. QED BY <1>2, <1>3

(* The save of an update keeps where every event is. *)
LEMMA UpdateSaveStep ==
  ASSUME Where, NEW k \in Calls, UpdateSave(k)
  PROVE  Where'
  <1>1. PICK saved \in Row :
           /\ drone' = [drone EXCEPT ![call[k].drone] = saved]
           /\ issue(k, call[k], IF saved.status # call[k].previous.status
                                THEN <<statusEvent(call[k], saved)>> ELSE <<>>)
    BY SavedRow
  <1>2. /\ call[k] \in Call /\ call[k].drone \in Drones /\ call[k].pc # "publish"
        /\ UNCHANGED <<publisher, begun, lifecycle>>
        /\ drone \in [Drones -> Row] /\ lifecycle \in [Drones -> Lifecycle]
    BY CallType DEF UpdateSave, Where, Types
  <1>3. PICK events \in Seq(StatusEvent \cup MaintenanceEvent) : issue(k, call[k], events)
    BY <1>1, <1>2, StatusEvents
  <1>4. drone' \in [Drones -> Row] /\ lifecycle' \in [Drones -> Lifecycle]
    BY <1>1, <1>2
  <1>5. QED BY <1>2, <1>3, <1>4, IssueStep

(* What a reading of usage stores and announces. *)
LEMMA SavedUsage ==
  ASSUME Where, NEW k \in Calls, UsageSaveAny(k)
  PROVE  \E next \in Lifecycle, events \in Seq(StatusEvent \cup MaintenanceEvent) :
           /\ next.present
           /\ lifecycle' = [lifecycle EXCEPT ![call[k].drone] = next]
           /\ issue(k, call[k], events)
           /\ \A i \in 1..Len(events) : events[i].kind = "maintenance"
           /\ \A c \in evaluateMaintenance(next) \ evaluateMaintenance(call[k].base) :
                \E i \in 1..Len(events) :
                  events[i].drone = call[k].drone /\ events[i].component = c
  <1>1. PICK delta \in [Components -> Deltas], limit \in Thresholds \cup {call[k].base.limit} :
          UsageSave(k, delta, limit)
    BY DEF UsageSaveAny
  <1>2. PICK r \in Call : r = call[k] /\ r.drone \in Drones
    BY <1>1, CallType DEF UsageSave
  <1>3. /\ r.base \in Lifecycle /\ r.base.limit \in Nat
        /\ r.base.used \in [Components -> Nat] /\ limit \in Nat
    BY <1>2, CallFields, FleetAssumption DEF Lifecycle
  <1>4. \A c \in Components : clampNonNegative(r.base.used[c] + delta[c]) \in Nat
    <2>1. \A c \in Components : r.base.used[c] \in Nat /\ delta[c] \in Int
      BY <1>3, FleetAssumption
    <2>2. QED BY <2>1 DEF clampNonNegative
  <1>5. PICK next \in Lifecycle :
          next = [present |-> TRUE, limit |-> limit,
                  used |-> [c \in Components |-> clampNonNegative(r.base.used[c] + delta[c])]]
    BY <1>3, <1>4 DEF Lifecycle
  <1>6. next.present
    BY <1>5
  <1>7. newlyDue(r.base, next) \subseteq Components /\ IsFiniteSet(newlyDue(r.base, next))
    <2>1. newlyDue(r.base, next) \subseteq Components
      BY DEF newlyDue, evaluateMaintenance
    <2>2. QED BY <2>1, FS_Subset, FleetAssumption
  <1>8. PICK due : due = seqOf(newlyDue(r.base, next))
    OBVIOUS
  <1>9. /\ due \in Seq(newlyDue(r.base, next)) /\ Len(due) \in Nat
        /\ \A c \in newlyDue(r.base, next) : \E i \in 1..Len(due) : due[i] = c
    BY <1>7, <1>8, SetAsList
  <1>10. PICK events : events = [i \in 1..Len(due) |-> [kind |-> "maintenance", drone |-> r.drone,
                                                    component |-> due[i]]]
    OBVIOUS
  <1>11. \A i \in 1..Len(due) : due[i] \in Components
    BY <1>7, <1>9, ElementOfSeq
  <1>12. \A i \in 1..Len(due) : events[i] \in MaintenanceEvent
    BY <1>2, <1>10, <1>11 DEF MaintenanceEvent
  <1>13. events \in Seq(StatusEvent \cup MaintenanceEvent) /\ Len(events) = Len(due)
    BY <1>9, <1>10, <1>12
  <1>14. \A i \in 1..Len(events) : events[i].kind = "maintenance"
                                  /\ events[i].drone = r.drone /\ events[i].component = due[i]
    BY <1>10, <1>13
  <1>15. \A c \in evaluateMaintenance(next) \ evaluateMaintenance(r.base) :
           \E i \in 1..Len(events) : events[i].drone = r.drone /\ events[i].component = c
    BY <1>9, <1>13, <1>14 DEF newlyDue
  <1>16. lifecycle' = [lifecycle EXCEPT ![r.drone] = next] /\ issue(k, r, events)
    BY <1>1, <1>2, <1>5, <1>8, <1>10 DEF UsageSave
  <1>17. \A i \in 1..Len(events) : events[i].kind = "maintenance"
    BY <1>14
  <1>18. /\ next.present
         /\ lifecycle' = [lifecycle EXCEPT ![call[k].drone] = next]
         /\ issue(k, call[k], events)
         /\ \A i \in 1..Len(events) : events[i].kind = "maintenance"
         /\ \A c \in evaluateMaintenance(next) \ evaluateMaintenance(call[k].base) :
              \E i \in 1..Len(events) :
                events[i].drone = call[k].drone /\ events[i].component = c
    BY <1>2, <1>6, <1>15, <1>16, <1>17
  <1>19. next \in Lifecycle /\ events \in Seq(StatusEvent \cup MaintenanceEvent)
    BY <1>6, <1>13
  <1>20. QED BY ZenonT(60), <1>18, <1>19

(* The save of recorded usage keeps where every event is. *)
LEMMA UsageSaveStep ==
  ASSUME Where, NEW k \in Calls, UsageSaveAny(k)
  PROVE  Where'
  <1>1. PICK next \in Lifecycle, events \in Seq(StatusEvent \cup MaintenanceEvent) :
           /\ lifecycle' = [lifecycle EXCEPT ![call[k].drone] = next]
           /\ issue(k, call[k], events)
    BY SavedUsage
  <1>2. /\ call[k].pc # "publish" /\ UNCHANGED <<publisher, begun, drone>>
        /\ drone \in [Drones -> Row] /\ lifecycle \in [Drones -> Lifecycle]
    BY CallType DEF UsageSaveAny, UsageSave, Where, Types
  <1>3. drone' \in [Drones -> Row] /\ lifecycle' \in [Drones -> Lifecycle]
    BY <1>1, <1>2
  <1>4. QED BY <1>1, <1>2, <1>3, IssueStep

-----------------------------------------------------------------------------
(* The versions a row goes through *)

(* The calls that may yet store a version, each at most one. *)
Writing == {k \in Calls : call[k].pc \in {"insert", "load", "save"}}

(***************************************************************************)
(* Every version counts a call: what the row has, or what an update that   *)
(* read it earlier may put back, and the updates under way are no more     *)
(* than the calls begun.  The row an update compares with was stored.      *)
(***************************************************************************)
Versions ==
  /\ \A d \in Drones : drone[d].version + Cardinality(Writing) <= begun
  /\ \A k \in Calls : call[k].pc = "save" =>
       call[k].entity.version + Cardinality(Writing) <= begun
  /\ \A k \in Calls : call[k].pc = "insert" => call[k].entity.version = 1
  /\ \A d \in Drones : drone[d].version > 0 =>
       <<d, drone[d].version, drone[d].status>> \in stored
  /\ \A k \in Calls : call[k].pc \in {"load", "save"} =>
       /\ call[k].previous.version \in 1..MaxCalls
       /\ <<call[k].drone, call[k].previous.version, call[k].previous.status>> \in stored

(* The calls that write can be counted. *)
LEMMA WritingFinite ==
  /\ IsFiniteSet(Writing) /\ Cardinality(Writing) \in Nat
  /\ \A k \in Writing : Cardinality(Writing \ {k}) = Cardinality(Writing) - 1
  /\ \A k : k \notin Writing => Cardinality(Writing \cup {k}) = Cardinality(Writing) + 1
  <1>1. IsFiniteSet(Writing)
    BY FS_Subset, FleetAssumption DEF Writing
  <1>2. Cardinality(Writing) \in Nat
    BY <1>1, FS_CardinalityType
  <1>3. \A k \in Writing : Cardinality(Writing \ {k}) = Cardinality(Writing) - 1
    BY <1>1, FS_RemoveElement
  <1>4. \A k : k \notin Writing => Cardinality(Writing \cup {k}) = Cardinality(Writing) + 1
    BY <1>1, FS_AddElement
  <1>5. QED BY <1>1, <1>2, <1>3, <1>4

(* The step of one call changes its own place among the writers only. *)
LEMMA WritingNext ==
  ASSUME Where, NEW k \in Calls, NEW r \in Call, goto(k, r)
  PROVE  /\ call'[k] = r /\ \A l \in Calls \ {k} : call'[l] = call[l]
         /\ Writing' = IF r.pc \in {"insert", "load", "save"}
                       THEN Writing \cup {k} ELSE Writing \ {k}
         /\ IsFiniteSet(Writing') /\ Cardinality(Writing') \in Nat
  <1>1. call'[k] = r /\ \A l \in Calls \ {k} : call'[l] = call[l]
    BY DEF goto, Where, Types
  <1>2. Writing' = IF r.pc \in {"insert", "load", "save"}
                   THEN Writing \cup {k} ELSE Writing \ {k}
    BY <1>1 DEF Writing
  <1>3. Writing' \subseteq Calls
    BY DEF Writing
  <1>4. QED BY <1>1, <1>2, <1>3, FS_Subset, FS_CardinalityType, FleetAssumption

(* Versions, and the rows the calls hold, have their types. *)
LEMMA RowTypes ==
  ASSUME Where
  PROVE  /\ \A d \in Drones : drone[d] \in Row /\ drone[d].version \in Nat
         /\ \A k \in Calls : /\ call[k].entity.version \in Nat /\ call[k].entity \in Row
                             /\ call[k].previous.version \in Nat
         /\ begun \in Nat /\ begun <= MaxCalls /\ MaxCalls \in Nat
  BY FleetAssumption DEF Where, Types, Call, Row

(* A step that stores nothing and whose writers were the same before. *)
LEMMA FewerWriters ==
  ASSUME Where, Versions, UNCHANGED <<drone, stored, begun>>,
         \A l \in Calls : call'[l].pc \in {"insert", "load", "save"} => call'[l] = call[l]
  PROVE  Versions'
  <1>1. Writing' \subseteq Writing
    BY DEF Writing
  <1>2. /\ Cardinality(Writing') <= Cardinality(Writing)
        /\ Cardinality(Writing') \in Nat /\ Cardinality(Writing) \in Nat
    BY <1>1, WritingFinite, FS_Subset, FS_CardinalityType
  <1>3. \A d \in Drones : drone'[d].version + Cardinality(Writing') <= begun'
    BY <1>2, RowTypes DEF Versions
  <1>4. \A l \in Calls : call'[l].pc = "save" =>
          call'[l].entity.version + Cardinality(Writing') <= begun'
    BY <1>2, RowTypes DEF Versions
  <1>5. QED BY <1>3, <1>4 DEF Versions

(* A writer that stores its row and is done. *)
LEMMA WriterStores ==
  ASSUME Where, Versions, NEW k \in Writing, NEW t \in Call, goto(k, t),
         t.pc \notin {"insert", "load", "save"},
         NEW d \in Drones, NEW row \in Row,
         row.version + Cardinality(Writing) <= begun + 1,
         drone' = [drone EXCEPT ![d] = row],
         stored' = stored \cup {<<d, row.version, row.status>>},
         begun' = begun
  PROVE  Versions'
  <1>1. k \in Calls /\ row.version \in Nat
    BY DEF Writing, Row
  <1>2. /\ call'[k] = t /\ \A l \in Calls \ {k} : call'[l] = call[l]
        /\ Writing' = Writing \ {k}
    BY <1>1, WritingNext
  <1>3. /\ Cardinality(Writing') = Cardinality(Writing) - 1
        /\ Cardinality(Writing) \in Nat
    BY <1>2, WritingFinite
  <1>4. drone'[d] = row /\ \A e \in Drones \ {d} : drone'[e] = drone[e]
    BY DEF Where, Types
  <1>5. \A e \in Drones : drone'[e].version + Cardinality(Writing') <= begun'
    <2>1. drone'[d].version + Cardinality(Writing') <= begun'
      BY <1>1, <1>3, <1>4, RowTypes
    <2>2. ASSUME NEW e \in Drones \ {d}
          PROVE  drone'[e].version + Cardinality(Writing') <= begun'
      <3>1. drone[e].version + Cardinality(Writing) <= begun
        BY DEF Versions
      <3>2. QED BY <1>3, <1>4, <3>1, RowTypes
    <2>3. QED BY <2>1, <2>2
  <1>6. \A l \in Calls : call'[l].pc = "save" =>
          call'[l].entity.version + Cardinality(Writing') <= begun'
    <2>1. SUFFICES ASSUME NEW l \in Calls, call'[l].pc = "save"
                   PROVE  call'[l].entity.version + Cardinality(Writing') <= begun'
      OBVIOUS
    <2>2. call'[l] = call[l]
      BY <1>2, <2>1
    <2>3. call[l].entity.version + Cardinality(Writing) <= begun
      BY <2>1, <2>2 DEF Versions
    <2>4. QED BY <1>3, <2>2, <2>3, RowTypes
  <1>7. \A l \in Calls : call'[l].pc \in {"insert", "load", "save"} => call'[l] = call[l]
    BY <1>2
  <1>8. \A e \in Drones : drone'[e].version > 0 =>
          <<e, drone'[e].version, drone'[e].status>> \in stored'
    BY <1>4 DEF Versions
  <1>9. QED BY <1>5, <1>6, <1>7, <1>8 DEF Versions

(* A call that begins adds one to both sides, if it is a writer at all. *)
LEMMA VersionsBegin ==
  ASSUME Where, Versions, NEW k \in Calls, Begin(k)
  PROVE  Versions'
  <1>1. PICK r \in Call : Opened(r) /\ goto(k, r)
    BY BeginStep
  <1>2. /\ UNCHANGED <<drone, stored>> /\ begun' = begun + 1 /\ begun < MaxCalls
        /\ call[k].pc = "idle"
    BY BeginStep DEF store
  <1>3. /\ call'[k] = r /\ \A l \in Calls \ {k} : call'[l] = call[l]
        /\ Writing' = Writing \cup {k} \/ Writing' = Writing \ {k}
    BY <1>1, WritingNext
  <1>4. k \notin Writing
    BY <1>2 DEF Writing
  <1>5. /\ Cardinality(Writing') <= Cardinality(Writing) + 1
        /\ Cardinality(Writing') \in Nat /\ Cardinality(Writing) \in Nat
    <2>1. CASE Writing' = Writing \cup {k}
      BY <1>4, <2>1, WritingFinite
    <2>2. CASE Writing' = Writing \ {k}
      <3>1. Writing' = Writing
        BY <1>4, <2>2
      <3>2. QED BY <3>1, WritingFinite
    <2>3. QED BY <1>3, <2>1, <2>2
  <1>6. \A d \in Drones : drone'[d].version + Cardinality(Writing') <= begun'
    <2>1. \A d \in Drones : drone[d].version + Cardinality(Writing) <= begun
      BY DEF Versions
    <2>2. QED BY <1>2, <1>5, <2>1, RowTypes
  <1>7. \A l \in Calls : call'[l].pc = "save" =>
          call'[l].entity.version + Cardinality(Writing') <= begun'
    <2>1. SUFFICES ASSUME NEW l \in Calls, call'[l].pc = "save"
                   PROVE  call'[l].entity.version + Cardinality(Writing') <= begun'
      OBVIOUS
    <2>2. l # k
      BY <1>1, <1>3, <2>1 DEF Opened
    <2>3. call'[l] = call[l] /\ call[l].entity.version + Cardinality(Writing) <= begun
      BY <1>3, <2>1, <2>2 DEF Versions
    <2>4. QED BY <1>2, <1>5, <2>3, RowTypes
  <1>8. \A l \in Calls : call'[l].pc = "insert" => call'[l].entity.version = 1
    BY <1>1, <1>3 DEF Opened, Versions
  <1>9. ASSUME NEW l \in Calls, call'[l].pc \in {"load", "save"}
        PROVE  /\ call'[l].previous.version \in 1..MaxCalls
               /\ <<call'[l].drone, call'[l].previous.version, call'[l].previous.status>>
                    \in stored'
    <2>1. CASE l # k
      BY <1>2, <1>3, <1>9, <2>1 DEF Versions
    <2>2. CASE l = k
      <3>1. /\ r.pc = "load" /\ r.drone \in Drones
            /\ r.previous = drone[r.drone] /\ r.previous.version # 0
        BY <1>1, <1>3, <1>9, <2>2 DEF Opened
      <3>2. drone[r.drone].version + Cardinality(Writing) <= begun
        BY <3>1 DEF Versions
      <3>3. r.previous.version \in 1..MaxCalls /\ drone[r.drone].version > 0
        BY <1>2, <1>5, <3>1, <3>2, RowTypes
      <3>4. <<r.drone, r.previous.version, r.previous.status>> \in stored
        BY <3>1, <3>3 DEF Versions
      <3>5. QED BY <1>2, <1>3, <2>2, <3>3, <3>4
    <2>3. QED BY <2>1, <2>2
  <1>10. \A d \in Drones : drone'[d].version > 0 =>
           <<d, drone'[d].version, drone'[d].status>> \in stored'
    BY <1>2 DEF Versions
  <1>11. QED BY <1>6, <1>7, <1>8, <1>9, <1>10 DEF Versions

(* An update that reads the row again remains a writer. *)
LEMMA VersionsLoad ==
  ASSUME Where, Versions, NEW k \in Calls, UpdateLoad(k)
  PROVE  Versions'
  <1>1. PICK r \in Call : r = call[k] /\ r.pc = "load" /\ r.drone \in Drones
    BY CallType DEF UpdateLoad
  <1>2. PICK row \in Row : row = drone[r.drone] /\ row.version \in Nat
    BY <1>1, RowTypes
  <1>3. UNCHANGED <<drone, stored, begun>>
    BY DEF UpdateLoad, store
  <1>4. CASE goto(k, Idle)
    <2>1. call'[k] = Idle /\ \A l \in Calls \ {k} : call'[l] = call[l]
      BY <1>4, WritingNext, IdleCall
    <2>2. \A l \in Calls : call'[l].pc \in {"insert", "load", "save"} => call'[l] = call[l]
      BY <2>1, IdleCall
    <2>3. QED BY <1>3, <2>2, FewerWriters
  <1>5. CASE goto(k, [r EXCEPT !.pc = "save", !.entity = changed(row, r.changes)])
    <2>1. PICK e \in Row : e = changed(row, r.changes) /\ e.version = row.version
      BY <1>2, ChangedRow, CallFields
    <2>2. PICK t \in Call : t = [r EXCEPT !.pc = "save", !.entity = e]
      BY DEF Call, Pcs
    <2>3. /\ t.pc = "save" /\ t.drone = r.drone /\ t.previous = r.previous
          /\ t.entity = e
      BY <2>2 DEF Call
    <2>4. goto(k, t)
      BY <1>5, <2>1, <2>2
    <2>5. k \in Writing
      BY <1>1 DEF Writing
    <2>6. /\ call'[k] = t /\ \A l \in Calls \ {k} : call'[l] = call[l]
          /\ Writing' = Writing
      BY <2>3, <2>4, <2>5, WritingNext
    <2>7. \A l \in Calls : call'[l].pc = "save" =>
            call'[l].entity.version + Cardinality(Writing') <= begun'
      BY <1>1, <1>2, <1>3, <2>1, <2>3, <2>6 DEF Versions
    <2>8. \A l \in Calls : call'[l].pc = "insert" => call'[l].entity.version = 1
      BY <2>3, <2>6 DEF Versions
    <2>9. \A l \in Calls : call'[l].pc \in {"load", "save"} =>
            /\ call'[l].previous.version \in 1..MaxCalls
            /\ <<call'[l].drone, call'[l].previous.version, call'[l].previous.status>>
                 \in stored'
      BY <1>1, <1>3, <2>3, <2>6 DEF Versions
    <2>10. \A d \in Drones : drone'[d].version + Cardinality(Writing') <= begun'
      BY <1>3, <2>6 DEF Versions
    <2>11. \A d \in Drones : drone'[d].version > 0 =>
             <<d, drone'[d].version, drone'[d].status>> \in stored'
      BY <1>3 DEF Versions
    <2>12. QED BY <2>7, <2>8, <2>9, <2>10, <2>11 DEF Versions
  <1>6. \/ goto(k, Idle)
        \/ goto(k, [r EXCEPT !.pc = "save", !.entity = changed(row, r.changes)])
    <2>1. CASE r.expected # NoVersion /\ r.expected # drone[r.drone].version
      BY <1>1, <2>1 DEF UpdateLoad
    <2>2. CASE ~(r.expected # NoVersion /\ r.expected # drone[r.drone].version)
      BY <1>1, <1>2, <2>2 DEF UpdateLoad
    <2>3. QED BY <2>1, <2>2
  <1>7. QED BY <1>4, <1>5, <1>6

(* An insert stores version 1, or nothing when another was faster. *)
LEMMA VersionsInsert ==
  ASSUME Where, Versions, NEW k \in Calls, CreateInsert(k)
  PROVE  Versions'
  <1>1. PICK d \in Drones : d = call[k].drone
    BY CallType DEF CreateInsert
  <1>2. PICK row \in Row : row = call[k].entity /\ row.version = 1
    BY RowTypes DEF CreateInsert, Versions
  <1>3. /\ k \in Writing /\ goto(k, Idle) /\ begun' = begun
        /\ call'[k] = Idle /\ \A l \in Calls \ {k} : call'[l] = call[l]
    BY WritingNext, IdleCall DEF CreateInsert, Writing
  <1>4. CASE drone[d].version > 0
    <2>1. \A l \in Calls : call'[l].pc \in {"insert", "load", "save"} => call'[l] = call[l]
      BY <1>3, IdleCall
    <2>2. UNCHANGED <<drone, stored, begun>>
      BY <1>1, <1>3, <1>4 DEF CreateInsert
    <2>3. QED BY <2>1, <2>2, FewerWriters
  <1>5. CASE ~(drone[d].version > 0)
    <2>1. /\ drone' = [drone EXCEPT ![d] = row]
          /\ stored' = stored \cup {<<d, row.version, row.status>>}
      BY <1>1, <1>2, <1>5 DEF CreateInsert
    <2>2. drone[d].version + Cardinality(Writing) <= begun
      BY DEF Versions
    <2>3. row.version + Cardinality(Writing) <= begun + 1
      BY <1>2, <2>2, RowTypes, WritingFinite
    <2>4. Idle \in Call /\ Idle.pc \notin {"insert", "load", "save"}
      BY IdleCall
    <2>5. QED BY <1>3, <2>1, <2>3, <2>4, WriterStores
  <1>6. QED BY <1>4, <1>5

(* Where a call is after it has issued its events. *)
LEMMA IssuedCall ==
  ASSUME Where, Where', NEW k \in Calls, NEW events, issue(k, call[k], events)
  PROVE  /\ call'[k] \in Call /\ goto(k, call'[k])
         /\ call'[k].pc \in {"idle", "publish"}
  <1>1. call' \in [Calls -> Call] /\ call \in [Calls -> Call]
    BY DEF Where, Types
  <1>2. PICK list : list = [i \in 1..Len(events) |-> Len(issued) + i]
    OBVIOUS
  <1>3. PICK r \in Call : r = call[k]
    BY <1>1
  <1>4. CASE events = <<>>
    <2>1. call' = [call EXCEPT ![k] = Idle]
      BY <1>4 DEF issue, goto
    <2>2. QED BY <1>1, <2>1, IdleCall DEF goto
  <1>5. CASE events # <<>>
    <2>1. PICK t : t = [r EXCEPT !.pc = "publish", !.events = list]
      OBVIOUS
    <2>2. t.pc = "publish"
      BY <2>1 DEF Call
    <2>3. call' = [call EXCEPT ![k] = t]
      BY <1>2, <1>3, <1>5, <2>1 DEF issue, goto
    <2>4. call'[k] = t
      BY <1>1, <2>3
    <2>5. QED BY <1>1, <2>2, <2>3, <2>4 DEF goto
  <1>6. QED BY <1>4, <1>5

(* An update stores a version that nobody counted twice. *)
LEMMA VersionsSave ==
  ASSUME Where, Versions, NEW k \in Calls, UpdateSave(k)
  PROVE  Versions'
  <1>1. PICK d \in Drones : d = call[k].drone
    BY CallType DEF UpdateSave
  <1>2. PICK saved \in Row :
           /\ saved.version \in {call[k].entity.version, drone[d].version,
                               drone[d].version + 1}
           /\ drone' = [drone EXCEPT ![d] = saved]
           /\ stored' = stored \cup {<<d, saved.version, saved.status>>}
           /\ issue(k, call[k], IF saved.status # call[k].previous.status
                                THEN <<statusEvent(call[k], saved)>> ELSE <<>>)
    BY <1>1, SavedRow
  <1>3. Where'
    BY UpdateSaveStep
  <1>4. PICK t \in Call : goto(k, t) /\ t.pc \in {"idle", "publish"}
    BY <1>2, <1>3, IssuedCall
  <1>5. k \in Writing /\ call[k].pc = "save" /\ begun' = begun
    BY DEF UpdateSave, Writing
  <1>6. /\ call[k].entity.version + Cardinality(Writing) <= begun
        /\ drone[d].version + Cardinality(Writing) <= begun
    BY <1>5 DEF Versions
  <1>7. saved.version + Cardinality(Writing) <= begun + 1
    BY SMTT(30), <1>2, <1>6, RowTypes, WritingFinite
  <1>8. t.pc \notin {"insert", "load", "save"}
    BY <1>4
  <1>9. QED BY <1>2, <1>4, <1>5, <1>7, <1>8, WriterStores

(* The other steps store no row. *)
LEMMA VersionsQuiet ==
  ASSUME Where, Versions, Where',
         \/ \E k \in Calls : UsageLoad(k) \/ UsageSaveAny(k) \/ PublishOk(k)
                             \/ PublishFails(k) \/ Abort(k)
         \/ \E f \in Flushes : Flush(f)
         \/ Crash
  PROVE  Versions'
  <1>1. UNCHANGED <<drone, stored, begun>>
    BY DEF UsageLoad, UsageSaveAny, UsageSave, PublishOk, PublishFails, Abort, Flush,
           FlushBegin, FlushDelivers, FlushFails, Crash, store
  <1>2. CASE \E k \in Calls : \E r \in Call :
               goto(k, r) /\ r.pc \notin {"insert", "load", "save"}
    <2>1. \A l \in Calls : call'[l].pc \in {"insert", "load", "save"} => call'[l] = call[l]
      BY <1>2, WritingNext
    <2>2. QED BY <1>1, <2>1, FewerWriters
  <1>3. ASSUME NEW k \in Calls, UsageLoad(k) PROVE Versions'
    <2>1. PICK r \in Call, l \in Lifecycle : r = call[k] /\ l = lifecycle[call[k].drone]
      BY <1>3, CallType DEF Where, Types, UsageLoad
    <2>2. PICK t : t = [r EXCEPT !.pc = "record", !.base = l]
      OBVIOUS
    <2>3. t \in Call /\ t.pc = "record"
      BY <2>2 DEF Call, Pcs
    <2>4. goto(k, t)
      BY <1>3, <2>1, <2>2 DEF UsageLoad
    <2>5. QED BY <1>2, <2>3, <2>4
  <1>4. ASSUME NEW k \in Calls, UsageSaveAny(k) PROVE Versions'
    <2>1. \E events : issue(k, call[k], events)
      BY <1>4, SavedUsage
    <2>2. /\ call'[k] \in Call /\ goto(k, call'[k])
          /\ call'[k].pc \in {"idle", "publish"}
      BY <2>1, IssuedCall
    <2>3. QED BY <1>2, <2>2
  <1>5. ASSUME NEW k \in Calls, PublishOk(k) \/ PublishFails(k) PROVE Versions'
    <2>1. PICK r \in Call : r = call[k] /\ r.pc = "publish"
      BY <1>5, CallType DEF PublishOk, PublishFails
    <2>2. goto(k, Idle) \/ goto(k, [r EXCEPT !.events = Tail(@)])
      BY <1>5, <2>1 DEF PublishOk, PublishFails, published
    <2>3. [r EXCEPT !.events = Tail(@)].pc = "publish"
      BY <2>1 DEF Call
    <2>4. call'[k] \in Call /\ call \in [Calls -> Call]
      BY DEF Where, Types
    <2>5. goto(k, call'[k]) /\ call'[k].pc \in {"idle", "publish"}
      BY <2>2, <2>3, <2>4, IdleCall DEF goto
    <2>6. QED BY <1>2, <2>4, <2>5
  <1>6. ASSUME NEW k \in Calls, Abort(k) PROVE Versions'
    BY <1>2, <1>6, IdleCall DEF Abort
  <1>7. ASSUME NEW f \in Flushes, Flush(f) PROVE Versions'
    <2>1. call' = call
      BY <1>7 DEF Flush, FlushBegin, FlushDelivers, FlushFails
    <2>2. QED BY <1>1, <2>1, FewerWriters
  <1>8. ASSUME Crash PROVE Versions'
    <2>1. \A l \in Calls : call'[l].pc = "idle"
      BY <1>8, IdleCall DEF Crash
    <2>2. QED BY <1>1, <2>1, FewerWriters
  <1>9. QED BY <1>3, <1>4, <1>5, <1>6, <1>7, <1>8

-----------------------------------------------------------------------------
(* The events that were issued *)

Announced(d, c) ==
  \E i \in 1..Len(issued) :
    issued[i].kind = "maintenance" /\ issued[i].drone = d /\ issued[i].component = c

(* Every component that is due by a stored reading, or by one that a call   *)
(* will compare its own with, was announced; a reading that never was is    *)
(* not due.                                                                 *)
DueAnnounced(l, d) == \A c \in evaluateMaintenance(l) : Announced(d, c)

Due ==
  /\ \A d \in Drones : DueAnnounced(lifecycle[d], d)
  /\ \A k \in Calls : call[k].pc = "record" => DueAnnounced(call[k].base, call[k].drone)

StatusSound(e, rows) ==
  /\ <<e.drone, e.version, e.status>> \in rows
  /\ e.previousStatus # e.status
  /\ \E v \in 1..MaxCalls : <<e.drone, v, e.previousStatus>> \in rows

Statements ==
  \A i \in 1..Len(issued) : issued[i].kind = "status" => StatusSound(issued[i], stored)

(* What was announced stays announced. *)
LEMMA StillAnnounced ==
  ASSUME Where, NEW events \in Seq(StatusEvent \cup MaintenanceEvent),
         issued' = issued \o events
  PROVE  /\ Len(issued') = Len(issued) + Len(events)
         /\ Len(issued) \in Nat /\ Len(events) \in Nat
         /\ \A i \in 1..Len(issued) : issued'[i] = issued[i]
         /\ \A i \in 1..Len(events) : issued'[Len(issued) + i] = events[i]
         /\ \A d, c : Announced(d, c) => Announced(d, c)'
  <1>1. /\ Len(issued') = Len(issued) + Len(events)
        /\ Len(issued) \in Nat /\ Len(events) \in Nat
        /\ \A i \in 1..Len(issued) : issued'[i] = issued[i]
    BY ConcatProperties, LenProperties DEF Where, Types
  <1>2. \A i \in 1..Len(events) : issued'[Len(issued) + i] = events[i]
    <2>1. TAKE i \in 1..Len(events)
    <2>2. issued \in Seq(StatusEvent \cup MaintenanceEvent)
      BY DEF Where, Types
    <2>3. /\ Len(issued) + i \in 1..Len(issued) + Len(events)
          /\ ~(Len(issued) + i <= Len(issued)) /\ Len(issued) + i - Len(issued) = i
      BY <1>1
    <2>4. QED BY <1>1, <2>2, <2>3, ConcatProperties
  <1>3. \A d, c : Announced(d, c) => Announced(d, c)'
    BY <1>1 DEF Announced
  <1>4. QED BY <1>1, <1>2, <1>3

(* A step that issues nothing keeps what was said true. *)
LEMMA SilentStep ==
  ASSUME Where, Statements, UNCHANGED issued, stored \subseteq stored'
  PROVE  Statements' /\ \A d, c : Announced(d, c) => Announced(d, c)'
  <1>1. \A d, c : Announced(d, c) => Announced(d, c)'
    BY DEF Announced
  <1>2. Statements'
    BY DEF Statements, StatusSound
  <1>3. QED BY <1>1, <1>2

(* An update says what it stored and what its reading was stored as. *)
LEMMA StatementsSave ==
  ASSUME Where, Versions, Statements, NEW k \in Calls, UpdateSave(k)
  PROVE  Statements' /\ \A d, c : Announced(d, c) => Announced(d, c)'
  <1>1. PICK r \in Call : r = call[k] /\ r.drone \in Drones /\ r.pc = "save"
    BY CallType DEF UpdateSave
  <1>2. PICK saved \in Row :
           /\ stored' = stored \cup {<<r.drone, saved.version, saved.status>>}
           /\ issue(k, r, IF saved.status # r.previous.status
                          THEN <<statusEvent(r, saved)>> ELSE <<>>)
    BY <1>1, SavedRow
  <1>3. CASE saved.status = r.previous.status
    <2>1. issue(k, r, <<>>)
      BY <1>2, <1>3
    <2>2. issued' = issued \o <<>> /\ issued \in Seq(StatusEvent \cup MaintenanceEvent)
      BY <2>1 DEF issue, Where, Types
    <2>3. issued' = issued
      BY <2>2, ConcatEmptySeq
    <2>4. QED BY <1>2, <2>3, SilentStep
  <1>4. CASE saved.status # r.previous.status
    <2>1. PICK e \in StatusEvent : e = statusEvent(r, saved)
      BY <1>1, CallFields DEF Row, statusEvent, StatusEvent
    <2>2. /\ e.drone = r.drone /\ e.previousStatus = r.previous.status
          /\ e.status = saved.status /\ e.version = saved.version
      BY <2>1 DEF statusEvent
    <2>3. issue(k, r, <<e>>)
      BY <1>2, <1>4, <2>1
    <2>4. /\ issued' = issued \o <<e>>
          /\ <<e>> \in Seq(StatusEvent \cup MaintenanceEvent)
          /\ Len(<<e>>) = 1 /\ <<e>>[1] = e
      BY <2>3 DEF issue
    <2>5. PICK list \in Seq(StatusEvent \cup MaintenanceEvent) : list = <<e>>
      BY <2>4
    <2>6. Len(list) = 1 /\ list[1] = e /\ issued' = issued \o list
      BY <2>4, <2>5
    <2>7. StatusSound(e, stored')
      <3>1. <<e.drone, e.version, e.status>> \in stored'
        BY <1>2, <2>2
      <3>2. e.previousStatus # e.status
        BY <1>4, <2>2
      <3>3. /\ r.previous.version \in 1..MaxCalls
            /\ <<r.drone, r.previous.version, r.previous.status>> \in stored'
        BY <1>1, <1>2 DEF Versions
      <3>4. QED BY <2>2, <3>1, <3>2, <3>3 DEF StatusSound
    <2>8. ASSUME NEW i \in 1..Len(issued'), issued'[i].kind = "status"
          PROVE  StatusSound(issued'[i], stored')
      <3>1. CASE i \in 1..Len(issued)
        <4>1. issued'[i] = issued[i] /\ StatusSound(issued[i], stored)
          BY <2>6, <2>8, <3>1, StillAnnounced DEF Statements
        <4>2. QED BY <1>2, <4>1 DEF StatusSound
      <3>2. CASE i \notin 1..Len(issued)
        <4>1. i = Len(issued) + 1
          BY <2>6, <3>2, StillAnnounced
        <4>2. issued'[i] = e
          BY <2>6, <4>1, StillAnnounced
        <4>3. QED BY <2>7, <4>2
      <3>3. QED BY <3>1, <3>2
    <2>9. Statements'
      BY <2>8 DEF Statements
    <2>10. QED BY <2>6, <2>9, StillAnnounced
  <1>5. QED BY <1>3, <1>4

(* A step that saves no reading and takes none: what is due was announced. *)
LEMMA DueKept ==
  ASSUME Due, UNCHANGED lifecycle, \A d, c : Announced(d, c) => Announced(d, c)',
         \A l \in Calls : call'[l].pc = "record" => call'[l] = call[l]
  PROVE  Due'
  <1>1. \A d \in Drones : DueAnnounced(lifecycle[d], d)'
    BY DEF Due, DueAnnounced
  <1>2. \A l \in Calls : call'[l].pc = "record" => DueAnnounced(call[l].base, call[l].drone)'
    <2>1. SUFFICES ASSUME NEW l \in Calls, call'[l].pc = "record"
                   PROVE  DueAnnounced(call[l].base, call[l].drone)'
      OBVIOUS
    <2>2. PICK d, b : d = call[l].drone /\ b = call[l].base
      OBVIOUS
    <2>3. call'[l] = call[l]
      BY <2>1
    <2>4. \A c \in evaluateMaintenance(b) : Announced(d, c)'
      BY <2>1, <2>2, <2>3 DEF Due, DueAnnounced
    <2>5. d = call'[l].drone /\ b = call'[l].base
      BY <2>2, <2>3
    <2>6. QED BY <2>4, <2>5 DEF DueAnnounced, Announced
  <1>3. QED BY <1>1, <1>2 DEF Due

(* A reading is compared with is announced like the row it was read from. *)
LEMMA DueLoad ==
  ASSUME Where, Due, NEW k \in Calls, UsageLoad(k)
  PROVE  Due'
  <1>1. PICK r \in Call : r = call[k] /\ r.drone \in Drones
    BY CallType DEF UsageLoad
  <1>2. PICK l \in Lifecycle : l = lifecycle[r.drone]
    BY <1>1 DEF Where, Types
  <1>3. PICK t \in Call : t = [r EXCEPT !.pc = "record", !.base = l]
    BY DEF Call, Pcs
  <1>4. t.drone = r.drone /\ t.base = l
    BY <1>3 DEF Call
  <1>5. goto(k, t) /\ UNCHANGED <<lifecycle, issued>>
    BY <1>1, <1>2, <1>3 DEF UsageLoad, store
  <1>6. call'[k] = t /\ \A j \in Calls \ {k} : call'[j] = call[j]
    BY <1>5, WritingNext
  <1>7. \A d, c : Announced(d, c) <=> Announced(d, c)'
    BY <1>5 DEF Announced
  <1>8. \A d \in Drones : \A c \in evaluateMaintenance(lifecycle'[d]) : Announced(d, c)
    BY <1>5 DEF Due, DueAnnounced
  <1>9. \A j \in Calls : call'[j].pc = "record" =>
          \A c \in evaluateMaintenance(call'[j].base) : Announced(call'[j].drone, c)
    <2>1. \A c \in evaluateMaintenance(t.base) : Announced(t.drone, c)
      BY <1>1, <1>2, <1>4 DEF Due, DueAnnounced
    <2>2. QED BY <1>6, <2>1 DEF Due, DueAnnounced
  <1>10. QED BY <1>5, <1>8, <1>9 DEF Due, DueAnnounced, Announced

(* What becomes due by a reading that is saved is announced with it; what   *)
(* was due by the reading it replaces had been announced before.            *)
LEMMA DueSave ==
  ASSUME Where, Due, Statements, NEW k \in Calls, UsageSaveAny(k)
  PROVE  Due' /\ Statements'
  <1>1. PICK r \in Call : r = call[k] /\ r.drone \in Drones /\ r.pc = "record"
    BY CallType DEF UsageSaveAny, UsageSave
  <1>2. PICK next \in Lifecycle, events \in Seq(StatusEvent \cup MaintenanceEvent) :
           /\ next.present
           /\ lifecycle' = [lifecycle EXCEPT ![call[k].drone] = next]
           /\ issue(k, call[k], events)
           /\ \A i \in 1..Len(events) : events[i].kind = "maintenance"
           /\ \A c \in evaluateMaintenance(next) \ evaluateMaintenance(call[k].base) :
                \E i \in 1..Len(events) :
                  events[i].drone = call[k].drone /\ events[i].component = c
    BY SavedUsage
  <1>3. issued' = issued \o events
    BY <1>2 DEF issue
  <1>4. /\ Len(issued') = Len(issued) + Len(events)
        /\ Len(issued) \in Nat /\ Len(events) \in Nat
        /\ \A i \in 1..Len(issued) : issued'[i] = issued[i]
        /\ \A i \in 1..Len(events) : issued'[Len(issued) + i] = events[i]
        /\ \A d, c : Announced(d, c) => Announced(d, c)'
    BY <1>3, StillAnnounced
  <1>5. ASSUME NEW d, d = r.drone, NEW c \in evaluateMaintenance(next)
        PROVE  Announced(d, c)'
    <2>1. CASE c \in evaluateMaintenance(r.base)
      <3>1. Announced(d, c)
        BY <1>1, <1>5, <2>1 DEF Due, DueAnnounced
      <3>2. QED BY <1>4, <3>1
    <2>2. CASE c \notin evaluateMaintenance(r.base)
      <3>1. PICK i \in 1..Len(events) :
              /\ events[i].drone = r.drone /\ events[i].component = c
              /\ events[i].kind = "maintenance"
        BY <1>1, <1>2, <1>5, <2>2
      <3>2. /\ Len(issued) + i \in 1..Len(issued')
            /\ issued'[Len(issued) + i] = events[i]
        BY <1>4
      <3>3. QED BY <1>5, <3>1, <3>2 DEF Announced
    <2>3. QED BY <2>1, <2>2
  <1>6. /\ lifecycle'[r.drone] = next
        /\ \A d \in Drones \ {r.drone} : lifecycle'[d] = lifecycle[d]
    BY <1>1, <1>2 DEF Where, Types
  <1>7. ASSUME NEW d \in Drones, NEW c \in evaluateMaintenance(lifecycle'[d])
        PROVE  Announced(d, c)'
    <2>1. CASE d = r.drone
      BY <1>5, <1>6, <1>7, <2>1
    <2>2. CASE d # r.drone
      <3>1. Announced(d, c)
        BY <1>6, <1>7, <2>2 DEF Due, DueAnnounced
      <3>2. QED BY <1>4, <3>1
    <2>3. QED BY <2>1, <2>2
  <1>8. /\ call'[k] \in Call /\ goto(k, call'[k])
        /\ call'[k].pc \in {"idle", "publish"}
    BY <1>1, <1>2, UsageSaveStep, IssuedCall
  <1>9. \A l \in Calls \ {k} : call'[l] = call[l]
    BY <1>8, WritingNext
  <1>10. ASSUME NEW l \in Calls, call'[l].pc = "record",
                NEW c \in evaluateMaintenance(call'[l].base),
                NEW d, d = call'[l].drone
         PROVE  Announced(d, c)'
    <2>1. call'[l] = call[l]
      BY <1>8, <1>9, <1>10
    <2>2. Announced(d, c)
      BY <1>10, <2>1 DEF Due, DueAnnounced
    <2>3. QED BY <1>4, <2>2
  <1>11. Due'
    <2>1. \A d \in Drones : DueAnnounced(lifecycle[d], d)'
      BY <1>7 DEF DueAnnounced
    <2>2. ASSUME NEW l \in Calls, call'[l].pc = "record"
          PROVE  DueAnnounced(call[l].base, call[l].drone)'
      <3>1. PICK d : d = call'[l].drone
        OBVIOUS
      <3>2. \A c \in evaluateMaintenance(call'[l].base) : Announced(d, c)'
        BY <1>10, <2>2, <3>1
      <3>3. QED BY <3>1, <3>2 DEF DueAnnounced, Announced
    <2>3. QED BY <2>1, <2>2 DEF Due
  <1>12. ASSUME NEW i \in 1..Len(issued'), issued'[i].kind = "status"
         PROVE  StatusSound(issued'[i], stored')
    <2>1. CASE i \in 1..Len(issued)
      <3>1. issued'[i] = issued[i] /\ StatusSound(issued[i], stored)
        BY <1>4, <1>12, <2>1 DEF Statements
      <3>2. stored' = stored
        BY DEF UsageSaveAny, UsageSave
      <3>3. QED BY <3>1, <3>2
    <2>2. CASE i \notin 1..Len(issued)
      <3>1. PICK j \in 1..Len(events) : i = Len(issued) + j
        <4>1. i - Len(issued) \in 1..Len(events) /\ i = Len(issued) + (i - Len(issued))
          BY <1>4, <2>2
        <4>2. QED BY <4>1
      <3>2. issued'[i].kind = "maintenance"
        BY ZenonT(60), <1>2, <1>4, <3>1
      <3>3. QED BY <1>12, <3>2
    <2>3. QED BY <2>1, <2>2
  <1>13. Statements'
    BY <1>12 DEF Statements
  <1>14. QED BY <1>11, <1>13

-----------------------------------------------------------------------------
(* The inductive invariant *)

IInv == Where /\ Versions /\ Due /\ Statements

(* Nothing was written, issued or begun. *)
LEMMA InitIInv == Init => IInv
  <1> SUFFICES ASSUME Init PROVE IInv
    OBVIOUS
  <1> USE DEF Init
  <1>1. Types
    <2>1. 0 \in 0..MaxCalls /\ <<>> \in Seq(Nat)
          /\ <<>> \in Seq(StatusEvent \cup MaintenanceEvent)
      BY FleetAssumption
    <2>2. QED BY <2>1, IdleCall DEF Types
  <1>2. Lists
    BY IdleCall, EmptyList DEF Lists
  <1>3. OnePlace(place, Len(issued))
    <2>1. Len(issued) = 0
      OBVIOUS
    <2>2. \A x \in Places : place[x] = {}
      BY PlaceOf, PlacesApart, EmptyList, IdleCall
    <2>3. QED BY <2>1, <2>2 DEF OnePlace
  <1>4. Versions
    <2>1. Writing = {}
      BY IdleCall DEF Writing
    <2>2. Cardinality(Writing) = 0
      BY <2>1, FS_EmptySet
    <2>3. \A d \in Drones : drone[d].version = 0
      BY DEF NoDrone
    <2>4. \A k \in Calls : call[k].pc = "idle"
      BY IdleCall
    <2>5. QED BY <2>2, <2>3, <2>4 DEF Versions
  <1>5. Due
    <2>1. evaluateMaintenance(NoLifecycle) = {}
      BY FleetAssumption DEF evaluateMaintenance, NoLifecycle
    <2>2. \A k \in Calls : call[k].pc = "idle"
      BY IdleCall
    <2>3. QED BY <2>1, <2>2 DEF Due, DueAnnounced
  <1>6. Statements
    BY DEF Statements
  <1>7. QED BY <1>1, <1>2, <1>3, <1>4, <1>5, <1>6 DEF IInv, Where

(* Every step of a call, of a flush and a crash keeps the invariant. *)
LEMMA NextIInv ==
  ASSUME IInv, [Next]_vars
  PROVE  IInv'
  <1> USE DEF IInv
  <1>1. CASE UNCHANGED vars
    <2>1. UNCHANGED <<drone, lifecycle, call, queue, flush, delivered, begun, issued, lost,
                      stored>>
      BY <1>1 DEF vars
    <2>2. Types' /\ Lists' /\ Versions' /\ Due' /\ Statements'
      BY <2>1 DEF Where, Types, Lists, Versions, Writing, Due, DueAnnounced, Announced,
                  Statements
    <2>3. \A x \in Places : place'[x] = place[x]
      BY <2>1, PlaceOf, PlaceOfNext, PlacesApart
    <2>4. OnePlace(place', Len(issued'))
      BY <2>1, <2>3 DEF Where, OnePlace
    <2>5. QED BY <2>2, <2>4 DEF Where, OnePlace
  <1>2. ASSUME UNCHANGED <<lifecycle, issued>>, stored \subseteq stored',
               \A l \in Calls : call'[l].pc = "record" => call'[l] = call[l]
        PROVE  Due' /\ Statements'
    BY <1>2, SilentStep, DueKept
  <1>3. ASSUME NEW k \in Calls, Begin(k) PROVE IInv'
    <2>1. UNCHANGED <<lifecycle, stored, issued>> /\ Where'
      BY <1>3, BeginStep DEF store
    <2>2. PICK r \in Call : Opened(r) /\ goto(k, r)
      BY <1>3, BeginStep
    <2>3. \A l \in Calls : call'[l].pc = "record" => call'[l] = call[l]
      BY <2>2, WritingNext DEF Opened
    <2>4. QED BY <1>2, <1>3, <2>1, <2>3, VersionsBegin
  <1>4. ASSUME NEW k \in Calls, CreateInsert(k) \/ Abort(k) PROVE IInv'
    <2>1. UNCHANGED <<lifecycle, issued>> /\ stored \subseteq stored' /\ goto(k, Idle)
      BY <1>4 DEF CreateInsert, Abort, store
    <2>2. \A l \in Calls : call'[l].pc = "record" => call'[l] = call[l]
      BY <2>1, WritingNext, IdleCall
    <2>3. Where' /\ Versions'
      BY <1>4, ResumeStep, VersionsInsert, VersionsQuiet
    <2>4. QED BY <1>2, <2>1, <2>2, <2>3
  <1>5. ASSUME NEW k \in Calls, UpdateLoad(k) PROVE IInv'
    <2>1. UNCHANGED <<lifecycle, issued, stored>>
      BY <1>5 DEF UpdateLoad, store
    <2>2. PICK r \in Call : r = call[k]
      BY CallType
    <2>3. \E t : goto(k, t) /\ t.pc # "record"
      <3>1. \A e : [r EXCEPT !.pc = "save", !.entity = e].pc = "save"
        BY DEF Call
      <3>2. QED BY <1>5, <2>2, <3>1, IdleCall DEF UpdateLoad
    <2>4. \A l \in Calls : call'[l].pc = "record" => call'[l] = call[l]
      BY <2>3 DEF goto, Where, Types
    <2>5. Where' /\ Versions'
      BY <1>5, ResumeStep, VersionsLoad
    <2>6. QED BY <1>2, <2>1, <2>4, <2>5
  <1>6. ASSUME NEW k \in Calls, UpdateSave(k) PROVE IInv'
    <2>1. Where' /\ Versions'
      BY <1>6, UpdateSaveStep, VersionsSave
    <2>2. Statements' /\ \A d, c : Announced(d, c) => Announced(d, c)'
      BY <1>6, StatementsSave
    <2>3. \E events : issue(k, call[k], events)
      BY <1>6, SavedRow
    <2>4. /\ call'[k] \in Call /\ goto(k, call'[k])
          /\ call'[k].pc \in {"idle", "publish"}
      BY <2>1, <2>3, IssuedCall
    <2>5. \A l \in Calls : call'[l].pc = "record" => call'[l] = call[l]
      BY <2>4, WritingNext
    <2>6. UNCHANGED lifecycle
      BY <1>6 DEF UpdateSave
    <2>7. QED BY <2>1, <2>2, <2>5, <2>6, DueKept
  <1>7. ASSUME NEW k \in Calls, UsageLoad(k) PROVE IInv'
    <2>1. Where' /\ Versions'
      BY <1>7, ResumeStep, VersionsQuiet
    <2>2. UNCHANGED <<issued, stored>>
      BY <1>7 DEF UsageLoad, store
    <2>3. QED BY <1>7, <2>1, <2>2, DueLoad, SilentStep
  <1>8. ASSUME NEW k \in Calls, UsageSaveAny(k) PROVE IInv'
    <2>1. Where' /\ Versions'
      BY <1>8, UsageSaveStep, VersionsQuiet
    <2>2. QED BY <1>8, <2>1, DueSave
  <1>9. ASSUME NEW k \in Calls, PublishOk(k) \/ PublishFails(k) PROVE IInv'
    <2>1. Where' /\ Versions'
      BY <1>9, PublishStep, VersionsQuiet
    <2>2. PICK r \in Call : r = call[k] /\ r.pc = "publish"
      BY <1>9, CallType DEF PublishOk, PublishFails
    <2>3. \E t : goto(k, t) /\ t.pc # "record"
      <3>1. [r EXCEPT !.events = Tail(@)].pc = "publish"
        BY <2>2 DEF Call
      <3>2. QED BY <1>9, <2>2, <3>1, IdleCall DEF PublishOk, PublishFails, published
    <2>4. \A l \in Calls : call'[l].pc = "record" => call'[l] = call[l]
      BY <2>3 DEF goto, Where, Types
    <2>5. UNCHANGED <<lifecycle, stored, issued>>
      BY <1>9 DEF PublishOk, PublishFails, store
    <2>6. QED BY <1>2, <2>1, <2>4, <2>5
  <1>10. ASSUME NEW f \in Flushes, Flush(f) PROVE IInv'
    <2>1. Where' /\ Versions'
      BY <1>10, FlushStep, VersionsQuiet
    <2>2. UNCHANGED <<lifecycle, stored, issued, call>>
      BY <1>10 DEF Flush, FlushBegin, FlushDelivers, FlushFails, store
    <2>3. QED BY <1>2, <2>1, <2>2
  <1>11. ASSUME Crash PROVE IInv'
    <2>1. Where' /\ Versions'
      BY <1>11, CrashStep, VersionsQuiet
    <2>2. UNCHANGED <<lifecycle, stored, issued>> /\ \A l \in Calls : call'[l].pc = "idle"
      BY <1>11, IdleCall DEF Crash, store
    <2>3. QED BY <1>2, <2>1, <2>2
  <1>12. QED BY <1>1, <1>3, <1>4, <1>5, <1>6, <1>7, <1>8, <1>9, <1>10, <1>11
             DEF Next, Resume

(* The invariant holds throughout. *)
LEMMA Inductive == Spec => []IInv
  BY InitIInv, NextIInv, PTL DEF Spec

-----------------------------------------------------------------------------
(* The theorems *)

(***************************************************************************)
(* An issued event is in exactly one place at any time, whatever the       *)
(* overlap of calls and flushes, failed deliveries and crashes             *)
(* (events/resilient-event-publisher.ts).                                  *)
(***************************************************************************)
THEOREM EventsInOnePlace == Spec => []EachEventOnce
  <1>1. IInv => EachEventOnce
    <2> SUFFICES ASSUME IInv PROVE EachEventOnce
      OBVIOUS
    <2>1. Types /\ OnePlace(place, Len(issued))
      BY DEF IInv, Where
    <2>2. /\ elements(queue) \subseteq 1..Len(issued)
          /\ \A f \in Flushes : elements(flush[f]) \subseteq 1..Len(issued)
          /\ delivered \subseteq 1..Len(issued) /\ lost \subseteq 1..Len(issued)
          /\ \A k \in Calls : elements(call[k].events) \subseteq 1..Len(issued)
      BY <2>1, PlaceOf DEF OnePlace
    <2>3. \A k \in Calls : /\ call[k].pc \in Pcs /\ call[k].base \in Lifecycle
                           /\ call[k].previous \in Row /\ call[k].entity \in Row
      BY <2>1, CallFields DEF Types
    <2>4. TypeOK
      BY <2>1, <2>2, <2>3 DEF TypeOK, Types, Pcs
    <2>5. QED BY <2>1, <2>4 DEF EachEventOnce, OnePlace
  <1>2. QED BY <1>1, Inductive, PTL

(***************************************************************************)
(* Every component that its stored counter makes due was announced, and a  *)
(* status event states two different statuses that the row had, although   *)
(* overlapping calls decide by stale reads and overwrite each other        *)
(* (drones/fleet-registry.service.ts, typeorm-drone-store.ts).             *)
(***************************************************************************)
THEOREM EventsTellRows == Spec => []EventsMatchRows
  <1>1. IInv => EventsMatchRows
    BY DEF IInv, Due, DueAnnounced, Announced, Statements, StatusSound, EventsMatchRows
  <1>2. QED BY <1>1, Inductive, PTL

=============================================================================
