--------------------------- MODULE MissionsProofs ---------------------------
(***************************************************************************)
(* Theorems about Missions, for any requests, zones and templates.  What   *)
(* the sort by number returns comes first: a valid plan has one waypoint   *)
(* for each number, so that the sort puts every one in its place.          *)
(***************************************************************************)
EXTENDS Missions, FiniteSetTheorems, SequenceTheorems, TLAPS

(* A plan in order: what the store returns and exportMavlink is given. *)
Placed(plan) ==
  /\ plan \in Seq(Waypoint) /\ plan # <<>>
  /\ \A i \in 1..Len(plan) : plan[i].seq = i - 1 /\ inRange(plan[i])

-----------------------------------------------------------------------------
(* The sort *)

(* The order the sort computes, and what it must satisfy. *)
InOrder(plan, p) ==
  \A i, j \in 1..Len(plan) : i < j =>
    \/ plan[p[i]].seq < plan[p[j]].seq
    \/ plan[p[i]].seq = plan[p[j]].seq /\ p[i] < p[j]

(* How many numbers there are from 0, or from 1. *)
LEMMA CountTo ==
  ASSUME NEW n \in Nat
  PROVE  /\ IsFiniteSet(1..n) /\ Cardinality(1..n) = n
         /\ IsFiniteSet(0..n - 1) /\ Cardinality(0..n - 1) = n
  <1>1. 0 \in Int /\ 1 \in Int /\ n \in Int /\ n - 1 \in Int
    OBVIOUS
  <1>2. IsFiniteSet(1..n) /\ Cardinality(1..n) = IF 1 > n THEN 0 ELSE n - 1 + 1
    BY <1>1, FS_Interval
  <1>3. IsFiniteSet(0..n - 1) /\ Cardinality(0..n - 1) = IF 0 > n - 1 THEN 0 ELSE (n - 1) - 0 + 1
    BY <1>1, FS_Interval
  <1>4. QED BY <1>2, <1>3

(* The waypoints of a contiguous plan have different numbers. *)
LEMMA NumbersDiffer ==
  ASSUME NEW plan, Len(plan) \in Nat, contiguous(plan)
  PROVE  /\ \A i \in 1..Len(plan) : plan[i].seq \in 0..Len(plan) - 1
         /\ \A x \in 0..Len(plan) - 1 : \E i \in 1..Len(plan) : plan[i].seq = x
         /\ \A i, j \in 1..Len(plan) : plan[i].seq = plan[j].seq => i = j
  <1> DEFINE n == Len(plan)
             f == [i \in 1..n |-> plan[i].seq]
  <1>1. \A i \in 1..n : plan[i].seq \in 0..n - 1
    BY DEF contiguous
  <1>2. \A x \in 0..n - 1 : \E i \in 1..n : plan[i].seq = x
    BY DEF contiguous
  <1>3. f \in Surjection(1..n, 0..n - 1)
    BY <1>1, <1>2 DEF Surjection
  <1>4. /\ IsFiniteSet(1..n) /\ Cardinality(1..n) = n
        /\ IsFiniteSet(0..n - 1) /\ Cardinality(0..n - 1) = n
    BY CountTo
  <1>5. f \in Injection(1..n, 0..n - 1)
    BY <1>3, <1>4, FS_SurjSameCardinalityImpliesInj
  <1>6. QED BY <1>1, <1>2, <1>5 DEF Injection, IsInjective

(* Some permutation puts a contiguous plan in order. *)
LEMMA OrderExists ==
  ASSUME NEW plan, Len(plan) \in Nat, contiguous(plan)
  PROVE  \E p \in Bijection(1..Len(plan), 1..Len(plan)) : InOrder(plan, p)
  <1> DEFINE n == Len(plan)
             q == [j \in 1..n |-> CHOOSE i \in 1..n : plan[i].seq = j - 1]
  <1>1. \A j \in 1..n : q[j] \in 1..n /\ plan[q[j]].seq = j - 1
    <2> TAKE j \in 1..n
    <2>1. \E i \in 1..n : plan[i].seq = j - 1
      BY NumbersDiffer
    <2>2. QED BY <2>1
  <1>2. \A i \in 1..n : q[plan[i].seq + 1] = i
    BY <1>1, NumbersDiffer
  <1>3. q \in [1..n -> 1..n]
    BY <1>1
  <1>4. \A a, b \in 1..n : q[a] = q[b] => a = b
    BY <1>1
  <1>5. \A i \in 1..n : \E j \in 1..n : q[j] = i
    <2> TAKE i \in 1..n
    <2>1. plan[i].seq \in 0..n - 1
      BY NumbersDiffer
    <2>2. plan[i].seq + 1 \in 1..n
      BY <2>1
    <2>3. QED BY <1>2, <2>2
  <1>6. q \in Bijection(1..n, 1..n)
    BY <1>3, <1>4, <1>5 DEF Bijection, Injection, Surjection, IsInjective
  <1>7. InOrder(plan, q)
    <2> SUFFICES ASSUME NEW i \in 1..n, NEW j \in 1..n, i < j
                 PROVE  plan[q[i]].seq < plan[q[j]].seq
      BY DEF InOrder
    <2>1. plan[q[i]].seq = i - 1 /\ plan[q[j]].seq = j - 1
      BY <1>1
    <2>2. QED BY <2>1
  <1>8. QED BY <1>6, <1>7

(* A strictly ascending list of the numbers 0..n - 1 has each in its place.  *)
LEMMA AscendingIsIdentity ==
  ASSUME NEW n \in Nat, NEW g \in [1..n -> 0..n - 1],
         \A x \in 0..n - 1 : \E i \in 1..n : g[i] = x,
         \A i, j \in 1..n : i < j => g[i] < g[j]
  PROVE  \A i \in 1..n : g[i] = i - 1
  <1> TAKE i \in 1..n
  <1> DEFINE h == [j \in 1..i - 1 |-> g[j]]
  <1>1. h \in [1..i - 1 -> 0..g[i] - 1]
    <2> SUFFICES ASSUME NEW j \in 1..i - 1
                 PROVE  g[j] \in 0..g[i] - 1
      OBVIOUS
    <2>1. j \in 1..n /\ j < i
      OBVIOUS
    <2>2. g[j] < g[i]
      BY <2>1
    <2>3. g[j] \in 0..n - 1 /\ g[i] \in 0..n - 1
      BY <2>1
    <2>4. QED BY <2>2, <2>3
  <1>2. \A x \in 0..g[i] - 1 : \E j \in 1..i - 1 : g[j] = x
    <2> TAKE x \in 0..g[i] - 1
    <2>1. PICK j \in 1..n : g[j] = x
      OBVIOUS
    <2>2. \/ j < i \/ j = i \/ i < j
      OBVIOUS
    <2>3. g[i] \in Nat /\ g[j] \in Nat
      <3>1. g[i] \in 0..n - 1 /\ g[j] \in 0..n - 1
        OBVIOUS
      <3>2. QED BY <3>1
    <2>4. x \in Int /\ x <= g[i] - 1
      BY <2>3
    <2>5. g[j] < g[i]
      BY <2>1, <2>3, <2>4
    <2>6. j < i
      <3>1. i < j => g[i] < g[j]
        OBVIOUS
      <3>2. ~(i < j)
        BY <2>3, <2>5, <3>1
      <3>3. i # j
        BY <2>3, <2>5
      <3>4. QED BY <2>2, <3>2, <3>3
    <2>7. QED BY <2>1, <2>6
  <1>3. \A a, b \in 1..i - 1 : g[a] = g[b] => a = b
    <2> TAKE a, b \in 1..i - 1
    <2>1. /\ a \in 1..n /\ b \in 1..n /\ (a < b \/ a = b \/ b < a)
          /\ g[a] \in Int /\ g[b] \in Int
      OBVIOUS
    <2>2. QED BY <2>1
  <1>4. h \in Bijection(1..i - 1, 0..g[i] - 1)
    BY <1>1, <1>2, <1>3 DEF Bijection, Injection, Surjection, IsInjective
  <1>5. IsFiniteSet(1..i - 1) /\ Cardinality(1..i - 1) = i - 1
    <2>1. i - 1 \in Nat
      OBVIOUS
    <2>2. QED BY <2>1, CountTo
  <1>6. Cardinality(0..g[i] - 1) = i - 1
    BY <1>4, <1>5, FS_Bijection DEF ExistsBijection
  <1>7. g[i] \in Nat
    OBVIOUS
  <1>8. Cardinality(0..g[i] - 1) = g[i]
    BY <1>7, CountTo
  <1>9. QED BY <1>6, <1>8

(* The sort of a contiguous plan has every waypoint at the place of its      *)
(* number.                                                                   *)
LEMMA SortPlaces ==
  ASSUME NEW plan, Len(plan) \in Nat, contiguous(plan)
  PROVE  \E p \in [1..Len(plan) -> 1..Len(plan)] :
           /\ bySeq(plan) = [i \in 1..Len(plan) |-> plan[p[i]]]
           /\ \A i \in 1..Len(plan) : plan[p[i]].seq = i - 1
  <1> DEFINE n == Len(plan)
             p == CHOOSE p \in Bijection(1..n, 1..n) : InOrder(plan, p)
             g == [i \in 1..n |-> plan[p[i]].seq]
  <1>1. p \in Bijection(1..n, 1..n) /\ InOrder(plan, p)
    BY OrderExists
  <1>2. bySeq(plan) = [i \in 1..n |-> plan[p[i]]]
    BY DEF bySeq, InOrder
  <1> HIDE DEF p
  <1>3. /\ p \in [1..n -> 1..n]
        /\ \A i, j \in 1..n : p[i] = p[j] => i = j
        /\ \A k \in 1..n : \E i \in 1..n : p[i] = k
    BY <1>1 DEF Bijection, Injection, Surjection, IsInjective
  <1>4. g \in [1..n -> 0..n - 1]
    BY <1>3, NumbersDiffer
  <1>5. \A x \in 0..n - 1 : \E i \in 1..n : g[i] = x
    <2> TAKE x \in 0..n - 1
    <2>1. PICK k \in 1..n : plan[k].seq = x
      BY NumbersDiffer
    <2>2. PICK i \in 1..n : p[i] = k
      BY <1>3
    <2>3. QED BY <2>1, <2>2
  <1>6. \A i, j \in 1..n : i < j => g[i] < g[j]
    <2> TAKE i, j \in 1..n
    <2> HAVE i < j
    <2>1. p[i] \in 1..n /\ p[j] \in 1..n /\ p[i] # p[j]
      <3>1. i # j
        OBVIOUS
      <3>2. QED BY <1>3, <3>1
    <2>2. plan[p[i]].seq # plan[p[j]].seq
      BY <2>1, NumbersDiffer
    <2>3. QED BY <1>1, <2>2 DEF InOrder
  <1>7. \A i \in 1..n : g[i] = i - 1
    BY <1>4, <1>5, <1>6, AscendingIsIdentity
  <1>8. QED BY <1>2, <1>3, <1>7

(* What is stored of a valid plan is in order. *)
LEMMA SortedIsPlaced ==
  ASSUME NEW plan \in Seq(Waypoint), plan # <<>>, isValid(plan)
  PROVE  Placed(bySeq(plan))
  <1>1. Len(plan) \in Nat /\ \A i \in 1..Len(plan) : plan[i] \in Waypoint
    BY ElementOfSeq, LenProperties
  <1>2. Len(plan) # 0
    BY EmptySeq
  <1>3. PICK p \in [1..Len(plan) -> 1..Len(plan)] :
           /\ bySeq(plan) = [i \in 1..Len(plan) |-> plan[p[i]]]
           /\ \A i \in 1..Len(plan) : plan[p[i]].seq = i - 1
    BY <1>1, SortPlaces DEF isValid
  <1> DEFINE s == bySeq(plan)
  <1>4. s \in [1..Len(plan) -> Waypoint]
    BY <1>1, <1>3
  <1>5. s \in Seq(Waypoint) /\ Len(s) = Len(plan)
    BY <1>1, <1>4, LenProperties DEF Seq
  <1>6. s # <<>>
    BY <1>2, <1>5
  <1>7. \A i \in 1..Len(plan) : s[i].seq = i - 1 /\ inRange(s[i])
    BY <1>3 DEF isValid
  <1>8. QED BY <1>5, <1>6, <1>7 DEF Placed

(* A plan in order is valid, and the sort leaves it as it is. *)
LEMMA PlacedIsSorted ==
  ASSUME NEW plan, Placed(plan)
  PROVE  isValid(plan) /\ bySeq(plan) = plan
  <1>1. /\ Len(plan) \in Nat /\ plan \in [1..Len(plan) -> Waypoint]
        /\ \A i \in 1..Len(plan) : plan[i].seq = i - 1 /\ inRange(plan[i])
    BY LenProperties DEF Placed
  <1>2. contiguous(plan)
    <2>1. \A x \in 0..Len(plan) - 1 : x + 1 \in 1..Len(plan) /\ plan[x + 1].seq = x
      BY <1>1
    <2>2. QED BY <1>1, <2>1 DEF contiguous
  <1>3. PICK p \in [1..Len(plan) -> 1..Len(plan)] :
           /\ bySeq(plan) = [i \in 1..Len(plan) |-> plan[p[i]]]
           /\ \A i \in 1..Len(plan) : plan[p[i]].seq = i - 1
    BY <1>1, <1>2, SortPlaces
  <1>4. \A i \in 1..Len(plan) : p[i] = i
    BY <1>1, <1>3
  <1>5. QED BY <1>1, <1>2, <1>3, <1>4 DEF isValid

-----------------------------------------------------------------------------
(* The invariant *)

(* A mission that is stored is one the service may store; nothing that is    *)
(* missing looks like one.                                                   *)
Flyable(body) ==
  body \in Mission /\ body.name \in Names /\ Placed(body.waypoints)

(* What an edit carries to its save: it has passed the validation. *)
Checked(body) ==
  /\ body \in Mission /\ body.name \in Names
  /\ body.waypoints # <<>> /\ isValid(body.waypoints)

CallRecord ==
  [pc : {"idle", "number", "save", "export"}, id : Ids \cup {Unset},
   body : Mission \cup {NoMission}, version : {0} \cup Versions, segment : Nat,
   conflicts : BOOLEAN, known : SUBSET Zones]

(* The versions of a mission are the numbers up to the latest. *)
Numbered(id) == \E n \in 0..MaxVersion : stored(id) = 1..n

(* An edit has something to follow on, and its number follows on it. *)
EditOK(r) ==
  /\ r.pc = "number" => r.id \in Ids /\ stored(r.id) # {} /\ Checked(r.body)
  /\ r.pc = "save" =>
       /\ r.id \in Ids /\ r.version \in Versions /\ Checked(r.body)
       /\ r.version - 1 \in stored(r.id)

(* An export that has found no conflict has found none on the segments it    *)
(* has asked for, with the zones of its beginning.                           *)
ExportOK(r) ==
  r.pc = "export" =>
    /\ r.id \in Ids /\ Flyable(r.body) /\ r.body.status = "validated"
    /\ r.segment \in 1..Len(r.body.waypoints)
    /\ r.conflicts \/
         \A i \in 1..r.segment - 1, z \in r.known :
           segmentOf(r.body.waypoints, i) \notin conflicting[z]

RequestOK(r) == EditOK(r) /\ ExportOK(r) /\ r.known \subseteq zones

ExportedOK(e) ==
  /\ Flyable(e.body) /\ e.body.status = "validated"
  /\ e.known \subseteq zones
  /\ \A z \in e.known : segments(e.body.waypoints) \cap conflicting[z] = {}
  /\ encodable(buildMissionItems(e.body.waypoints))
  /\ e.bytes = encodeBinary(buildMissionItems(e.body.waypoints))

Types ==
  /\ missions \in [Ids -> [Versions -> Mission \cup {NoMission}]]
  /\ zones \subseteq Zones
  /\ call \in [Calls -> CallRecord]

IInv ==
  /\ Types
  /\ \A id \in Ids : Numbered(id) /\ \A v \in stored(id) : Flyable(missions[id][v])
  /\ \A k \in Calls, r \in CallRecord : call[k] = r => RequestOK(r)
  /\ \A e \in exported : ExportedOK(e)

-----------------------------------------------------------------------------
(* Reading the store *)

(* The latest version of a mission that has one. *)
LEMMA LatestVersion ==
  ASSUME IInv, NEW id \in Ids, stored(id) # {}
  PROVE  /\ latestVersion(id) \in Versions /\ latestVersion(id) \in stored(id)
         /\ stored(id) = 1..latestVersion(id)
         /\ Flyable(latest(id))
  <1>1. PICK n \in 0..MaxVersion : stored(id) = 1..n
    BY DEF IInv, Numbered
  <1>2. n \in stored(id) /\ \A w \in stored(id) : w <= n
    BY <1>1
  <1>3. latestVersion(id) \in stored(id) /\ \A w \in stored(id) : w <= latestVersion(id)
    BY <1>2 DEF latestVersion
  <1>4. latestVersion(id) = n
    BY <1>1, <1>2, <1>3
  <1>5. latestVersion(id) \in Versions
    BY <1>3 DEF stored
  <1>6. QED BY <1>1, <1>3, <1>4, <1>5 DEF latest, IInv

(* A mission and a missing one differ. *)
LEMMA MissionIsThere ==
  /\ \A body \in Mission : body # NoMission
  /\ NoMission \notin Mission
  <1>1. \A body \in Mission : body.status \in STATUSES
    BY DEF Mission
  <1>2. QED BY <1>1 DEF NoMission, Unset, STATUSES

(* Saving a body that was validated as the next version, or in place of one  *)
(* another edit has just stored.                                             *)
LEMMA PersistStep ==
  ASSUME IInv, NEW id \in Ids, NEW v \in Versions, NEW body, Checked(body),
         persist(id, v, body), v = 1 \/ v - 1 \in stored(id)
  PROVE  /\ missions' \in [Ids -> [Versions -> Mission \cup {NoMission}]]
         /\ \A j \in Ids : Numbered(j)' /\ stored(j) \subseteq stored(j)'
         /\ \A j \in Ids : \A w \in stored(j)' : Flyable(missions'[j][w])
  <1>1. /\ body \in Mission /\ body.waypoints \in Seq(Waypoint)
        /\ body.name \in Names /\ body.status \in STATUSES
    BY DEF Checked, Mission
  <1>2. Placed(bySeq(body.waypoints))
    BY <1>1, SortedIsPlaced DEF Checked
  <1>3. PICK saved : saved = [body EXCEPT !.waypoints = bySeq(@)]
    OBVIOUS
  <1>4. saved \in Mission /\ saved.name = body.name /\ saved.waypoints = bySeq(body.waypoints)
    BY <1>1, <1>2, <1>3 DEF Mission, Placed
  <1>5. Flyable(saved)
    BY <1>1, <1>2, <1>4 DEF Flyable
  <1>6. missions \in [Ids -> [Versions -> Mission \cup {NoMission}]]
    BY DEF IInv, Types
  <1>7. missions' = [missions EXCEPT ![id][v] = saved]
    BY <1>3 DEF persist
  <1>8. \A j \in Ids, w \in Versions :
          missions'[j][w] = IF j = id /\ w = v THEN saved ELSE missions[j][w]
    BY <1>6, <1>7
  <1>9. missions' \in [Ids -> [Versions -> Mission \cup {NoMission}]]
    BY <1>4, <1>6, <1>7
  <1>10. saved # NoMission
    BY <1>4, MissionIsThere
  <1>11. \A j \in Ids : stored(j)' = IF j = id THEN stored(j) \cup {v} ELSE stored(j)
    BY <1>8, <1>10 DEF stored
  <1>12. \A j \in Ids : Numbered(j)'
    <2> SUFFICES ASSUME NEW j \in Ids PROVE Numbered(j)'
      OBVIOUS
    <2>1. PICK n \in 0..MaxVersion : stored(j) = 1..n
      BY DEF IInv, Numbered
    <2>2. CASE j # id
      BY <1>11, <2>1, <2>2 DEF Numbered
    <2>3. CASE j = id /\ v \in 1..n
      <3>1. stored(j)' = 1..n
        BY <1>11, <2>1, <2>3
      <3>2. QED BY <3>1 DEF Numbered
    <2>4. CASE j = id /\ v \notin 1..n
      <3>1. MaxVersion \in Nat /\ v \in 1..MaxVersion
        BY MissionsAssumption DEF Versions
      <3>2. v = n + 1
        BY <2>1, <2>4, <3>1
      <3>3. stored(j)' = 1..v
        <4>1. n \in Nat /\ 1..n \cup {n + 1} = 1..n + 1
          BY <3>1
        <4>2. QED BY <1>11, <2>1, <2>4, <3>2, <4>1
      <3>4. v \in 0..MaxVersion
        BY <3>1
      <3>5. QED BY <3>3, <3>4 DEF Numbered
    <2>5. QED BY <2>2, <2>3, <2>4
  <1>13. \A j \in Ids : \A w \in stored(j)' : Flyable(missions'[j][w])
    <2> SUFFICES ASSUME NEW j \in Ids, NEW w \in stored(j)'
                 PROVE  Flyable(missions'[j][w])
      OBVIOUS
    <2>1. w \in Versions
      BY DEF stored
    <2>2. CASE j = id /\ w = v
      BY <1>5, <1>8, <2>1, <2>2
    <2>3. CASE ~(j = id /\ w = v)
      <3>1. w \in stored(j)
        BY <1>11, <2>3
      <3>2. QED BY <1>8, <2>1, <2>3, <3>1 DEF IInv
    <2>4. QED BY <2>2, <2>3
  <1>14. QED BY <1>9, <1>11, <1>12, <1>13

-----------------------------------------------------------------------------
(* The steps *)

(* What the invariant says of the requests and the exports stays true when   *)
(* versions and zones are added.                                             *)
LEMMA StillOK ==
  ASSUME zones \subseteq zones', \A id \in Ids : stored(id) \subseteq stored(id)'
  PROVE  /\ \A r \in CallRecord : RequestOK(r) => RequestOK(r)'
         /\ \A e : ExportedOK(e) => ExportedOK(e)'
  <1>1. ASSUME NEW r \in CallRecord, RequestOK(r)
        PROVE  RequestOK(r)'
    <2>1. EditOK(r)'
      BY <1>1 DEF RequestOK, EditOK
    <2>2. ExportOK(r)'
      BY <1>1 DEF RequestOK, ExportOK
    <2>3. QED BY <1>1, <2>1, <2>2 DEF RequestOK
  <1>2. \A e : ExportedOK(e) => ExportedOK(e)'
    BY DEF ExportedOK
  <1>3. QED BY <1>1, <1>2

(* One request goes on, the store and the zones stand still. *)
LEMMA OneRequest ==
  ASSUME IInv, NEW k \in Calls, NEW r \in CallRecord, RequestOK(r), goto(k, r),
         UNCHANGED <<missions, zones>>,
         \A e \in exported' : e \in exported \/ ExportedOK(e)
  PROVE  IInv'
  <1>1. Types'
    BY DEF IInv, Types, goto
  <1>2. \A id \in Ids : stored(id)' = stored(id)
    BY DEF stored
  <1>3. \A j \in Calls, q \in CallRecord : call'[j] = q => RequestOK(q)'
    <2> SUFFICES ASSUME NEW j \in Calls, NEW q \in CallRecord, call'[j] = q
                 PROVE  RequestOK(q)
      BY <1>2, StillOK
    <2>1. j = k => q = r
      BY DEF IInv, Types, goto
    <2>2. j # k => call[j] = q
      BY DEF IInv, Types, goto
    <2>3. QED BY <2>1, <2>2 DEF IInv
  <1>4. \A e \in exported' : ExportedOK(e)'
    BY <1>2, StillOK DEF IInv
  <1>5. \A id \in Ids : Numbered(id)' /\ \A v \in stored(id)' : Flyable(missions'[id][v])
    BY <1>2 DEF IInv, Numbered
  <1>6. QED BY <1>1, <1>3, <1>4, <1>5 DEF IInv

(* The record of an idle request. *)
LEMMA IdleRecord ==
  Idle \in CallRecord /\ RequestOK(Idle) /\ Idle.pc = "idle"
  <1>1. /\ Idle.pc = "idle" /\ Idle.id = Unset /\ Idle.body = NoMission
        /\ Idle.version = 0 /\ Idle.segment = 0 /\ Idle.conflicts = FALSE
        /\ Idle.known = {}
    BY DEF Idle
  <1>2. Idle \in CallRecord
    BY DEF Idle, CallRecord
  <1>3. QED BY <1>1, <1>2 DEF RequestOK, EditOK, ExportOK

(* A request ends, with its answer or without one. *)
LEMMA EndStep ==
  ASSUME IInv, NEW k \in Calls, Abort(k)
  PROVE  IInv'
  BY IdleRecord, OneRequest DEF Abort

(* A mission is stored for the first time. *)
LEMMA CreateStep ==
  ASSUME IInv, NEW id \in Ids, NEW name \in Names, NEW status \in STATUSES,
         NEW plan \in Seq(Waypoint), plan # <<>>, CreateMission(id, name, status, plan)
  PROVE  IInv'
  <1>1. PICK body : body = [name |-> name, status |-> status, waypoints |-> plan]
    OBVIOUS
  <1>2. Checked(body)
    BY <1>1 DEF Checked, Mission, CreateMission
  <1>3. persist(id, 1, body) /\ 1 \in Versions /\ UNCHANGED <<zones, call, exported>>
    BY <1>1, MissionsAssumption DEF CreateMission, Versions
  <1>4. /\ missions' \in [Ids -> [Versions -> Mission \cup {NoMission}]]
        /\ \A j \in Ids : Numbered(j)' /\ stored(j) \subseteq stored(j)'
        /\ \A j \in Ids : \A w \in stored(j)' : Flyable(missions'[j][w])
    BY <1>2, <1>3, PersistStep
  <1>5. QED BY <1>3, <1>4, StillOK DEF IInv, Types

(* What a template resolves to may be stored, once it is valid. *)
LEMMA ResolvedPlan ==
  ASSUME NEW t \in Catalogue, NEW params \in Params, instantiates(t, params),
         isValid(resolveWaypoints(t, params))
  PROVE  /\ resolveName(t, params) \in Names /\ t.status \in STATUSES
         /\ resolveWaypoints(t, params) \in Seq(Waypoint)
         /\ resolveWaypoints(t, params) # <<>>
  <1> DEFINE plan == resolveWaypoints(t, params)
             n == Len(t.waypoints)
  <1>1. n \in Nat \ {0} /\ plan = [i \in 1..n |-> plan[i]]
    BY TemplatesAssumption DEF resolveWaypoints
  <1>2. Len(plan) = n
    BY <1>1
  <1>3. \A i \in 1..n, f \in FIELDS : plan[i][f] \in Int
    <2> TAKE i \in 1..n, f \in FIELDS
    <2>1. t.waypoints[i][f].value \in Int
      BY TemplatesAssumption
    <2>2. t.waypoints[i][f].param # NoValue =>
            t.waypoints[i][f].param \in collectPlaceholders(t)
      BY DEF collectPlaceholders
    <2>3. t.waypoints[i][f].param # NoValue => params[t.waypoints[i][f].param].number \in Int
      BY <2>2, TemplatesAssumption
    <2>4. plan[i][f] = resolveNumeric(t.waypoints[i][f], params)
      BY DEF resolveWaypoints
    <2>5. QED BY <2>1, <2>3, <2>4 DEF resolveNumeric
  <1>4. \A i \in 1..n : plan[i].seq \in Nat
    <2>1. \A i \in 1..n : plan[i].seq \in {plan[j].seq : j \in 1..Len(plan)}
      BY <1>2
    <2>2. QED BY <1>1, <1>2, <2>1 DEF isValid, contiguous
  <1>5. \A i \in 1..n : plan[i] \in Waypoint
    <2> TAKE i \in 1..n
    <2>1. plan[i] = [seq |-> plan[i].seq, lat |-> plan[i].lat, lon |-> plan[i].lon,
                     altitude |-> plan[i].altitude, speed |-> plan[i].speed,
                     gimbalAngle |-> plan[i].gimbalAngle, loiterTime |-> plan[i].loiterTime]
      BY DEF resolveWaypoints, FIELDS
    <2>2. QED BY <1>3, <1>4, <2>1 DEF FIELDS, Waypoint
  <1>6. plan \in Seq(Waypoint)
    BY <1>1, <1>5 DEF Seq
  <1>7. plan # <<>>
    BY <1>1, <1>2
  <1>8. t.name \in collectPlaceholders(t)
    BY TemplatesAssumption DEF collectPlaceholders
  <1>9. params[t.name].text # Dangling
    BY <1>8 DEF instantiates, unresolvedPlaceholders
  <1>10. QED BY <1>6, <1>7, <1>9, TemplatesAssumption DEF resolveName

(* updateMission up to addVersion. *)
LEMMA FindStep ==
  ASSUME IInv, NEW k \in Calls, NEW id \in Ids, NEW name \in Names \cup {Unset},
         NEW status \in STATUSES \cup {Unset}, NEW plan \in Plans \cup {<<>>},
         UpdateFind(k, id, name, status, plan)
  PROVE  IInv'
  <1>1. stored(id) # {} /\ UNCHANGED <<missions, zones, exported>>
    BY DEF UpdateFind
  <1>2. PICK l : l = latest(id) /\ Flyable(l)
    BY <1>1, LatestVersion
  <1>3. l.name \in Names /\ l.status \in STATUSES /\ l.waypoints \in Seq(Waypoint)
        /\ l.waypoints # <<>>
    BY <1>2 DEF Flyable, Placed, Mission
  <1>4. PICK body : body = [name      |-> either(name, l.name),
                            status    |-> either(status, l.status),
                            waypoints |-> IF plan = <<>> THEN l.waypoints ELSE plan]
    OBVIOUS
  <1>5. isValid(body.waypoints) /\ goto(k, [Idle EXCEPT !.pc = "number", !.id = id, !.body = body])
    BY <1>2, <1>4 DEF UpdateFind
  <1>6. body.name \in Names /\ body.status \in STATUSES
    BY <1>3, <1>4 DEF either
  <1>7. body.waypoints \in Seq(Waypoint) /\ body.waypoints # <<>>
    BY <1>3, <1>4, MissionsAssumption
  <1>8. body \in Mission
    BY <1>4, <1>6, <1>7 DEF Mission
  <1>9. Checked(body)
    BY <1>5, <1>6, <1>7, <1>8 DEF Checked
  <1>10. PICK idle \in CallRecord : idle = Idle /\ idle.known = {}
    BY IdleRecord DEF Idle
  <1>11. PICK r : r = [idle EXCEPT !.pc = "number", !.id = id, !.body = body]
    OBVIOUS
  <1>12. r \in CallRecord /\ r.pc = "number" /\ r.id = id /\ r.body = body /\ r.known = {}
    BY <1>8, <1>10, <1>11 DEF CallRecord
  <1>13. RequestOK(r)
    BY <1>1, <1>9, <1>12 DEF RequestOK, EditOK, ExportOK
  <1>14. QED BY <1>1, <1>5, <1>10, <1>11, <1>12, <1>13, OneRequest

(* addVersion draws the number after the latest. *)
LEMMA NumberStep ==
  ASSUME IInv, NEW k \in Calls, UpdateNumber(k)
  PROVE  IInv'
  <1>1. PICK q \in CallRecord : q = call[k]
    BY DEF IInv, Types
  <1>2. RequestOK(q) /\ q.pc = "number" /\ UNCHANGED <<missions, zones, exported>>
    BY <1>1 DEF IInv, UpdateNumber
  <1>3. q.id \in Ids /\ stored(q.id) # {} /\ Checked(q.body)
    BY <1>2 DEF RequestOK, EditOK
  <1>4. PICK n : n = latestVersion(q.id)
    OBVIOUS
  <1>5. n \in Versions /\ n \in stored(q.id)
    BY <1>3, <1>4, LatestVersion
  <1>6. n < MaxVersion /\ goto(k, [q EXCEPT !.pc = "save", !.version = n + 1])
    BY <1>1, <1>4 DEF UpdateNumber
  <1>7. n + 1 \in Versions /\ (n + 1) - 1 = n
    BY <1>5, <1>6, MissionsAssumption DEF Versions
  <1>8. PICK r : r = [q EXCEPT !.pc = "save", !.version = n + 1]
    OBVIOUS
  <1>9. r \in CallRecord /\ r.pc = "save" /\ r.version = n + 1 /\ r.id = q.id
        /\ r.body = q.body /\ r.known = q.known
    BY <1>7, <1>8 DEF CallRecord
  <1>10. RequestOK(r)
    BY <1>2, <1>3, <1>5, <1>7, <1>9 DEF RequestOK, EditOK, ExportOK
  <1>11. QED BY <1>2, <1>6, <1>8, <1>9, <1>10, OneRequest

(* Repository.save inserts the version or updates it in place. *)
LEMMA SaveStep ==
  ASSUME IInv, NEW k \in Calls, UpdateSave(k)
  PROVE  IInv'
  <1>1. PICK q \in CallRecord : q = call[k]
    BY DEF IInv, Types
  <1>2. /\ RequestOK(q) /\ q.pc = "save" /\ UNCHANGED <<zones, exported>>
        /\ persist(q.id, q.version, q.body) /\ goto(k, Idle)
    BY <1>1 DEF IInv, UpdateSave
  <1>3. q.id \in Ids /\ q.version \in Versions /\ Checked(q.body)
        /\ q.version - 1 \in stored(q.id)
    BY <1>2 DEF RequestOK, EditOK
  <1>4. /\ missions' \in [Ids -> [Versions -> Mission \cup {NoMission}]]
        /\ \A j \in Ids : Numbered(j)' /\ stored(j) \subseteq stored(j)'
        /\ \A j \in Ids : \A w \in stored(j)' : Flyable(missions'[j][w])
    BY <1>2, <1>3, PersistStep
  <1>5. Types'
    BY <1>2, <1>4, IdleRecord DEF IInv, Types, goto
  <1>6. \A j \in Calls, r \in CallRecord : call'[j] = r => RequestOK(r)'
    <2> SUFFICES ASSUME NEW j \in Calls, NEW r \in CallRecord, call'[j] = r
                 PROVE  RequestOK(r)
      BY <1>2, <1>4, StillOK
    <2>1. CASE j = k
      BY <1>2, <2>1, IdleRecord DEF IInv, Types, goto
    <2>2. CASE j # k
      BY <1>2, <2>2 DEF IInv, Types, goto
    <2>3. QED BY <2>1, <2>2
  <1>7. \A e \in exported' : ExportedOK(e)'
    BY <1>2, <1>4, StillOK DEF IInv
  <1>8. QED BY <1>4, <1>5, <1>6, <1>7 DEF IInv

(* A zone is added. *)
LEMMA ZoneStep ==
  ASSUME IInv, NEW z \in Zones, DefineZone(z)
  PROVE  IInv'
  <1>1. zones' \subseteq Zones /\ zones \subseteq zones' /\ UNCHANGED <<missions, call, exported>>
    BY DEF DefineZone, IInv, Types
  <1>2. \A id \in Ids : stored(id)' = stored(id)
    BY <1>1 DEF stored
  <1>3. Types'
    BY <1>1 DEF IInv, Types
  <1>4. \A id \in Ids : Numbered(id)' /\ \A v \in stored(id)' : Flyable(missions'[id][v])
    BY <1>1, <1>2 DEF IInv, Numbered
  <1>5. \A k \in Calls, r \in CallRecord : call'[k] = r => RequestOK(r)'
    BY <1>1, <1>2, StillOK DEF IInv
  <1>6. \A e \in exported' : ExportedOK(e)'
    BY <1>1, <1>2, StillOK DEF IInv
  <1>7. QED BY <1>3, <1>4, <1>5, <1>6 DEF IInv

(* exportMission begins with the latest version, if it is validated. *)
LEMMA LoadStep ==
  ASSUME IInv, NEW k \in Calls, NEW id \in Ids, ExportLoad(k, id)
  PROVE  IInv'
  <1>1. stored(id) # {} /\ UNCHANGED <<missions, zones, exported>>
    BY DEF ExportLoad
  <1>2. PICK l : l = latest(id) /\ Flyable(l)
    BY <1>1, LatestVersion
  <1>3. /\ l \in Mission /\ Len(l.waypoints) \in Nat \ {0} /\ l.status = "validated"
    BY <1>2, LenProperties, EmptySeq DEF Flyable, Placed, ExportLoad
  <1>4. PICK idle \in CallRecord : idle = Idle /\ idle.conflicts = FALSE
    BY IdleRecord DEF Idle
  <1>5. PICK known \in SUBSET Zones : known = zones
    BY DEF IInv, Types
  <1>6. PICK r : r = [idle EXCEPT !.pc = "export", !.id = id, !.body = l, !.segment = 1,
                                  !.known = known]
    OBVIOUS
  <1>7. /\ r \in CallRecord /\ r.pc = "export" /\ r.id = id /\ r.body = l /\ r.segment = 1
        /\ r.known = known
    BY <1>3, <1>4, <1>6 DEF CallRecord
  <1>8. goto(k, r)
    BY <1>2, <1>4, <1>5, <1>6 DEF ExportLoad
  <1>9. RequestOK(r)
    <2>1. EditOK(r) /\ r.known \subseteq zones
      BY <1>5, <1>7 DEF EditOK
    <2>2. r.segment \in 1..Len(r.body.waypoints) /\ 1..r.segment - 1 = {}
      BY <1>3, <1>7
    <2>3. ExportOK(r)
      BY <1>2, <1>3, <1>7, <2>2 DEF ExportOK
    <2>4. QED BY <2>1, <2>3 DEF RequestOK
  <1>10. QED BY <1>1, <1>7, <1>8, <1>9, OneRequest

(* One query: the next segment against the zones there are by now, those of  *)
(* the beginning among them.                                                 *)
LEMMA SegmentStep ==
  ASSUME IInv, NEW k \in Calls, ExportSegment(k)
  PROVE  IInv'
  <1>1. PICK q \in CallRecord : q = call[k]
    BY DEF IInv, Types
  <1>2. PICK hit \in BOOLEAN :
          hit = \E z \in zones : segmentOf(q.body.waypoints, q.segment) \in conflicting[z]
    OBVIOUS
  <1>3. /\ RequestOK(q) /\ q.pc = "export" /\ q.segment < Len(q.body.waypoints)
        /\ goto(k, [q EXCEPT !.segment = @ + 1, !.conflicts = @ \/ hit])
        /\ UNCHANGED <<missions, zones, exported>>
    BY <1>1, <1>2 DEF IInv, ExportSegment
  <1>4. ExportOK(q) /\ q.known \subseteq zones /\ q.segment \in Nat /\ q.conflicts \in BOOLEAN
    BY <1>3 DEF RequestOK, CallRecord
  <1>5. PICK r : r = [q EXCEPT !.segment = @ + 1, !.conflicts = @ \/ hit]
    OBVIOUS
  <1>6. PICK found \in BOOLEAN : found = (q.conflicts \/ hit)
    OBVIOUS
  <1>7. r = [q EXCEPT !.segment = q.segment + 1, !.conflicts = found]
    BY <1>5, <1>6
  <1>8. /\ r \in CallRecord /\ r.pc = "export" /\ r.id = q.id /\ r.body = q.body
        /\ r.segment = q.segment + 1 /\ r.conflicts = found /\ r.known = q.known
    <2>1. PICK next \in Nat : next = q.segment + 1
      BY <1>4
    <2>2. r = [q EXCEPT !.segment = next, !.conflicts = found]
      BY <1>7, <2>1
    <2>3. r \in CallRecord
      BY <2>2 DEF CallRecord
    <2>4. r.conflicts = found
      BY <2>2 DEF CallRecord
    <2>5. QED BY <1>3, <2>1, <2>2, <2>3, <2>4 DEF CallRecord
  <1>9. /\ q.id \in Ids /\ Flyable(q.body) /\ q.body.status = "validated"
        /\ q.segment \in 1..Len(q.body.waypoints)
        /\ q.conflicts \/
             \A i \in 1..q.segment - 1, z \in q.known :
               segmentOf(q.body.waypoints, i) \notin conflicting[z]
    BY <1>3, <1>4 DEF ExportOK
  <1>10. Len(q.body.waypoints) \in Nat
    BY <1>9, LenProperties DEF Flyable, Placed
  <1>11. r.segment \in 1..Len(r.body.waypoints)
    BY <1>3, <1>4, <1>8, <1>10
  <1>12. r.conflicts \/
           \A i \in 1..r.segment - 1, z \in r.known :
             segmentOf(r.body.waypoints, i) \notin conflicting[z]
    <2> SUFFICES ASSUME ~found, NEW i \in 1..r.segment - 1, NEW z \in r.known
                 PROVE  segmentOf(r.body.waypoints, i) \notin conflicting[z]
      BY <1>8
    <2>1. i \in 1..q.segment - 1 \/ i = q.segment
      BY <1>4, <1>8
    <2>2. z \in zones /\ z \in q.known /\ ~hit /\ ~q.conflicts
      BY <1>4, <1>6, <1>8
    <2>3. CASE i = q.segment
      BY <1>2, <1>8, <2>2, <2>3
    <2>4. CASE i \in 1..q.segment - 1
      BY <1>8, <1>9, <2>2, <2>4
    <2>5. QED BY <2>1, <2>3, <2>4
  <1>13. RequestOK(r)
    BY <1>4, <1>8, <1>9, <1>11, <1>12 DEF RequestOK, EditOK, ExportOK
  <1>14. QED BY <1>3, <1>5, <1>8, <1>13, OneRequest

(* The export ends: every segment has been asked for. *)
LEMMA ExportStep ==
  ASSUME IInv, NEW k \in Calls, ExportEnd(k)
  PROVE  IInv'
  <1>1. PICK q \in CallRecord : q = call[k]
    BY DEF IInv, Types
  <1>2. /\ RequestOK(q) /\ q.pc = "export" /\ q.segment = Len(q.body.waypoints)
        /\ goto(k, Idle) /\ UNCHANGED <<missions, zones>>
    BY <1>1 DEF IInv, ExportEnd
  <1>3. /\ Flyable(q.body) /\ q.body.status = "validated" /\ q.known \subseteq zones
        /\ q.conflicts \/
             \A i \in 1..q.segment - 1, z \in q.known :
               segmentOf(q.body.waypoints, i) \notin conflicting[z]
    BY <1>2 DEF RequestOK, ExportOK
  <1>4. \A e \in exported' : e \in exported \/ ExportedOK(e)
    <2> SUFFICES ASSUME ~q.conflicts, encodable(buildMissionItems(q.body.waypoints)),
                        NEW e, e = export(q.body, q.known)
                 PROVE  ExportedOK(e)
      BY <1>1 DEF ExportEnd
    <2>1. /\ e.body = q.body /\ e.known = q.known
          /\ e.bytes = encodeBinary(buildMissionItems(q.body.waypoints))
      BY DEF export
    <2>2. \A z \in q.known : segments(q.body.waypoints) \cap conflicting[z] = {}
      BY <1>2, <1>3 DEF segments
    <2>3. QED BY <1>3, <2>1, <2>2 DEF ExportedOK
  <1>5. QED BY <1>2, <1>4, IdleRecord, OneRequest

-----------------------------------------------------------------------------
(* Nothing is stored at first. *)
LEMMA InitIInv == Init => IInv
  <1> SUFFICES ASSUME Init PROVE IInv
    OBVIOUS
  <1>1. Types
    BY IdleRecord DEF Init, Types
  <1>2. \A id \in Ids : stored(id) = {}
    BY DEF Init, stored
  <1>3. \A id \in Ids : Numbered(id)
    <2>1. 0 \in 0..MaxVersion /\ 1..0 = {}
      BY MissionsAssumption
    <2>2. QED BY <1>2, <2>1 DEF Numbered
  <1>4. \A k \in Calls, r \in CallRecord : call[k] = r => RequestOK(r)
    BY IdleRecord DEF Init
  <1>5. QED BY <1>1, <1>2, <1>3, <1>4 DEF Init, IInv

(* Every step keeps the invariant. *)
LEMMA NextIInv == IInv /\ [Next]_vars => IInv'
  <1> SUFFICES ASSUME IInv, [Next]_vars PROVE IInv'
    OBVIOUS
  <1>1. ASSUME NEW id \in Ids, NEW n \in Names, NEW s \in STATUSES, NEW p \in Plans,
               CreateMission(id, n, s, p)
        PROVE  IInv'
    BY <1>1, CreateStep, MissionsAssumption
  <1>2. ASSUME NEW id \in Ids, NEW t \in Catalogue, NEW params \in Params,
               Instantiate(id, t, params)
        PROVE  IInv'
    <2>1. PICK name, plan : name = resolveName(t, params) /\ plan = resolveWaypoints(t, params)
      OBVIOUS
    <2>2. instantiates(t, params) /\ isValid(plan) /\ CreateMission(id, name, t.status, plan)
      BY <1>2, <2>1 DEF Instantiate, CreateMission
    <2>3. /\ name \in Names /\ t.status \in STATUSES
          /\ plan \in Seq(Waypoint) /\ plan # <<>>
      BY <2>1, <2>2, ResolvedPlan
    <2>4. QED BY <2>2, <2>3, CreateStep
  <1>3. ASSUME NEW k \in Calls, NEW id \in Ids, NEW n \in Names \cup {Unset},
               NEW s \in STATUSES \cup {Unset}, NEW p \in Plans \cup {<<>>},
               UpdateFind(k, id, n, s, p)
        PROVE  IInv'
    BY <1>3, FindStep
  <1>4. ASSUME NEW k \in Calls, NEW id \in Ids, ExportLoad(k, id) PROVE IInv'
    BY <1>4, LoadStep
  <1>5. ASSUME NEW z \in Zones, DefineZone(z) PROVE IInv'
    BY <1>5, ZoneStep
  <1>6. ASSUME Resume PROVE IInv'
    BY <1>6, NumberStep, SaveStep, SegmentStep, ExportStep, EndStep DEF Resume
  <1>7. ASSUME UNCHANGED vars PROVE IInv'
    <2>1. \A id \in Ids : stored(id)' = stored(id)
      BY <1>7 DEF vars, stored
    <2>2. zones \subseteq zones' /\ UNCHANGED <<missions, call, exported>>
      BY <1>7 DEF vars
    <2>3. Types'
      BY <1>7 DEF IInv, Types, vars
    <2>4. \A id \in Ids : Numbered(id)' /\ \A v \in stored(id)' : Flyable(missions'[id][v])
      BY <2>1, <2>2 DEF IInv, Numbered
    <2>5. QED BY <2>1, <2>2, <2>3, <2>4, StillOK DEF IInv
  <1>8. QED BY <1>1, <1>2, <1>3, <1>4, <1>5, <1>6, <1>7 DEF Next, Begin

(* IInv holds in every state. *)
LEMMA Inductive == Spec => []IInv
  BY InitIInv, NextIInv, PTL DEF Spec

-----------------------------------------------------------------------------
(* The binary form *)

(* Reading at an offset finds what was written there. *)
LEMMA RoundTrip ==
  ASSUME NEW items, Len(items) \in Nat
  PROVE  LET buffer == encodeBinary(items)
         IN  /\ parses(buffer) /\ Len(parseMavlink(buffer)) = Len(items)
             /\ \A i \in 1..Len(items) :
                  /\ parseMavlink(buffer)[i].seq = items[i].seq
                  /\ parseMavlink(buffer)[i].command = items[i].command
                  /\ parseMavlink(buffer)[i].x = items[i].x
                  /\ parseMavlink(buffer)[i].y = items[i].y
                  /\ parseMavlink(buffer)[i].z = items[i].z
  <1> DEFINE n      == Len(items)
             buffer == encodeBinary(items)
             header == <<MAGIC, FORMAT_VERSION, 0, n>>
  <1>1. \A k \in 1..4 + n * 15 :
          buffer[k] = IF k <= 4 THEN header[k]
                      ELSE writeItem(items[((k - 5) \div 15) + 1])[((k - 5) % 15) + 1]
    BY DEF encodeBinary, ITEM_FIELDS
  <1>2. Len(buffer) = 4 + n * 15
    BY DEF encodeBinary, ITEM_FIELDS
  <1>3. buffer[1] = MAGIC /\ buffer[2] = FORMAT_VERSION /\ buffer[4] = n
    BY <1>1
  <1>4. parses(buffer)
    BY <1>2, <1>3 DEF parses, ITEM_FIELDS
  <1>5. \A i \in 1..n, f \in 1..15 :
          buffer[4 + (i - 1) * 15 + f] = writeItem(items[i])[f]
    <2> TAKE i \in 1..n, f \in 1..15
    <2>1. PICK k : k = 4 + (i - 1) * 15 + f
      OBVIOUS
    <2>2. k \in 1..4 + n * 15 /\ ~(k <= 4)
      BY <2>1
    <2>3. ((k - 5) \div 15) + 1 = i /\ ((k - 5) % 15) + 1 = f
      BY <2>1
    <2>4. QED BY <1>1, <2>1, <2>2, <2>3
  <1> HIDE DEF buffer
  <1>6. parseMavlink(buffer) = [i \in 1..n |-> parseMavlink(buffer)[i]]
    BY <1>3 DEF parseMavlink
  <1>7. Len(parseMavlink(buffer)) = n
    BY <1>6
  <1>8. ASSUME NEW i \in 1..n
        PROVE  /\ parseMavlink(buffer)[i].seq = items[i].seq
               /\ parseMavlink(buffer)[i].command = items[i].command
               /\ parseMavlink(buffer)[i].x = items[i].x
               /\ parseMavlink(buffer)[i].y = items[i].y
               /\ parseMavlink(buffer)[i].z = items[i].z
    <2>1. /\ parseMavlink(buffer)[i].seq = buffer[4 + (i - 1) * 15 + 8]
          /\ parseMavlink(buffer)[i].command = buffer[4 + (i - 1) * 15 + 9]
          /\ parseMavlink(buffer)[i].x = buffer[4 + (i - 1) * 15 + 5]
          /\ parseMavlink(buffer)[i].y = buffer[4 + (i - 1) * 15 + 6]
          /\ parseMavlink(buffer)[i].z = buffer[4 + (i - 1) * 15 + 7]
      BY <1>3 DEF parseMavlink, ITEM_FIELDS
    <2>2. /\ writeItem(items[i])[5] = items[i].x /\ writeItem(items[i])[6] = items[i].y
          /\ writeItem(items[i])[7] = items[i].z /\ writeItem(items[i])[8] = items[i].seq
          /\ writeItem(items[i])[9] = items[i].command
      BY DEF writeItem
    <2>3. /\ buffer[4 + (i - 1) * 15 + 5] = writeItem(items[i])[5]
          /\ buffer[4 + (i - 1) * 15 + 6] = writeItem(items[i])[6]
          /\ buffer[4 + (i - 1) * 15 + 7] = writeItem(items[i])[7]
          /\ buffer[4 + (i - 1) * 15 + 8] = writeItem(items[i])[8]
          /\ buffer[4 + (i - 1) * 15 + 9] = writeItem(items[i])[9]
      <3>1. 5 \in 1..15 /\ 6 \in 1..15 /\ 7 \in 1..15 /\ 8 \in 1..15 /\ 9 \in 1..15
        OBVIOUS
      <3>2. QED BY <1>5, <3>1
    <2>4. QED BY <2>1, <2>2, <2>3
  <1>9. QED BY <1>4, <1>7, <1>8 DEF buffer

(* The items of a plan in order: a takeoff to its first waypoint, then every *)
(* waypoint.                                                                 *)
LEMMA ItemsOfPlan ==
  ASSUME NEW plan, Placed(plan)
  PROVE  LET items == buildMissionItems(plan)
         IN  /\ Len(items) = Len(plan) + 1
             /\ items[1] = makeHomeItem(plan[1])
             /\ \A i \in 1..Len(plan) : items[i + 1] = makeWaypointItem(plan[i], i)
  <1>1. bySeq(plan) = plan
    BY PlacedIsSorted
  <1>2. Len(plan) \in Nat /\ DOMAIN plan = 1..Len(plan)
    BY LenProperties DEF Placed
  <1> DEFINE rest == [i \in 1..Len(plan) |-> makeWaypointItem(plan[i], i)]
  <1>3. buildMissionItems(plan) = <<makeHomeItem(plan[1])>> \o rest
    BY <1>1, <1>2 DEF buildMissionItems
  <1>4. PICK S : makeHomeItem(plan[1]) \in S /\ \A i \in 1..Len(plan) : rest[i] \in S
    <2>1. PICK S : S = {makeHomeItem(plan[1])} \cup {rest[i] : i \in 1..Len(plan)}
      OBVIOUS
    <2>2. QED BY <2>1
  <1>5. rest \in Seq(S) /\ Len(rest) = Len(plan) /\ <<makeHomeItem(plan[1])>> \in Seq(S)
    BY <1>2, <1>4 DEF Seq
  <1> HIDE DEF rest
  <1>6. /\ Len(buildMissionItems(plan)) = Len(<<makeHomeItem(plan[1])>>) + Len(rest)
        /\ \A i \in 1..Len(<<makeHomeItem(plan[1])>>) + Len(rest) :
             buildMissionItems(plan)[i] =
               IF i <= Len(<<makeHomeItem(plan[1])>>) THEN <<makeHomeItem(plan[1])>>[i]
               ELSE rest[i - Len(<<makeHomeItem(plan[1])>>)]
    BY <1>3, <1>5, ConcatProperties
  <1>7. Len(<<makeHomeItem(plan[1])>>) = 1
    OBVIOUS
  <1>8. /\ Len(buildMissionItems(plan)) = Len(plan) + 1
        /\ buildMissionItems(plan)[1] = makeHomeItem(plan[1])
        /\ \A i \in 1..Len(plan) : buildMissionItems(plan)[i + 1] = rest[i]
    BY <1>2, <1>5, <1>6, <1>7
  <1>9. QED BY <1>8 DEF rest

(* What the bytes of a plan in order tell the vehicle. *)
LEMMA BytesTellPlan ==
  ASSUME NEW plan, Placed(plan)
  PROVE  LET bytes == encodeBinary(buildMissionItems(plan))
             items == parseMavlink(bytes)
         IN  /\ parses(bytes) /\ Len(items) = Len(plan) + 1
             /\ \A i \in 1..Len(items) :
                  LET w == plan[Max({1, i - 1})]
                  IN  /\ items[i].seq = i - 1
                      /\ items[i].x = w.lat * GEO_SCALE /\ items[i].y = w.lon * GEO_SCALE
                      /\ items[i].z = w.altitude
                      /\ (items[i].command = MAV_CMD_NAV_TAKEOFF) = (i = 1)
  <1> DEFINE built == buildMissionItems(plan)
             items == parseMavlink(encodeBinary(built))
  <1>1. Len(plan) \in Nat \ {0}
    BY LenProperties, EmptySeq DEF Placed
  <1>2. /\ Len(built) = Len(plan) + 1 /\ built[1] = makeHomeItem(plan[1])
        /\ \A i \in 1..Len(plan) : built[i + 1] = makeWaypointItem(plan[i], i)
    BY ItemsOfPlan
  <1> HIDE DEF built
  <1>3. /\ parses(encodeBinary(built)) /\ Len(items) = Len(built)
        /\ \A i \in 1..Len(built) :
             /\ items[i].seq = built[i].seq /\ items[i].command = built[i].command
             /\ items[i].x = built[i].x /\ items[i].y = built[i].y /\ items[i].z = built[i].z
    BY <1>1, <1>2, RoundTrip
  <1> HIDE DEF items
  <1>4. ASSUME NEW i \in 1..Len(plan) + 1
        PROVE  LET w == plan[Max({1, i - 1})]
               IN  /\ built[i].seq = i - 1
                   /\ built[i].x = w.lat * GEO_SCALE /\ built[i].y = w.lon * GEO_SCALE
                   /\ built[i].z = w.altitude
                   /\ (built[i].command = MAV_CMD_NAV_TAKEOFF) = (i = 1)
    <2>1. CASE i = 1
      <3>1. Max({1, i - 1}) = 1
        BY <2>1 DEF Max
      <3>2. QED BY <1>2, <2>1, <3>1 DEF makeHomeItem, item, encodeDegrees
    <2>2. CASE i # 1
      <3>1. i - 1 \in 1..Len(plan) /\ (i - 1) + 1 = i
        BY <1>1, <2>2
      <3>2. Max({1, i - 1}) = i - 1
        BY <3>1 DEF Max
      <3>3. built[i] = makeWaypointItem(plan[i - 1], i - 1)
        BY <1>2, <3>1
      <3>4. QED BY <2>2, <3>2, <3>3 DEF makeWaypointItem, item, encodeDegrees,
                                        MAV_CMD_NAV_TAKEOFF, MAV_CMD_NAV_WAYPOINT
    <2>3. QED BY <2>1, <2>2
  <1>5. ASSUME NEW i \in 1..Len(items)
        PROVE  LET w == plan[Max({1, i - 1})]
               IN  /\ items[i].seq = i - 1
                   /\ items[i].x = w.lat * GEO_SCALE /\ items[i].y = w.lon * GEO_SCALE
                   /\ items[i].z = w.altitude
                   /\ (items[i].command = MAV_CMD_NAV_TAKEOFF) = (i = 1)
    <2>1. i \in 1..Len(built) /\ i \in 1..Len(plan) + 1
      BY <1>2, <1>3
    <2>2. QED BY ZenonT(60), <1>3, <1>4, <2>1
  <1>6. parses(encodeBinary(built)) /\ Len(items) = Len(plan) + 1
    BY <1>2, <1>3
  <1>7. QED BY <1>5, <1>6 DEF items, built

-----------------------------------------------------------------------------
(* Theorems *)

(* P11: the versions of a mission are numbered 1, 2, ... without a gap,      *)
(* however many edits overlap, overwrite each other or fail.                 *)
THEOREM VersionsStayContiguous == Spec => []VersionsContiguous
  <1>1. ASSUME IInv PROVE TypeOK
    <2>1. ASSUME NEW k \in Calls
          PROVE  /\ call[k].pc \in {"idle", "number", "save", "export"}
                 /\ call[k].pc # "idle" => call[k].id \in Ids /\ call[k].body \in Mission
                 /\ call[k].pc = "save" => call[k].version \in Versions
                 /\ call[k].pc = "export" =>
                      call[k].segment \in 1..Len(call[k].body.waypoints)
                 /\ call[k].known \subseteq zones
      <3>1. PICK r \in CallRecord : r = call[k]
        BY <1>1 DEF IInv, Types
      <3>2. EditOK(r) /\ ExportOK(r) /\ r.known \subseteq zones
        BY <1>1, <3>1 DEF IInv, RequestOK
      <3>3. r.pc \in {"idle", "number", "save", "export"}
        BY DEF CallRecord
      <3>4. QED BY <3>1, <3>2, <3>3 DEF EditOK, ExportOK, Checked, Flyable
    <2>2. QED BY <1>1, <2>1 DEF IInv, Types, TypeOK, ExportedOK, Flyable
  <1>2. ASSUME IInv, NEW id \in Ids PROVE stored(id) = 1..Cardinality(stored(id))
    <2>1. PICK n \in 0..MaxVersion : stored(id) = 1..n
      BY <1>2 DEF IInv, Numbered
    <2>2. n \in Nat
      BY <2>1, MissionsAssumption
    <2>3. QED BY <2>1, <2>2, CountTo
  <1>3. IInv => VersionsContiguous
    BY <1>1, <1>2 DEF VersionsContiguous
  <1>4. QED BY <1>3, Inductive, PTL

(* P10, P14: whatever is requested, overlaps or is overwritten, a stored     *)
(* version is flyable and names no placeholder.                              *)
THEOREM StoredStaysFlyable == Spec => []StoredFlyable
  <1>1. ASSUME IInv, NEW id \in Ids, NEW v \in stored(id)
        PROVE  /\ missions[id][v].name \in Names
               /\ \A i \in 1..Len(missions[id][v].waypoints) :
                    /\ missions[id][v].waypoints[i].seq = i - 1
                    /\ missions[id][v].waypoints[i].altitude > 0
                    /\ missions[id][v].waypoints[i].altitude <= maxAltitude
    <2>1. Flyable(missions[id][v])
      BY <1>1 DEF IInv
    <2>2. PICK plan : plan = missions[id][v].waypoints
      OBVIOUS
    <2>3. missions[id][v].name \in Names /\ Placed(plan)
      BY <2>1, <2>2 DEF Flyable
    <2>4. \A i \in 1..Len(plan) : plan[i].seq = i - 1 /\ plan[i].altitude \in 1..maxAltitude
      BY <2>3 DEF Placed, inRange
    <2>5. maxAltitude \in Nat
      BY MissionsAssumption
    <2>6. QED BY <2>2, <2>3, <2>4, <2>5
  <1>2. IInv => StoredFlyable
    BY <1>1 DEF StoredFlyable
  <1>3. QED BY <1>2, Inductive, PTL

(* 7.2, 7.7, P12: for plans and zones of any size, an exported plan was      *)
(* validated, no segment of it touches a zone defined before the export      *)
(* began, and its bytes parse back to the plan, item for item.               *)
THEOREM ExportsStaySafe == Spec => []ExportsAreSafe
  <1>1. ASSUME IInv, NEW e \in exported
        PROVE  LET plan  == e.body.waypoints
                   items == parseMavlink(e.bytes)
               IN  /\ e.body.status = "validated"
                   /\ \A z \in e.known : segments(plan) \cap conflicting[z] = {}
                   /\ parses(e.bytes) /\ Len(items) = Len(plan) + 1
                   /\ \A i \in 1..Len(items) :
                        LET w == plan[Max({1, i - 1})]
                        IN  /\ items[i].seq = i - 1
                            /\ items[i].x = w.lat * GEO_SCALE /\ items[i].y = w.lon * GEO_SCALE
                            /\ items[i].z = w.altitude
                            /\ (items[i].command = MAV_CMD_NAV_TAKEOFF) = (i = 1)
    <2>1. ExportedOK(e)
      BY <1>1 DEF IInv
    <2>2. Placed(e.body.waypoints)
      BY <2>1 DEF ExportedOK, Flyable
    <2>3. QED BY <2>1, <2>2, BytesTellPlan DEF ExportedOK
  <1>2. IInv => ExportsAreSafe
    BY <1>1 DEF ExportsAreSafe
  <1>3. QED BY <1>2, Inductive, PTL

-----------------------------------------------------------------------------
(* Geofences.  Arithmetic of lines in whole numbers: a division is avoided  *)
(* by multiplying with what would have been the divisor.                    *)

(* Signs of a product. *)
LEMMA ProductSigns ==
  ASSUME NEW a \in Int, NEW b \in Int
  PROVE  /\ a * b \in Int
         /\ a > 0 /\ b > 0 => a * b > 0
         /\ a > 0 /\ b < 0 => a * b < 0
         /\ a < 0 /\ b > 0 => a * b < 0
         /\ a < 0 /\ b < 0 => a * b > 0
         /\ a = 0 \/ b = 0 => a * b = 0
  OBVIOUS

(* A positive factor can be left out of a comparison. *)
LEMMA Cancel ==
  ASSUME NEW w \in Int, w > 0, NEW a \in Int, NEW b \in Int
  PROVE  /\ w * a \in Int /\ w * b \in Int
         /\ w * a <= w * b <=> a <= b
         /\ w * a < w * b <=> a < b
         /\ w * a = w * b <=> a = b
  <1>1. w * a \in Int /\ w * b \in Int /\ w * (b - a) \in Int /\ w * b - w * a = w * (b - a)
    OBVIOUS
  <1>2. /\ b - a > 0 => w * (b - a) > 0
        /\ b - a < 0 => w * (b - a) < 0
        /\ b - a = 0 => w * (b - a) = 0
    BY ProductSigns
  <1> DEFINE p == w * (b - a)
             x == w * a
             y == w * b
  <1>3. p \in Int /\ x \in Int /\ y \in Int /\ y - x = p
    BY <1>1
  <1> HIDE DEF p, x, y
  <1>4. /\ b - a > 0 => p > 0
        /\ b - a < 0 => p < 0
        /\ b - a = 0 => p = 0
    BY <1>2 DEF p
  <1>5. (x <= y <=> a <= b) /\ (x < y <=> a < b) /\ (x = y <=> a = b)
    BY <1>3, <1>4
  <1>6. QED BY <1>3, <1>5 DEF x, y

(* x is a or b or between them. *)
Mid(x, a, b) == (a <= x /\ x <= b) \/ (b <= x /\ x <= a)

(* What is v parts of u, u not zero, lies between nothing and the whole.    *)
LEMMA PartOf ==
  ASSUME NEW u \in Int, NEW v \in Int, NEW s \in Int, NEW t \in Int,
         u # 0, u * s = v * t, Mid(v, 0, u)
  PROVE  Mid(s, 0, t)
  <1>1. CASE u > 0
    <2>1. 0 <= v /\ v <= u
      BY <1>1 DEF Mid
    <2>2. CASE t >= 0
      <3>1. v * t >= 0
        BY <2>1, <2>2
      <3>2. (u - v) * t >= 0 /\ u * t - v * t = (u - v) * t
        BY <2>1, <2>2
      <3>3. u * 0 <= u * s /\ u * s <= u * t
        BY <3>1, <3>2
      <3>4. 0 <= s
        BY <1>1, <3>3, Cancel
      <3>5. s <= t
        BY <1>1, <3>3, Cancel
      <3>6. QED BY <3>4, <3>5 DEF Mid
    <2>3. CASE t < 0
      <3>1. v * t <= 0
        BY <2>1, <2>3
      <3>2. (u - v) * t <= 0 /\ u * t - v * t = (u - v) * t
        BY <2>1, <2>3
      <3>3. u * s <= u * 0 /\ u * t <= u * s
        BY <3>1, <3>2
      <3>4. s <= 0
        BY <1>1, <3>3, Cancel
      <3>5. t <= s
        BY <1>1, <3>3, Cancel
      <3>6. QED BY <3>4, <3>5 DEF Mid
    <2>4. QED BY <2>2, <2>3
  <1>2. CASE u < 0
    <2>0. -u > 0 /\ (-u) * s = (-v) * t /\ -u \in Int
      BY <1>2
    <2>1. u <= v /\ v <= 0
      BY <1>2 DEF Mid
    <2>2. CASE t >= 0
      <3>1. (-v) * t >= 0
        BY <2>1, <2>2
      <3>2. (v - u) * t >= 0 /\ (-u) * t - (-v) * t = (v - u) * t
        BY <2>1, <2>2
      <3>3. (-u) * 0 <= (-u) * s /\ (-u) * s <= (-u) * t
        BY <2>0, <3>1, <3>2
      <3>4. 0 <= s
        BY <2>0, <3>3, Cancel
      <3>5. s <= t
        BY <2>0, <3>3, Cancel
      <3>6. QED BY <3>4, <3>5 DEF Mid
    <2>3. CASE t < 0
      <3>1. (-v) * t <= 0
        BY <2>1, <2>3
      <3>2. (v - u) * t <= 0 /\ (-u) * t - (-v) * t = (v - u) * t
        BY <2>1, <2>3
      <3>3. (-u) * s <= (-u) * 0 /\ (-u) * t <= (-u) * s
        BY <2>0, <3>1, <3>2
      <3>4. s <= 0
        BY <2>0, <3>3, Cancel
      <3>5. t <= s
        BY <2>0, <3>3, Cancel
      <3>6. QED BY <3>4, <3>5 DEF Mid
    <2>4. QED BY <2>2, <2>3
  <1>3. QED BY <1>1, <1>2

(* Two averages with equal total weights, equal to each other, have no gap  *)
(* between what they are taken of.                                          *)
LEMMA Averages ==
  ASSUME NEW b \in Nat, NEW a \in Nat, NEW c \in Nat, NEW e \in Nat,
         b + a = c + e, b + a > 0,
         NEW x \in Int, NEW y \in Int, NEW z \in Int, NEW w \in Int,
         b * x + a * y = c * z + e * w,
         x < z, x < w, y < z, y < w
  PROVE  FALSE
  <1> DEFINE top == IF x <= y THEN y ELSE x
  <1>1. top \in Int /\ x <= top /\ y <= top /\ z >= top + 1 /\ w >= top + 1
    OBVIOUS
  <1> HIDE DEF top
  <1>2. b * x <= b * top /\ a * y <= a * top
    BY <1>1
  <1>3. c * z >= c * (top + 1) /\ e * w >= e * (top + 1)
    BY <1>1
  <1>4. b * top + a * top = (b + a) * top /\ c * (top + 1) + e * (top + 1) = (c + e) * (top + 1)
    BY <1>1
  <1>5. (c + e) * (top + 1) = (b + a) * top + (b + a)
    BY <1>1
  <1> DEFINE bx == b * x
             ay == a * y
             cz == c * z
             ew == e * w
             bt == b * top
             at == a * top
             ct == c * (top + 1)
             et == e * (top + 1)
             all == (b + a) * top
             sum == (c + e) * (top + 1)
  <1>6. /\ bx \in Int /\ ay \in Int /\ cz \in Int /\ ew \in Int /\ bt \in Int /\ at \in Int
        /\ ct \in Int /\ et \in Int /\ all \in Int /\ sum \in Int
    BY <1>1
  <1>7. /\ bx <= bt /\ ay <= at /\ cz >= ct /\ ew >= et
        /\ bt + at = all /\ ct + et = sum /\ sum = all + (b + a) /\ bx + ay = cz + ew
    BY <1>2, <1>3, <1>4, <1>5
  <1> HIDE DEF bx, ay, cz, ew, bt, at, ct, et, all, sum
  <1>8. QED BY <1>6, <1>7

-----------------------------------------------------------------------------
(* Segments that meet have no gap in any direction. *)

Point == Int \X Int

(* How far p lies in direction d. *)
along(p, d) == p[1] * d[1] + p[2] * d[2]

(* In direction d, all of one segment comes before all of the other. *)
Before(p1, p2, p3, p4, d) ==
  /\ along(p1, d) < along(p3, d) /\ along(p1, d) < along(p4, d)
  /\ along(p2, d) < along(p3, d) /\ along(p2, d) < along(p4, d)

Apart(p1, p2, p3, p4, d) == Before(p1, p2, p3, p4, d) \/ Before(p3, p4, p1, p2, d)

LEMMA Numbers ==
  ASSUME NEW a \in Point, NEW b \in Point, NEW c \in Point
  PROVE  orientation(a, b, c) \in Int /\ along(a, b) \in Int
  BY DEF Point, orientation, along

(* The smaller and the larger of two numbers. *)
LEMMA OfTwo ==
  ASSUME NEW m \in Int, NEW n \in Int
  PROVE  /\ Min({m, n}) = IF m <= n THEN m ELSE n
         /\ Max({m, n}) = IF m <= n THEN n ELSE m
  <1>1. Min({m, n}) = IF m <= n THEN m ELSE n
    <2> DEFINE low == IF m <= n THEN m ELSE n
    <2>1. low \in {m, n} /\ \A v \in {m, n} : low <= v
      OBVIOUS
    <2>2. \A v \in {m, n} : (\A w \in {m, n} : v <= w) => v = low
      OBVIOUS
    <2>3. Min({m, n}) \in {m, n} /\ \A w \in {m, n} : Min({m, n}) <= w
      <3> HIDE DEF low
      <3>1. QED BY <2>1 DEF Min
    <2>4. QED BY <2>2, <2>3
  <1>2. Max({m, n}) = IF m <= n THEN n ELSE m
    <2> DEFINE high == IF m <= n THEN n ELSE m
    <2>1. high \in {m, n} /\ \A v \in {m, n} : high >= v
      OBVIOUS
    <2>2. \A v \in {m, n} : (\A w \in {m, n} : v >= w) => v = high
      OBVIOUS
    <2>3. Max({m, n}) \in {m, n} /\ \A w \in {m, n} : Max({m, n}) >= w
      <3> HIDE DEF high
      <3>1. QED BY <2>1 DEF Max
    <2>4. QED BY <2>2, <2>3
  <1>3. QED BY <1>1, <1>2

(* The numbers between two. *)
LEMMA BetweenTwo ==
  ASSUME NEW m \in Int, NEW n \in Int, NEW x \in Int
  PROVE  x \in between(m, n) <=> Mid(x, m, n)
  BY OfTwo DEF between, Mid

(* A point on a segment lies between its ends in every direction. *)
LEMMA OnSegmentBetween ==
  ASSUME NEW a \in Point, NEW b \in Point, NEW p \in Point, NEW d \in Point,
         orientation(a, b, p) = 0, withinBoundingBox(a, b, p)
  PROVE  Mid(along(p, d), along(a, d), along(b, d))
  <1> DEFINE u1 == b[1] - a[1]
             u2 == b[2] - a[2]
             v1 == p[1] - a[1]
             v2 == p[2] - a[2]
             s == v1 * d[1] + v2 * d[2]
             t == u1 * d[1] + u2 * d[2]
  <1>1. /\ a[1] \in Int /\ a[2] \in Int /\ b[1] \in Int /\ b[2] \in Int
        /\ p[1] \in Int /\ p[2] \in Int /\ d[1] \in Int /\ d[2] \in Int
    BY DEF Point
  <1>2. u1 * v2 = u2 * v1
    <2>1. u1 * v2 - u2 * v1 = 0
      BY DEF orientation
    <2>2. u1 * v2 \in Int /\ u2 * v1 \in Int
      BY <1>1
    <2>3. QED BY <2>1, <2>2
  <1>3. Mid(v1, 0, u1) /\ Mid(v2, 0, u2)
    <2>1. p[1] \in between(a[1], b[1]) /\ p[2] \in between(a[2], b[2])
      BY DEF withinBoundingBox
    <2>2. Mid(p[1], a[1], b[1]) /\ Mid(p[2], a[2], b[2])
      BY <1>1, <2>1, BetweenTwo
    <2>3. QED BY <1>1, <2>2 DEF Mid
  <1>4. along(p, d) = along(a, d) + s /\ along(b, d) = along(a, d) + t
    BY <1>1 DEF along
  <1>5. s \in Int /\ t \in Int /\ along(a, d) \in Int
    BY <1>1 DEF along
  <1>6. u1 * s = v1 * t
    <2>1. u1 \in Int /\ u2 \in Int /\ v1 \in Int /\ v2 \in Int
      BY <1>1
    <2> HIDE DEF u1, u2, v1, v2
    <2>2. u1 * s = v1 * (u1 * d[1]) + (u1 * v2) * d[2]
      BY <1>1, <2>1
    <2>3. v1 * t = v1 * (u1 * d[1]) + (u2 * v1) * d[2]
      BY <1>1, <2>1
    <2>4. QED BY <1>2, <2>2, <2>3
  <1>7. u2 * s = v2 * t
    <2>1. u1 \in Int /\ u2 \in Int /\ v1 \in Int /\ v2 \in Int
      BY <1>1
    <2> HIDE DEF u1, u2, v1, v2
    <2>2. u2 * s = (u2 * v1) * d[1] + v2 * (u2 * d[2])
      BY <1>1, <2>1
    <2>3. v2 * t = (u1 * v2) * d[1] + v2 * (u2 * d[2])
      BY <1>1, <2>1
    <2>4. QED BY <1>2, <2>2, <2>3
  <1>8. u1 \in Int /\ u2 \in Int /\ v1 \in Int /\ v2 \in Int
    BY <1>1
  <1>9. Mid(s, 0, t)
    <2>1. CASE u1 = 0 /\ u2 = 0
      <3>1. v1 = 0 /\ v2 = 0
        BY <1>3, <1>8, <2>1 DEF Mid
      <3>2. s = 0 /\ t = 0
        BY <1>1, <2>1, <3>1
      <3>3. QED BY <3>2 DEF Mid
    <2> HIDE DEF u1, u2, v1, v2, s, t
    <2>2. CASE u1 # 0
      BY <1>3, <1>5, <1>6, <1>8, <2>2, PartOf
    <2>3. CASE u2 # 0
      BY <1>3, <1>5, <1>7, <1>8, <2>3, PartOf
    <2>4. QED BY <2>1, <2>2, <2>3
  <1> HIDE DEF s, t
  <1>10. QED BY <1>4, <1>5, <1>9 DEF Mid

(* Where the lines of two segments cross, weighted with the distances from  *)
(* the lines: the same point from either segment.                           *)
LEMMA Crossing ==
  ASSUME NEW p1 \in Point, NEW p2 \in Point, NEW p3 \in Point, NEW p4 \in Point, NEW d \in Point
  PROVE  LET a == orientation(p3, p4, p1)
             b == orientation(p3, p4, p2)
             c == orientation(p1, p2, p3)
             e == orientation(p1, p2, p4)
         IN  /\ b - a = c - e
             /\ b * along(p1, d) - a * along(p2, d) = c * along(p4, d) - e * along(p3, d)
  <1>1. /\ p1[1] \in Int /\ p1[2] \in Int /\ p2[1] \in Int /\ p2[2] \in Int
        /\ p3[1] \in Int /\ p3[2] \in Int /\ p4[1] \in Int /\ p4[2] \in Int
        /\ d[1] \in Int /\ d[2] \in Int
    BY DEF Point
  <1>2. QED BY <1>1, SMTT(60) DEF orientation, along

(* The sign of a number is -1, 0 or 1. *)
LEMMA Signs ==
  ASSUME NEW n \in Int
  PROVE  /\ sign(n) \in {-1, 0, 1}
         /\ sign(n) = 1 <=> n > 0
         /\ sign(n) = -1 <=> n < 0
         /\ sign(n) = 0 <=> n = 0
  BY DEF sign

(* Ends on different sides of each other's lines: no gap. *)
LEMMA CrossedNotBefore ==
  ASSUME NEW p1 \in Point, NEW p2 \in Point, NEW p3 \in Point, NEW p4 \in Point, NEW d \in Point,
         side(p3, p4, p1) # side(p3, p4, p2), side(p1, p2, p3) # side(p1, p2, p4)
  PROVE  ~Before(p1, p2, p3, p4, d)
  <1> SUFFICES ASSUME Before(p1, p2, p3, p4, d) PROVE FALSE
    OBVIOUS
  <1> DEFINE a == orientation(p3, p4, p1)
             b == orientation(p3, p4, p2)
             c == orientation(p1, p2, p3)
             e == orientation(p1, p2, p4)
             x1 == along(p1, d)
             x2 == along(p2, d)
             x3 == along(p3, d)
             x4 == along(p4, d)
  <1>1. /\ a \in Int /\ b \in Int /\ c \in Int /\ e \in Int
        /\ x1 \in Int /\ x2 \in Int /\ x3 \in Int /\ x4 \in Int
    BY Numbers
  <1>2. b - a = c - e /\ b * x1 - a * x2 = c * x4 - e * x3
    BY Crossing
  <1>3. sign(a) # sign(b) /\ sign(c) # sign(e)
    BY DEF side
  <1>4. x1 < x3 /\ x1 < x4 /\ x2 < x3 /\ x2 < x4
    BY DEF Before
  <1> HIDE DEF a, b, c, e, x1, x2, x3, x4
  <1>5. /\ (a > 0 => b <= 0) /\ (a < 0 => b >= 0) /\ (a = 0 => b # 0)
        /\ (c > 0 => e <= 0) /\ (c < 0 => e >= 0) /\ (c = 0 => e # 0)
    BY <1>1, <1>3, Signs
  <1>6. a # b
    BY <1>1, <1>5
  <1>7. CASE a < b
    <2>1. b \in Nat /\ -a \in Nat /\ c \in Nat /\ -e \in Nat
      BY <1>1, <1>2, <1>5, <1>7
    <2>2. b + (-a) = c + (-e) /\ b + (-a) > 0
      BY <1>1, <1>2, <1>7
    <2>3. b * x1 + (-a) * x2 = c * x4 + (-e) * x3
      <3>1. (-a) * x2 = -(a * x2) /\ (-e) * x3 = -(e * x3)
        BY <1>1
      <3> DEFINE bx == b * x1
                 ax == a * x2
                 cx == c * x4
                 ex == e * x3
      <3>2. bx \in Int /\ ax \in Int /\ cx \in Int /\ ex \in Int /\ bx - ax = cx - ex
        BY <1>1, <1>2
      <3> HIDE DEF bx, ax, cx, ex
      <3>3. bx + (-ax) = cx + (-ex)
        BY <3>2
      <3>4. QED BY <3>1, <3>3 DEF bx, ax, cx, ex
    <2>4. QED BY <1>1, <1>4, <2>1, <2>2, <2>3, Averages
  <1>8. CASE b < a
    <2>1. -b \in Nat /\ a \in Nat /\ -c \in Nat /\ e \in Nat
      BY <1>1, <1>2, <1>5, <1>8
    <2>2. (-b) + a = (-c) + e /\ (-b) + a > 0
      BY <1>1, <1>2, <1>8
    <2>3. (-b) * x1 + a * x2 = (-c) * x4 + e * x3
      <3>1. (-b) * x1 = -(b * x1) /\ (-c) * x4 = -(c * x4)
        BY <1>1
      <3> DEFINE bx == b * x1
                 ax == a * x2
                 cx == c * x4
                 ex == e * x3
      <3>2. bx \in Int /\ ax \in Int /\ cx \in Int /\ ex \in Int /\ bx - ax = cx - ex
        BY <1>1, <1>2
      <3> HIDE DEF bx, ax, cx, ex
      <3>3. (-bx) + ax = (-cx) + ex
        BY <3>2
      <3>4. QED BY <3>1, <3>3 DEF bx, ax, cx, ex
    <2>4. QED BY <1>1, <1>4, <2>1, <2>2, <2>3, Averages
  <1>9. QED BY <1>1, <1>6, <1>7, <1>8

(* Segments that meet have no gap. *)
LEMMA MeetingNotApart ==
  ASSUME NEW p1 \in Point, NEW p2 \in Point, NEW p3 \in Point, NEW p4 \in Point, NEW d \in Point,
         segmentsIntersect(p1, p2, p3, p4)
  PROVE  ~Apart(p1, p2, p3, p4, d)
  <1>1. /\ along(p1, d) \in Int /\ along(p2, d) \in Int
        /\ along(p3, d) \in Int /\ along(p4, d) \in Int
    BY Numbers
  <1>2. ASSUME NEW a \in Point, NEW b \in Point, NEW p \in Point, side(a, b, p) = 0,
               withinBoundingBox(a, b, p)
        PROVE  Mid(along(p, d), along(a, d), along(b, d))
    <2>1. orientation(a, b, p) = 0
      BY <1>2, Numbers, Signs DEF side
    <2>2. QED BY <1>2, <2>1, OnSegmentBetween
  <1>3. CASE side(p3, p4, p1) # side(p3, p4, p2) /\ side(p1, p2, p3) # side(p1, p2, p4)
    BY <1>3, CrossedNotBefore DEF Apart
  <1>4. CASE side(p3, p4, p1) = 0 /\ withinBoundingBox(p3, p4, p1)
    <2>1. Mid(along(p1, d), along(p3, d), along(p4, d))
      BY <1>2, <1>4
    <2>2. QED BY <1>1, <2>1 DEF Mid, Apart, Before
  <1>5. CASE side(p3, p4, p2) = 0 /\ withinBoundingBox(p3, p4, p2)
    <2>1. Mid(along(p2, d), along(p3, d), along(p4, d))
      BY <1>2, <1>5
    <2>2. QED BY <1>1, <2>1 DEF Mid, Apart, Before
  <1>6. CASE side(p1, p2, p3) = 0 /\ withinBoundingBox(p1, p2, p3)
    <2>1. Mid(along(p3, d), along(p1, d), along(p2, d))
      BY <1>2, <1>6
    <2>2. QED BY <1>1, <2>1 DEF Mid, Apart, Before
  <1>7. CASE side(p1, p2, p4) = 0 /\ withinBoundingBox(p1, p2, p4)
    <2>1. Mid(along(p4, d), along(p1, d), along(p2, d))
      BY <1>2, <1>7
    <2>2. QED BY <1>1, <2>1 DEF Mid, Apart, Before
  <1>8. QED BY <1>3, <1>4, <1>5, <1>6, <1>7 DEF segmentsIntersect

-----------------------------------------------------------------------------
(* Segments that do not meet have a gap along or across one of the two.     *)

diff(a, b) == <<a[1] - b[1], a[2] - b[2]>>
turned(d)  == <<-d[2], d[1]>>

(* Both ends on one side of the other's line: a gap across that line. *)
LEMMA SameSide ==
  ASSUME NEW p1 \in Point, NEW p2 \in Point, NEW p3 \in Point, NEW p4 \in Point,
         side(p3, p4, p1) = side(p3, p4, p2), side(p3, p4, p1) # 0
  PROVE  Apart(p1, p2, p3, p4, turned(diff(p4, p3)))
  <1> DEFINE d == turned(diff(p4, p3))
             a == orientation(p3, p4, p1)
             b == orientation(p3, p4, p2)
  <1>1. /\ p1[1] \in Int /\ p1[2] \in Int /\ p2[1] \in Int /\ p2[2] \in Int
        /\ p3[1] \in Int /\ p3[2] \in Int /\ p4[1] \in Int /\ p4[2] \in Int
    BY DEF Point
  <1>2. d[1] = p3[2] - p4[2] /\ d[2] = p4[1] - p3[1]
    BY <1>1 DEF turned, diff
  <1>3. /\ along(p1, d) = along(p3, d) + a
        /\ along(p2, d) = along(p3, d) + b
        /\ along(p4, d) = along(p3, d)
    <2> HIDE DEF d
    <2>1. QED BY <1>1, <1>2 DEF along, orientation
  <1>4. along(p3, d) \in Int /\ a \in Int /\ b \in Int
    <2>1. d \in Point
      BY <1>1 DEF Point, turned, diff
    <2> HIDE DEF d
    <2>2. QED BY <2>1, Numbers
  <1>5. sign(a) = sign(b) /\ sign(a) # 0
    BY DEF side
  <1> HIDE DEF a, b, d
  <1>6. (a > 0 /\ b > 0) \/ (a < 0 /\ b < 0)
    BY <1>4, <1>5, Signs
  <1>7. QED BY <1>3, <1>4, <1>6 DEF Apart, Before, d

(* Of points on a line, what lies within in one coordinate does in both. *)
LEMMA LineBox ==
  ASSUME NEW a \in Point, NEW b \in Point, NEW p \in Point, orientation(a, b, p) = 0,
         \/ (a[1] # b[1] /\ Mid(p[1], a[1], b[1]))
         \/ (a[2] # b[2] /\ Mid(p[2], a[2], b[2]))
  PROVE  withinBoundingBox(a, b, p)
  <1> DEFINE u1 == b[1] - a[1]
             u2 == b[2] - a[2]
             v1 == p[1] - a[1]
             v2 == p[2] - a[2]
  <1>1. /\ a[1] \in Int /\ a[2] \in Int /\ b[1] \in Int /\ b[2] \in Int
        /\ p[1] \in Int /\ p[2] \in Int
    BY DEF Point
  <1>2. u1 \in Int /\ u2 \in Int /\ v1 \in Int /\ v2 \in Int
    BY <1>1
  <1>3. u1 * v2 = v1 * u2 /\ u2 * v1 = v2 * u1
    <2>1. u1 * v2 - u2 * v1 = 0
      BY DEF orientation
    <2> HIDE DEF u1, u2, v1, v2
    <2>2. u1 * v2 \in Int /\ u2 * v1 \in Int /\ u2 * v1 = v1 * u2 /\ u1 * v2 = v2 * u1
      BY <1>2
    <2>3. QED BY <2>1, <2>2
  <1>4. /\ Mid(p[1], a[1], b[1]) <=> Mid(v1, 0, u1)
        /\ Mid(p[2], a[2], b[2]) <=> Mid(v2, 0, u2)
    BY <1>1 DEF Mid
  <1>5. (u1 # 0 /\ Mid(v1, 0, u1)) \/ (u2 # 0 /\ Mid(v2, 0, u2))
    <2>1. (a[1] # b[1] => u1 # 0) /\ (a[2] # b[2] => u2 # 0)
      BY <1>1
    <2> HIDE DEF u1, u2, v1, v2
    <2>2. QED BY <1>4, <2>1, Zenon
  <1> HIDE DEF u1, u2, v1, v2
  <1>6. Mid(v1, 0, u1) /\ Mid(v2, 0, u2)
    <2>1. CASE u1 # 0 /\ Mid(v1, 0, u1)
      BY <1>2, <1>3, <2>1, PartOf
    <2>2. CASE u2 # 0 /\ Mid(v2, 0, u2)
      BY <1>2, <1>3, <2>2, PartOf
    <2>3. QED BY <1>5, <2>1, <2>2
  <1>7. p[1] \in between(a[1], b[1]) /\ p[2] \in between(a[2], b[2])
    BY <1>1, <1>4, <1>6, BetweenTwo
  <1>8. QED BY <1>7 DEF withinBoundingBox

(* Points of a line are ordered along it as their coordinates are. *)
LEMMA LineOrder ==
  ASSUME NEW u \in Int, u # 0, NEW v \in Int,
         NEW x \in Int, NEW y \in Int, NEW s \in Int, NEW t \in Int,
         u * y = v * x, u * t = v * s
  PROVE  /\ x * u + y * v \in Int /\ s * u + t * v \in Int
         /\ u > 0 /\ x < s => x * u + y * v < s * u + t * v
         /\ u < 0 /\ s < x => x * u + y * v < s * u + t * v
  <1> DEFINE f == x * u + y * v
             g == s * u + t * v
             n == u * u + v * v
  <1>1. f \in Int /\ g \in Int /\ n \in Int
    OBVIOUS
  <1>2. n > 0
    <2>1. u * u > 0 /\ v * v >= 0 /\ u * u \in Int /\ v * v \in Int
      OBVIOUS
    <2>2. QED BY <2>1
  <1>3. u * f = x * n
    <2>1. u * f = x * (u * u) + (u * y) * v
      OBVIOUS
    <2>2. (u * y) * v = (v * x) * v
      OBVIOUS
    <2>3. x * n = x * (u * u) + (v * x) * v
      OBVIOUS
    <2>4. QED BY <2>1, <2>2, <2>3
  <1>4. u * g = s * n
    <2>1. u * g = s * (u * u) + (u * t) * v
      OBVIOUS
    <2>2. (u * t) * v = (v * s) * v
      OBVIOUS
    <2>3. s * n = s * (u * u) + (v * s) * v
      OBVIOUS
    <2>4. QED BY <2>1, <2>2, <2>3
  <1> HIDE DEF f, g, n
  <1>5. n * x = x * n /\ n * s = s * n /\ x * n \in Int /\ s * n \in Int
    BY <1>1
  <1>6. ASSUME u > 0, x < s PROVE f < g
    <2>1. n * x < n * s
      BY <1>1, <1>2, <1>6, Cancel
    <2>2. u * f < u * g
      BY <1>3, <1>4, <1>5, <2>1
    <2>3. QED BY <1>1, <1>6, <2>2, Cancel
  <1>7. ASSUME u < 0, s < x PROVE f < g
    <2>1. n * s < n * x
      BY <1>1, <1>2, <1>7, Cancel
    <2>2. u * g < u * f
      BY <1>3, <1>4, <1>5, <2>1
    <2>3. -u \in Int /\ -u > 0
      BY <1>7
    <2>4. (-u) * g = -(u * g) /\ (-u) * f = -(u * f) /\ u * g \in Int /\ u * f \in Int
      BY <1>1
    <2>5. (-u) * f < (-u) * g
      <3> DEFINE a == u * f
                 b == u * g
      <3>1. a \in Int /\ b \in Int /\ b < a /\ (-u) * g = -b /\ (-u) * f = -a
        BY <2>2, <2>4
      <3> HIDE DEF a, b
      <3>2. -a < -b
        BY <3>1
      <3>3. QED BY <3>1, <3>2
    <2>6. QED BY <1>1, <2>3, <2>5, Cancel
  <1>8. QED BY <1>1, <1>6, <1>7 DEF f, g

(* Four points, of which two lie on the line of two others. *)
LEMMA AllOnLine ==
  ASSUME NEW p1 \in Point, NEW p2 \in Point, NEW p3 \in Point, NEW p4 \in Point, p3 # p4,
         orientation(p3, p4, p1) = 0, orientation(p3, p4, p2) = 0
  PROVE  orientation(p1, p2, p3) = 0 /\ orientation(p1, p2, p4) = 0
  <1> DEFINE u1 == p4[1] - p3[1]
             u2 == p4[2] - p3[2]
             x1 == p1[1] - p3[1]
             x2 == p1[2] - p3[2]
             y1 == p2[1] - p3[1]
             y2 == p2[2] - p3[2]
             c == x1 * y2 - x2 * y1
  <1>1. /\ p1[1] \in Int /\ p1[2] \in Int /\ p2[1] \in Int /\ p2[2] \in Int
        /\ p3[1] \in Int /\ p3[2] \in Int /\ p4[1] \in Int /\ p4[2] \in Int
    BY DEF Point
  <1>2. u1 # 0 \/ u2 # 0
    <2>1. p3[1] # p4[1] \/ p3[2] # p4[2]
      BY DEF Point
    <2>2. QED BY <1>1, <2>1
  <1>3. u1 * x2 - u2 * x1 = 0 /\ u1 * y2 - u2 * y1 = 0
    BY DEF orientation
  <1>4. orientation(p1, p2, p3) = c
    BY <1>1 DEF orientation
  <1>5. /\ u1 \in Int /\ u2 \in Int /\ x1 \in Int /\ x2 \in Int /\ y1 \in Int /\ y2 \in Int
        /\ c \in Int
    BY <1>1
  <1> HIDE DEF u1, u2, x1, x2, y1, y2
  <1>6. u1 * x2 = u2 * x1 /\ u1 * y2 = u2 * y1
    <2>1. u1 * x2 \in Int /\ u2 * x1 \in Int /\ u1 * y2 \in Int /\ u2 * y1 \in Int
      BY <1>5
    <2>2. QED BY <1>3, <2>1
  <1>7. u1 * c = 0
    <2>1. u1 * c = x1 * (u1 * y2) - (u1 * x2) * y1
      BY <1>5
    <2>2. x1 * (u2 * y1) - (u2 * x1) * y1 = 0
      BY <1>5
    <2>3. QED BY <1>6, <2>1, <2>2
  <1>8. u2 * c = 0
    <2>1. u2 * c = (u2 * x1) * y2 - x2 * (u2 * y1)
      BY <1>5
    <2>2. (u1 * x2) * y2 - x2 * (u1 * y2) = 0
      BY <1>5
    <2>3. QED BY <1>6, <2>1, <2>2
  <1>9. c = 0
    <2> HIDE DEF c
    <2>1. \A u \in Int : u # 0 /\ u * c = 0 => c = 0
      BY <1>5, ProductSigns
    <2>2. QED BY <1>2, <1>5, <1>7, <1>8, <2>1
  <1>10. orientation(p1, p2, p3) - orientation(p1, p2, p4) = 0
    <2>1. orientation(p3, p4, p2) - orientation(p3, p4, p1)
            = orientation(p1, p2, p3) - orientation(p1, p2, p4)
      BY Crossing
    <2>2. QED BY <2>1
  <1>11. orientation(p1, p2, p4) \in Int
    BY Numbers
  <1>12. QED BY <1>4, <1>9, <1>10, <1>11

(* Numbers of which none of one pair is between those of the other. *)
LEMMA Disjoint ==
  ASSUME NEW a \in Int, NEW b \in Int, NEW c \in Int, NEW e \in Int,
         ~Mid(a, c, e), ~Mid(b, c, e), a # b => ~Mid(c, a, b)
  PROVE  \/ a < c /\ a < e /\ b < c /\ b < e
         \/ c < a /\ c < b /\ e < a /\ e < b
  BY DEF Mid

(* Segments of one line that do not meet: a gap along it. *)
LEMMA LineApart ==
  ASSUME NEW p1 \in Point, NEW p2 \in Point, NEW p3 \in Point, NEW p4 \in Point, p3 # p4,
         orientation(p3, p4, p1) = 0, orientation(p3, p4, p2) = 0,
         ~segmentsIntersect(p1, p2, p3, p4)
  PROVE  Apart(p1, p2, p3, p4, diff(p4, p3))
  <1> DEFINE u1 == p4[1] - p3[1]
             u2 == p4[2] - p3[2]
             d == diff(p4, p3)
             F(p) == (p[1] - p3[1]) * u1 + (p[2] - p3[2]) * u2
             Points == {p1, p2, p3, p4}
  <1>1. /\ p1[1] \in Int /\ p1[2] \in Int /\ p2[1] \in Int /\ p2[2] \in Int
        /\ p3[1] \in Int /\ p3[2] \in Int /\ p4[1] \in Int /\ p4[2] \in Int
    BY DEF Point
  <1>2. orientation(p1, p2, p3) = 0 /\ orientation(p1, p2, p4) = 0
    BY AllOnLine
  <1>3. /\ ~withinBoundingBox(p3, p4, p1) /\ ~withinBoundingBox(p3, p4, p2)
        /\ ~withinBoundingBox(p1, p2, p3) /\ ~withinBoundingBox(p1, p2, p4)
    <2>1. /\ side(p3, p4, p1) = 0 /\ side(p3, p4, p2) = 0
          /\ side(p1, p2, p3) = 0 /\ side(p1, p2, p4) = 0
      BY <1>2 DEF side, sign
    <2>2. QED BY <2>1 DEF segmentsIntersect
  <1>4. ASSUME NEW p \in Points
        PROVE  /\ p[1] \in Int /\ p[2] \in Int /\ F(p) \in Int
               /\ u1 * (p[2] - p3[2]) = u2 * (p[1] - p3[1])
    <2>1. p \in Point /\ p[1] \in Int /\ p[2] \in Int
      BY DEF Point
    <2>2. orientation(p3, p4, p) = 0
      <3>1. orientation(p3, p4, p3) = 0 /\ orientation(p3, p4, p4) = 0
        BY <1>1 DEF orientation
      <3>2. QED BY <3>1
    <2>3. u1 * (p[2] - p3[2]) - u2 * (p[1] - p3[1]) = 0
      BY <2>2 DEF orientation
    <2>4. u1 * (p[2] - p3[2]) \in Int /\ u2 * (p[1] - p3[1]) \in Int
      BY <1>1, <2>1
    <2>5. F(p) \in Int
      BY <1>1, <2>1
    <2>6. QED BY <2>1, <2>3, <2>4, <2>5
  <1>5. ASSUME NEW p \in Points PROVE along(p, d) = along(p3, d) + F(p)
    <2>1. d[1] = u1 /\ d[2] = u2 /\ p[1] \in Int /\ p[2] \in Int /\ u1 \in Int /\ u2 \in Int
      BY <1>1, <1>4 DEF diff
    <2> HIDE DEF d, u1, u2
    <2>2. QED BY <1>1, <2>1 DEF along
  <1>6. along(p3, d) \in Int
    <2>1. d \in Point
      BY <1>1 DEF diff, Point
    <2>2. QED BY <2>1, Numbers
  <1>7. /\ ~(p3[1] # p4[1] /\ Mid(p1[1], p3[1], p4[1])) /\ ~(p3[1] # p4[1] /\ Mid(p2[1], p3[1], p4[1]))
        /\ ~(p1[1] # p2[1] /\ Mid(p3[1], p1[1], p2[1]))
        /\ ~(p3[2] # p4[2] /\ Mid(p1[2], p3[2], p4[2])) /\ ~(p3[2] # p4[2] /\ Mid(p2[2], p3[2], p4[2]))
        /\ ~(p1[2] # p2[2] /\ Mid(p3[2], p1[2], p2[2]))
    BY <1>2, <1>3, LineBox
  <1>8. p3[1] # p4[1] \/ p3[2] # p4[2]
    BY DEF Point
  <1>9. CASE p3[1] # p4[1]
    <2>1. \/ p1[1] < p3[1] /\ p1[1] < p4[1] /\ p2[1] < p3[1] /\ p2[1] < p4[1]
          \/ p3[1] < p1[1] /\ p3[1] < p2[1] /\ p4[1] < p1[1] /\ p4[1] < p2[1]
      BY <1>1, <1>7, <1>9, Disjoint
    <2>2. u1 \in Int /\ u2 \in Int /\ u1 # 0
      BY <1>1, <1>9
    <2>3. ASSUME NEW p \in Points, NEW q \in Points
          PROVE  /\ u1 > 0 /\ p[1] < q[1] => F(p) < F(q)
                 /\ u1 < 0 /\ q[1] < p[1] => F(p) < F(q)
      <3> DEFINE x == p[1] - p3[1]
                 y == p[2] - p3[2]
                 s == q[1] - p3[1]
                 t == q[2] - p3[2]
      <3>1. /\ x \in Int /\ y \in Int /\ s \in Int /\ t \in Int
            /\ u1 * y = u2 * x /\ u1 * t = u2 * s
        BY <1>1, <1>4
      <3>2. (p[1] < q[1] <=> x < s) /\ (q[1] < p[1] <=> s < x)
        BY <1>1, <1>4
      <3>3. F(p) = x * u1 + y * u2 /\ F(q) = s * u1 + t * u2
        OBVIOUS
      <3> HIDE DEF x, y, s, t, F, u1, u2
      <3>4. /\ u1 > 0 /\ x < s => x * u1 + y * u2 < s * u1 + t * u2
            /\ u1 < 0 /\ s < x => x * u1 + y * u2 < s * u1 + t * u2
        BY <2>2, <3>1, LineOrder
      <3>5. QED BY <3>2, <3>3, <3>4
    <2>4. u1 > 0 \/ u1 < 0
      BY <2>2
    <2>5. p1 \in Points /\ p2 \in Points /\ p3 \in Points /\ p4 \in Points
      OBVIOUS
    <2> HIDE DEF F, u1, u2, d, Points
    <2>6. \/ F(p1) < F(p3) /\ F(p1) < F(p4) /\ F(p2) < F(p3) /\ F(p2) < F(p4)
          \/ F(p3) < F(p1) /\ F(p3) < F(p2) /\ F(p4) < F(p1) /\ F(p4) < F(p2)
      BY <2>1, <2>3, <2>4, <2>5
    <2>7. QED BY <1>4, <1>5, <1>6, <2>5, <2>6 DEF Apart, Before, d
  <1>10. CASE p3[2] # p4[2]
    <2>1. \/ p1[2] < p3[2] /\ p1[2] < p4[2] /\ p2[2] < p3[2] /\ p2[2] < p4[2]
          \/ p3[2] < p1[2] /\ p3[2] < p2[2] /\ p4[2] < p1[2] /\ p4[2] < p2[2]
      BY <1>1, <1>7, <1>10, Disjoint
    <2>2. u1 \in Int /\ u2 \in Int /\ u2 # 0
      BY <1>1, <1>10
    <2>3. ASSUME NEW p \in Points, NEW q \in Points
          PROVE  /\ u2 > 0 /\ p[2] < q[2] => F(p) < F(q)
                 /\ u2 < 0 /\ q[2] < p[2] => F(p) < F(q)
      <3> DEFINE x == p[1] - p3[1]
                 y == p[2] - p3[2]
                 s == q[1] - p3[1]
                 t == q[2] - p3[2]
      <3>1. /\ x \in Int /\ y \in Int /\ s \in Int /\ t \in Int
            /\ u2 * x = u1 * y /\ u2 * s = u1 * t
        BY <1>1, <1>4
      <3>2. (p[2] < q[2] <=> y < t) /\ (q[2] < p[2] <=> t < y)
        BY <1>1, <1>4
      <3>3. F(p) = y * u2 + x * u1 /\ F(q) = t * u2 + s * u1
        <4>1. F(p) = x * u1 + y * u2 /\ F(q) = s * u1 + t * u2
          OBVIOUS
        <4> HIDE DEF x, y, s, t, F, u1, u2
        <4>2. QED BY <2>2, <3>1, <4>1
      <3> HIDE DEF x, y, s, t, F, u1, u2
      <3>4. /\ u2 > 0 /\ y < t => y * u2 + x * u1 < t * u2 + s * u1
            /\ u2 < 0 /\ t < y => y * u2 + x * u1 < t * u2 + s * u1
        BY <2>2, <3>1, LineOrder
      <3>5. QED BY <3>2, <3>3, <3>4
    <2>4. u2 > 0 \/ u2 < 0
      BY <2>2
    <2>5. p1 \in Points /\ p2 \in Points /\ p3 \in Points /\ p4 \in Points
      OBVIOUS
    <2> HIDE DEF F, u1, u2, d, Points
    <2>6. \/ F(p1) < F(p3) /\ F(p1) < F(p4) /\ F(p2) < F(p3) /\ F(p2) < F(p4)
          \/ F(p3) < F(p1) /\ F(p3) < F(p2) /\ F(p4) < F(p1) /\ F(p4) < F(p2)
      BY <2>1, <2>3, <2>4, <2>5
    <2>7. QED BY <1>4, <1>5, <1>6, <2>5, <2>6 DEF Apart, Before, d
  <1>11. QED BY <1>8, <1>9, <1>10

-----------------------------------------------------------------------------
(* The axes of two segments. *)

edgesOf(S) == {<<S[i][1] - S[(i % Len(S)) + 1][1], S[i][2] - S[(i % Len(S)) + 1][2]>> :
                 i \in 1..Len(S)}

axesOf(P, Q) == LET dirs == edgesOf(P) \cup edgesOf(Q)
                IN  dirs \cup {<<-d[2], d[1]>> : d \in dirs}

shadow(S, d) == {S[i][1] * d[1] + S[i][2] * d[2] : i \in 1..Len(S)}

(* Separated, in these terms. *)
LEMMA SeparatedIs ==
  ASSUME NEW P, NEW Q
  PROVE  Separated(P, Q) <=>
           \E d \in axesOf(P, Q) : \/ Max(shadow(P, d)) < Min(shadow(Q, d))
                                   \/ Max(shadow(Q, d)) < Min(shadow(P, d))
  BY Zenon DEF Separated, axesOf, edgesOf, shadow

(* The edges and the shadow of a segment. *)
LEMMA OfSegment ==
  ASSUME NEW a, NEW b
  PROVE  /\ edgesOf(<<a, b>>) = {diff(a, b), diff(b, a)}
         /\ \A d : shadow(<<a, b>>, d) = {along(a, d), along(b, d)}
  <1> DEFINE S == <<a, b>>
  <1>1. Len(S) = 2 /\ S[1] = a /\ S[2] = b
    OBVIOUS
  <1>2. 1..2 = {1, 2} /\ (1 % 2) + 1 = 2 /\ (2 % 2) + 1 = 1
    OBVIOUS
  <1> HIDE DEF S
  <1>3. edgesOf(S) = {diff(a, b), diff(b, a)}
    <2>1. edgesOf(S) = {<<S[i][1] - S[(i % 2) + 1][1], S[i][2] - S[(i % 2) + 1][2]>> : i \in {1, 2}}
      BY <1>1, <1>2 DEF edgesOf
    <2>2. QED BY <1>1, <1>2, <2>1 DEF diff
  <1>4. ASSUME NEW d PROVE shadow(S, d) = {along(a, d), along(b, d)}
    <2>1. shadow(S, d) = {S[i][1] * d[1] + S[i][2] * d[2] : i \in {1, 2}}
      BY <1>1, <1>2 DEF shadow
    <2>2. QED BY <1>1, <2>1 DEF along
  <1>5. QED BY <1>3, <1>4 DEF S

(* Shadows without a gap between. *)
LEMMA ShadowsApart ==
  ASSUME NEW p1 \in Point, NEW p2 \in Point, NEW p3 \in Point, NEW p4 \in Point, NEW d \in Point
  PROVE  Max(shadow(<<p1, p2>>, d)) < Min(shadow(<<p3, p4>>, d)) <=> Before(p1, p2, p3, p4, d)
  <1> DEFINE x1 == along(p1, d)
             x2 == along(p2, d)
             x3 == along(p3, d)
             x4 == along(p4, d)
  <1>1. x1 \in Int /\ x2 \in Int /\ x3 \in Int /\ x4 \in Int
    BY Numbers
  <1>2. shadow(<<p1, p2>>, d) = {x1, x2} /\ shadow(<<p3, p4>>, d) = {x3, x4}
    BY OfSegment
  <1>3. Before(p1, p2, p3, p4, d) <=> x1 < x3 /\ x1 < x4 /\ x2 < x3 /\ x2 < x4
    BY DEF Before
  <1> HIDE DEF x1, x2, x3, x4
  <1>4. Max({x1, x2}) = (IF x1 <= x2 THEN x2 ELSE x1) /\ Min({x3, x4}) = (IF x3 <= x4 THEN x3 ELSE x4)
    BY <1>1, OfTwo
  <1>5. Max({x1, x2}) < Min({x3, x4}) <=> x1 < x3 /\ x1 < x4 /\ x2 < x3 /\ x2 < x4
    BY <1>1, <1>4
  <1>6. QED BY <1>2, <1>3, <1>5

(* Two segments are separated when they have a gap along or across one of   *)
(* the two.                                                                 *)
LEMMA SeparatedPairs ==
  ASSUME NEW p1 \in Point, NEW p2 \in Point, NEW p3 \in Point, NEW p4 \in Point
  PROVE  LET E == {diff(p1, p2), diff(p2, p1), diff(p3, p4), diff(p4, p3)}
         IN  Separated(<<p1, p2>>, <<p3, p4>>) <=>
               \E d \in E \cup {turned(e) : e \in E} : Apart(p1, p2, p3, p4, d)
  <1> DEFINE E == {diff(p1, p2), diff(p2, p1), diff(p3, p4), diff(p4, p3)}
             A == E \cup {turned(e) : e \in E}
             P == <<p1, p2>>
             Q == <<p3, p4>>
  <1>1. edgesOf(P) \cup edgesOf(Q) = E
    BY OfSegment
  <1>2. axesOf(P, Q) = A
    <2> HIDE DEF E, P, Q
    <2>1. axesOf(P, Q) = E \cup {<<-d[2], d[1]>> : d \in E}
      BY <1>1 DEF axesOf
    <2>2. QED BY <2>1 DEF turned
  <1>3. \A d \in A : d \in Point
    <2>1. \A e \in E : e \in Point
      BY DEF Point, diff
    <2>2. \A e \in Point : turned(e) \in Point
      BY DEF Point, turned
    <2> HIDE DEF E
    <2>3. QED BY <2>1, <2>2
  <1>4. \A d \in A : (Max(shadow(P, d)) < Min(shadow(Q, d)) \/ Max(shadow(Q, d)) < Min(shadow(P, d)))
                       <=> Apart(p1, p2, p3, p4, d)
    <2> HIDE DEF A
    <2>1. QED BY <1>3, ShadowsApart DEF Apart
  <1> HIDE DEF A, P, Q
  <1>5. Separated(P, Q) <=> \E d \in A : Apart(p1, p2, p3, p4, d)
    BY <1>2, <1>4, SeparatedIs
  <1>6. QED BY <1>5 DEF A, P, Q

(* Which of two segments is first does not matter. *)
LEMMA Symmetric ==
  ASSUME NEW p1 \in Point, NEW p2 \in Point, NEW p3 \in Point, NEW p4 \in Point
  PROVE  /\ segmentsIntersect(p1, p2, p3, p4) <=> segmentsIntersect(p3, p4, p1, p2)
         /\ \A d : Apart(p1, p2, p3, p4, d) <=> Apart(p3, p4, p1, p2, d)
  BY Zenon DEF segmentsIntersect, Apart

(***************************************************************************)
(* geometry.ts, segmentsIntersect: the orientation test with its four      *)
(* touching cases answers, for every two segments of which at most one is  *)
(* a point, just when no axis separates the two.                           *)
(***************************************************************************)
THEOREM SegmentTestExact ==
  ASSUME NEW p1 \in Point, NEW p2 \in Point, NEW p3 \in Point, NEW p4 \in Point,
         p1 # p2 \/ p3 # p4
  PROVE  segmentsIntersect(p1, p2, p3, p4) <=> ~Separated(<<p1, p2>>, <<p3, p4>>)
  <1> DEFINE E == {diff(p1, p2), diff(p2, p1), diff(p3, p4), diff(p4, p3)}
             A == E \cup {turned(e) : e \in E}
  <1>1. Separated(<<p1, p2>>, <<p3, p4>>) <=> \E d \in A : Apart(p1, p2, p3, p4, d)
    BY SeparatedPairs
  <1>2. \A d \in A : d \in Point
    <2>1. \A e \in E : e \in Point
      BY DEF Point, diff
    <2>2. \A e \in Point : turned(e) \in Point
      BY DEF Point, turned
    <2> HIDE DEF E
    <2>3. QED BY <2>1, <2>2
  <1>3. /\ diff(p4, p3) \in A /\ turned(diff(p4, p3)) \in A
        /\ diff(p2, p1) \in A /\ turned(diff(p2, p1)) \in A
    OBVIOUS
  <1> HIDE DEF A
  <1>4. ASSUME segmentsIntersect(p1, p2, p3, p4) PROVE ~Separated(<<p1, p2>>, <<p3, p4>>)
    BY <1>1, <1>2, <1>4, MeetingNotApart
  <1>5. ASSUME ~segmentsIntersect(p1, p2, p3, p4) PROVE \E d \in A : Apart(p1, p2, p3, p4, d)
    <2>1. /\ side(p3, p4, p1) = side(p3, p4, p2) \/ side(p1, p2, p3) = side(p1, p2, p4)
      BY <1>5 DEF segmentsIntersect
    <2>2. CASE side(p3, p4, p1) = side(p3, p4, p2) /\ side(p3, p4, p1) # 0
      BY <1>3, <2>2, SameSide
    <2>3. CASE side(p1, p2, p3) = side(p1, p2, p4) /\ side(p1, p2, p3) # 0
      <3>1. Apart(p3, p4, p1, p2, turned(diff(p2, p1)))
        BY <2>3, SameSide
      <3>2. QED BY <1>3, <3>1, Symmetric
    <2>4. CASE side(p3, p4, p1) = 0 /\ side(p3, p4, p2) = 0 /\ p3 # p4
      <3>1. orientation(p3, p4, p1) = 0 /\ orientation(p3, p4, p2) = 0
        BY <2>4, Numbers, Signs DEF side
      <3>2. QED BY <1>3, <1>5, <2>4, <3>1, LineApart
    <2>5. CASE side(p1, p2, p3) = 0 /\ side(p1, p2, p4) = 0 /\ p1 # p2
      <3>1. orientation(p1, p2, p3) = 0 /\ orientation(p1, p2, p4) = 0
        BY <2>5, Numbers, Signs DEF side
      <3>2. ~segmentsIntersect(p3, p4, p1, p2)
        BY <1>5, Symmetric
      <3>3. Apart(p3, p4, p1, p2, diff(p2, p1))
        BY <2>5, <3>1, <3>2, LineApart
      <3>4. QED BY <1>3, <3>3, Symmetric
    <2>6. \A a, p \in Point : side(a, a, p) = 0
      <3>1. SUFFICES ASSUME NEW a \in Point, NEW p \in Point PROVE orientation(a, a, p) = 0
        BY DEF side, sign
      <3>2. a[1] \in Int /\ a[2] \in Int /\ p[1] \in Int /\ p[2] \in Int
        BY DEF Point
      <3>3. QED BY <3>2 DEF orientation
    <2>7. CASE side(p3, p4, p1) = 0 /\ side(p3, p4, p2) = 0 /\ p3 = p4
      <3>1. p1 # p2 /\ side(p1, p2, p3) = side(p1, p2, p4)
        BY <2>7
      <3>2. QED BY <2>3, <2>5, <3>1
    <2>8. CASE side(p1, p2, p3) = 0 /\ side(p1, p2, p4) = 0 /\ p1 = p2
      <3>1. p3 # p4 /\ side(p3, p4, p1) = side(p3, p4, p2)
        BY <2>8
      <3>2. QED BY <2>2, <2>4, <3>1
    <2>9. QED BY <2>1, <2>2, <2>3, <2>4, <2>5, <2>7, <2>8
  <1>6. QED BY <1>1, <1>4, <1>5

-----------------------------------------------------------------------------
(* Rings. *)

(* p lies on the segment from a to b. *)
OnSegment(p, a, b) == orientation(a, b, p) = 0 /\ withinBoundingBox(a, b, p)

(* An end of a segment lies on it. *)
LEMMA EndsLieOn ==
  ASSUME NEW a \in Point, NEW b \in Point
  PROVE  OnSegment(a, a, b) /\ OnSegment(b, a, b)
  <1>1. a[1] \in Int /\ a[2] \in Int /\ b[1] \in Int /\ b[2] \in Int
    BY DEF Point
  <1>2. orientation(a, b, a) = 0 /\ orientation(a, b, b) = 0
    BY <1>1 DEF orientation
  <1>3. withinBoundingBox(a, b, a) /\ withinBoundingBox(a, b, b)
    BY <1>1, BetweenTwo DEF withinBoundingBox, Mid
  <1>4. QED BY <1>2, <1>3 DEF OnSegment

(* A point is apart from a segment unless it lies on it. *)
LEMMA PointApart ==
  ASSUME NEW p \in Point, NEW a \in Point, NEW b \in Point, a # b
  PROVE  Separated(<<p>>, <<a, b>>) <=> ~OnSegment(p, a, b)
  <1>1. edgesOf(<<p>>) = {diff(p, p)} /\ \A d : shadow(<<p>>, d) = {along(p, d)}
    <2> DEFINE S == <<p>>
    <2>1. Len(S) = 1 /\ S[1] = p /\ (1 % 1) + 1 = 1 /\ 1..1 = {1}
      OBVIOUS
    <2> HIDE DEF S
    <2>2. edgesOf(S) = {<<S[i][1] - S[(i % 1) + 1][1], S[i][2] - S[(i % 1) + 1][2]>> : i \in {1}}
      BY <2>1 DEF edgesOf
    <2>3. edgesOf(S) = {diff(p, p)}
      BY <2>1, <2>2 DEF diff
    <2>4. ASSUME NEW d PROVE shadow(S, d) = {along(p, d)}
      <3>1. shadow(S, d) = {S[i][1] * d[1] + S[i][2] * d[2] : i \in {1}}
        BY <2>1 DEF shadow
      <3>2. QED BY <2>1, <3>1 DEF along
    <2>5. QED BY <2>3, <2>4 DEF S
  <1>2. edgesOf(<<p, p>>) = {diff(p, p)} /\ \A d : shadow(<<p, p>>, d) = {along(p, d)}
    BY OfSegment
  <1>3. axesOf(<<p>>, <<a, b>>) = axesOf(<<p, p>>, <<a, b>>)
    BY <1>1, <1>2, Zenon DEF axesOf
  <1>4. \A d : shadow(<<p>>, d) = shadow(<<p, p>>, d)
    BY <1>1, <1>2
  <1>5. Separated(<<p>>, <<a, b>>) <=> Separated(<<p, p>>, <<a, b>>)
    <2> DEFINE P == <<p>>
               Q == <<p, p>>
               R == <<a, b>>
    <2>1. axesOf(P, R) = axesOf(Q, R) /\ \A d : shadow(P, d) = shadow(Q, d)
      BY <1>3, <1>4
    <2> HIDE DEF P, Q, R
    <2>2. Separated(P, R) <=> Separated(Q, R)
      BY <2>1, SeparatedIs
    <2>3. QED BY <2>2 DEF P, Q, R
  <1>6. Separated(<<p, p>>, <<a, b>>) <=> ~segmentsIntersect(p, p, a, b)
    BY SegmentTestExact
  <1>7. side(a, b, p) = 0 <=> orientation(a, b, p) = 0
    BY Numbers, Signs DEF side
  <1>8. ASSUME OnSegment(p, a, b) PROVE segmentsIntersect(p, p, a, b)
    BY <1>7, <1>8 DEF OnSegment, segmentsIntersect
  <1>9. ASSUME segmentsIntersect(p, p, a, b) PROVE OnSegment(p, a, b)
    <2>1. ASSUME NEW q \in Point, withinBoundingBox(p, p, q) PROVE q = p
      <3>1. q[1] \in between(p[1], p[1]) /\ q[2] \in between(p[2], p[2])
        BY <2>1 DEF withinBoundingBox
      <3>2. p[1] \in Int /\ p[2] \in Int /\ q[1] \in Int /\ q[2] \in Int
        BY DEF Point
      <3>3. Mid(q[1], p[1], p[1]) /\ Mid(q[2], p[2], p[2])
        BY <3>1, <3>2, BetweenTwo
      <3>4. q[1] = p[1] /\ q[2] = p[2]
        BY <3>2, <3>3 DEF Mid
      <3>5. QED BY <3>4 DEF Point
    <2>2. \/ side(a, b, p) = 0 /\ withinBoundingBox(a, b, p)
          \/ withinBoundingBox(p, p, a) \/ withinBoundingBox(p, p, b)
      BY <1>9 DEF segmentsIntersect
    <2>3. OnSegment(p, a, b) \/ a = p \/ b = p
      BY <1>7, <2>1, <2>2 DEF OnSegment
    <2>4. QED BY <2>3, EndsLieOn
  <1>10. QED BY <1>5, <1>6, <1>8, <1>9

(* Off the ends, to lie on a segment is to lie strictly on it. *)
LEMMA StrictlyOn ==
  ASSUME NEW p \in Point, NEW a \in Point, NEW b \in Point, a # b, p # a, p # b
  PROVE  pointStrictlyOnSegment(p, a, b) <=> OnSegment(p, a, b)
  <1>1. /\ a[1] \in Int /\ a[2] \in Int /\ b[1] \in Int /\ b[2] \in Int
        /\ p[1] \in Int /\ p[2] \in Int
    BY DEF Point
  <1>2. ASSUME OnSegment(p, a, b)
        PROVE  \/ p[1] \notin {a[1], b[1]} /\ a[1] # b[1]
               \/ p[2] \notin {a[2], b[2]} /\ a[2] # b[2]
    <2> DEFINE u1 == b[1] - a[1]
               u2 == b[2] - a[2]
               v1 == p[1] - a[1]
               v2 == p[2] - a[2]
    <2>1. u1 \in Int /\ u2 \in Int /\ v1 \in Int /\ v2 \in Int
      BY <1>1
    <2>2. u1 * v2 - u2 * v1 = 0
      BY <1>2 DEF OnSegment, orientation
    <2>3. (v1 # 0 \/ v2 # 0) /\ (v1 # u1 \/ v2 # u2) /\ (u1 # 0 \/ u2 # 0)
      <3>1. (p[1] # a[1] \/ p[2] # a[2]) /\ (p[1] # b[1] \/ p[2] # b[2]) /\ (a[1] # b[1] \/ a[2] # b[2])
        BY DEF Point
      <3>2. QED BY <1>1, <3>1
    <2>4. Mid(p[1], a[1], b[1]) /\ Mid(p[2], a[2], b[2])
      BY <1>1, <1>2, BetweenTwo DEF OnSegment, withinBoundingBox
    <2>5. (u1 = 0 => v1 = 0) /\ (u2 = 0 => v2 = 0)
      BY <1>1, <2>4 DEF Mid
    <2>6. /\ p[1] \notin {a[1], b[1]} /\ a[1] # b[1] <=> v1 # 0 /\ v1 # u1 /\ u1 # 0
          /\ p[2] \notin {a[2], b[2]} /\ a[2] # b[2] <=> v2 # 0 /\ v2 # u2 /\ u2 # 0
      BY <1>1
    <2> HIDE DEF u1, u2, v1, v2
    <2>7. \A x, y \in Int : x # 0 /\ x * y = 0 => y = 0
      BY ProductSigns
    <2>8. CASE u1 # 0
      <3>1. v1 # 0
        <4>1. SUFFICES ASSUME v1 = 0 PROVE FALSE
          OBVIOUS
        <4>2. u2 * v1 = 0 /\ u1 * v2 \in Int
          BY <2>1, <4>1
        <4>3. u1 * v2 = 0
          BY <2>2, <4>2
        <4>4. QED BY <2>1, <2>3, <2>7, <2>8, <4>1, <4>3
      <3>2. v1 # u1
        <4>1. SUFFICES ASSUME v1 = u1 PROVE FALSE
          OBVIOUS
        <4>2. u1 * (v2 - u2) = u1 * v2 - u2 * v1
          BY <2>1, <4>1
        <4>3. v2 - u2 \in Int /\ u1 * (v2 - u2) = 0
          BY <2>1, <2>2, <4>2
        <4>4. v2 - u2 = 0
          BY <2>1, <2>7, <2>8, <4>3
        <4>5. QED BY <2>1, <2>3, <4>1, <4>4
      <3>3. QED BY <2>6, <2>8, <3>1, <3>2
    <2>9. CASE u1 = 0
      BY <2>3, <2>5, <2>6, <2>9
    <2>10. QED BY <2>8, <2>9
  <1>3. QED BY <1>2 DEF pointStrictlyOnSegment, OnSegment

(* Segments with a common end meet. *)
LEMMA CommonEndMeets ==
  ASSUME NEW a1 \in Point, NEW a2 \in Point, NEW b1 \in Point, NEW b2 \in Point,
         {a1, a2} \cap {b1, b2} # {}
  PROVE  segmentsIntersect(a1, a2, b1, b2)
  <1>1. a1 = b1 \/ a1 = b2 \/ a2 = b1 \/ a2 = b2
    OBVIOUS
  <1>2. \A p \in Point : OnSegment(p, b1, b2) => side(b1, b2, p) = 0 /\ withinBoundingBox(b1, b2, p)
    BY Numbers, Signs DEF side, OnSegment
  <1>3. OnSegment(a1, b1, b2) \/ OnSegment(a2, b1, b2)
    BY <1>1, EndsLieOn
  <1>4. QED BY <1>2, <1>3 DEF segmentsIntersect

-----------------------------------------------------------------------------
(* Edges that have an end in common. *)

sharedEnds(a1, a2, b1, b2) == {a1, a2} \cap {b1, b2}

Folded(a1, a2, b1, b2) ==
  LET S == sharedEnds(a1, a2, b1, b2)
  IN  collinearOverlapBeyondPoint(a1, a2, b1, b2, CHOOSE s \in S : s = a1 \/ a1 \notin S)

(* The edges have one end in common, and the other end of the first is off  *)
(* the second.                                                              *)
Cornered(a1, a2, b1, b2) ==
  /\ \E p \in {a1, a2} : {a1, a2} \cap {b1, b2} = {p}
  /\ \A p \in {a1, a2} \ {b1, b2} : Separated(<<p>>, <<b1, b2>>)

(* The test of two edges with a common end: they overlap beyond it unless   *)
(* each leaves it along a line of its own or the other way.                 *)
LEMMA CornerPair ==
  ASSUME NEW a1 \in Point, NEW a2 \in Point, NEW b1 \in Point, NEW b2 \in Point,
         a1 # a2, b1 # b2, sharedEnds(a1, a2, b1, b2) # {}
  PROVE  ~Folded(a1, a2, b1, b2) <=> Cornered(a1, a2, b1, b2) /\ Cornered(b1, b2, a1, a2)
  <1> DEFINE S == sharedEnds(a1, a2, b1, b2)
             s == CHOOSE t \in S : t = a1 \/ a1 \notin S
             otherA == IF a1 = s THEN a2 ELSE a1
             otherB == IF b1 = s THEN b2 ELSE b1
  <1>1. S = {a1, a2} \cap {b1, b2} /\ S # {}
    BY DEF sharedEnds
  <1>2. s \in S /\ (s = a1 \/ a1 \notin S)
    <2>1. \E t \in S : t = a1 \/ a1 \notin S
      BY <1>1
    <2> HIDE DEF S
    <2>2. QED BY <2>1
  <1>3. Folded(a1, a2, b1, b2) <=> \/ otherA = otherB
                                   \/ pointStrictlyOnSegment(otherA, b1, b2)
                                   \/ pointStrictlyOnSegment(otherB, a1, a2)
    BY Zenon DEF Folded, collinearOverlapBeyondPoint
  <1> HIDE DEF S, s
  <1>4. /\ s \in {a1, a2} /\ s \in {b1, b2}
        /\ {a1, a2} = {s, otherA} /\ otherA # s /\ {b1, b2} = {s, otherB} /\ otherB # s
        /\ otherA \in Point /\ otherB \in Point
    BY <1>1, <1>2
  <1> HIDE DEF otherA, otherB
  <1>5. CASE otherA = otherB
    <2>1. {a1, a2} \cap {b1, b2} = {s, otherA}
      BY <1>4, <1>5
    <2>2. ~\E p \in {a1, a2} : {a1, a2} \cap {b1, b2} = {p}
      BY <1>4, <2>1
    <2>3. QED BY <1>3, <1>5, <2>2 DEF Cornered
  <1>6. CASE otherA # otherB
    <2>1. /\ {a1, a2} \cap {b1, b2} = {s} /\ {b1, b2} \cap {a1, a2} = {s}
          /\ {a1, a2} \ {b1, b2} = {otherA} /\ {b1, b2} \ {a1, a2} = {otherB}
      BY <1>4, <1>6
    <2>2. /\ otherA # b1 /\ otherA # b2 /\ otherB # a1 /\ otherB # a2
      BY <2>1
    <2>3. /\ pointStrictlyOnSegment(otherA, b1, b2) <=> ~Separated(<<otherA>>, <<b1, b2>>)
          /\ pointStrictlyOnSegment(otherB, a1, a2) <=> ~Separated(<<otherB>>, <<a1, a2>>)
      BY <1>4, <2>2, StrictlyOn, PointApart
    <2>4. /\ Cornered(a1, a2, b1, b2) <=> Separated(<<otherA>>, <<b1, b2>>)
          /\ Cornered(b1, b2, a1, a2) <=> Separated(<<otherB>>, <<a1, a2>>)
      BY <1>4, <2>1 DEF Cornered
    <2>5. QED BY <1>3, <1>6, <2>3, <2>4
  <1>7. QED BY <1>5, <1>6

(* An edge and the way back along it. *)
LEMMA FoldBack ==
  ASSUME NEW x, NEW y
  PROVE  Folded(x, y, y, x)
  <1> DEFINE S == sharedEnds(x, y, y, x)
             s == CHOOSE t \in S : t = x \/ x \notin S
  <1>1. s = x
    <2>1. S = {x, y}
      BY DEF sharedEnds
    <2>2. \E t \in S : t = x \/ x \notin S
      BY <2>1
    <2> HIDE DEF S
    <2>3. s \in S /\ (s = x \/ x \notin S)
      BY <2>2
    <2>4. QED BY <2>1, <2>3
  <1>2. Folded(x, y, y, x) <=> collinearOverlapBeyondPoint(x, y, y, x, s)
    BY Zenon DEF Folded
  <1> HIDE DEF s
  <1>3. collinearOverlapBeyondPoint(x, y, y, x, x)
    BY DEF collinearOverlapBeyondPoint
  <1>4. QED BY <1>1, <1>2, <1>3

-----------------------------------------------------------------------------
(* The test of a ring. *)

Closed(ring) == ring \in Seq(Point) /\ Len(ring) >= 4 /\ ring[1] = ring[Len(ring)]

edgeCount(ring) == Len(ring) - 1

edgeAt(ring, k) == <<ring[k], ring[k + 1]>>

(* The edges i and j, i before j, are in a row around the ring. *)
Neighbours(ring, i, j) == j = i + 1 \/ (i = 1 /\ j = edgeCount(ring))

(* What the code refuses of two edges. *)
Clash(ring, i, j) ==
  /\ segmentsIntersect(ring[i], ring[i + 1], ring[j], ring[j + 1])
  /\ \/ ~Neighbours(ring, i, j)
     \/ sharedEnds(ring[i], ring[i + 1], ring[j], ring[j + 1]) = {}
     \/ Folded(ring[i], ring[i + 1], ring[j], ring[j + 1])

(* What is required of two edges of a simple ring. *)
inARow(ring, i, j) == j = (i % edgeCount(ring)) + 1 \/ i = (j % edgeCount(ring)) + 1

Fits(ring, i, j) ==
  IF inARow(ring, i, j) THEN Cornered(ring[i], ring[i + 1], ring[j], ring[j + 1])
  ELSE Separated(edgeAt(ring, i), edgeAt(ring, j))

(* The numbers of the edges around a ring. *)
LEMMA Around ==
  ASSUME NEW ring, Closed(ring)
  PROVE  /\ edgeCount(ring) \in Nat /\ edgeCount(ring) >= 3
         /\ \A k \in 1..edgeCount(ring) :
              /\ ring[k] \in Point /\ ring[k + 1] \in Point
              /\ k < edgeCount(ring) => k % edgeCount(ring) = k
              /\ k = edgeCount(ring) => k % edgeCount(ring) = 0
              /\ ring[(k % edgeCount(ring)) + 1] = ring[k + 1]
  <1> DEFINE n == edgeCount(ring)
  <1>1. n \in Nat /\ n >= 3 /\ Len(ring) = n + 1 /\ ring[1] = ring[n + 1]
    BY DEF Closed, edgeCount
  <1> HIDE DEF n
  <1>2. \A k \in 1..n : ring[k] \in Point /\ ring[k + 1] \in Point
    BY <1>1 DEF Closed
  <1>3. \A k \in 1..n : (k < n => k % n = k) /\ (k = n => k % n = 0)
    BY <1>1
  <1>4. \A k \in 1..n : ring[(k % n) + 1] = ring[k + 1]
    <2>1. SUFFICES ASSUME NEW k \in 1..n PROVE ring[(k % n) + 1] = ring[k + 1]
      OBVIOUS
    <2>2. CASE k < n
      BY <1>3, <2>2
    <2>3. CASE k = n
      <3>1. (k % n) + 1 = 1
        BY <1>3, <2>3
      <3>2. QED BY <1>1, <2>3, <3>1
    <2>4. QED BY <1>1, <2>2, <2>3
  <1>5. QED BY <1>1, <1>2, <1>3, <1>4 DEF n

(* isSelfIntersecting and Simple, in these terms. *)
LEMMA RingTerms ==
  ASSUME NEW ring, Closed(ring)
  PROVE  /\ isSelfIntersecting(ring) <=>
              \E i, j \in 1..edgeCount(ring) : i < j /\ Clash(ring, i, j)
         /\ Simple(ring) <=>
              /\ \A i \in 1..edgeCount(ring) : ring[i] # ring[i + 1]
              /\ \A i, j \in 1..edgeCount(ring) : i # j => Fits(ring, i, j)
  <1> DEFINE n == edgeCount(ring)
  <1>1. n >= 3 /\ \A k \in 1..n : ring[(k % n) + 1] = ring[k + 1]
    BY Around
  <1>2. isSelfIntersecting(ring) <=> \E i, j \in 1..n : i < j /\ Clash(ring, i, j)
    <2>1. isSelfIntersecting(ring) <=> n >= 3 /\ \E i, j \in 1..n :
            /\ i < j
            /\ segmentsIntersect(ring[i], ring[(i % n) + 1], ring[j], ring[(j % n) + 1])
            /\ \/ ~Neighbours(ring, i, j)
               \/ sharedEnds(ring[i], ring[(i % n) + 1], ring[j], ring[(j % n) + 1]) = {}
               \/ Folded(ring[i], ring[(i % n) + 1], ring[j], ring[(j % n) + 1])
      BY Zenon DEF isSelfIntersecting, edgeCount, Neighbours, sharedEnds, Folded
    <2> HIDE DEF n
    <2>2. QED BY <1>1, <2>1 DEF Clash
  <1>3. Simple(ring) <=> /\ \A i \in 1..n : ring[i] # ring[i + 1]
                         /\ \A i, j \in 1..n : i # j => Fits(ring, i, j)
    BY Zenon DEF Simple, Fits, Cornered, inARow, edgeAt, edgeCount
  <1>4. QED BY <1>2, <1>3

(* The two ways to say that edges are in a row; such edges share an end. *)
LEMMA InARow ==
  ASSUME NEW ring, Closed(ring), NEW i \in 1..edgeCount(ring), NEW j \in 1..edgeCount(ring), i < j
  PROVE  /\ inARow(ring, i, j) <=> Neighbours(ring, i, j)
         /\ inARow(ring, j, i) <=> Neighbours(ring, i, j)
         /\ Neighbours(ring, i, j) =>
              sharedEnds(ring[i], ring[i + 1], ring[j], ring[j + 1]) # {}
  <1> DEFINE n == edgeCount(ring)
  <1>1. n \in Nat /\ n >= 3 /\ i \in 1..n /\ j \in 1..n
    BY Around
  <1>2. i % n = i
    BY <1>1, Around
  <1>3. (j < n => j % n = j) /\ (j = n => j % n = 0)
    BY Around
  <1>4. (j = i + 1 \/ i = (j % n) + 1) <=> (j = i + 1 \/ (i = 1 /\ j = n))
    <2> HIDE DEF n
    <2>1. QED BY <1>1, <1>3
  <1>5. ring[1] = ring[n + 1]
    BY DEF Closed, edgeCount
  <1>6. Neighbours(ring, i, j) => sharedEnds(ring[i], ring[i + 1], ring[j], ring[j + 1]) # {}
    BY <1>5 DEF Neighbours, sharedEnds
  <1>7. QED BY <1>2, <1>4, <1>6 DEF inARow, Neighbours

(* A ring without clashes has no edge that is a point: its neighbours would *)
(* meet in that point or, in a triangle, be the same edge there and back.   *)
LEMMA NoPointEdge ==
  ASSUME NEW ring, Closed(ring),
         \A i, j \in 1..edgeCount(ring) : i < j => ~Clash(ring, i, j),
         NEW k \in 1..edgeCount(ring)
  PROVE  ring[k] # ring[k + 1]
  <1> DEFINE n == edgeCount(ring)
             R(i) == ring[i]
  <1>1. /\ n \in Nat /\ n >= 3 /\ ring[1] = ring[n + 1]
        /\ \A i \in 1..n : ring[i] \in Point /\ ring[i + 1] \in Point
    BY Around DEF Closed, edgeCount
  <1>2. SUFFICES ASSUME ring[k] = ring[k + 1] PROVE FALSE
    OBVIOUS
  <1>3. ASSUME NEW i \in 1..n, NEW j \in 1..n, i < j,
               sharedEnds(ring[i], ring[i + 1], ring[j], ring[j + 1]) # {},
               Neighbours(ring, i, j) => ring[i] = ring[j + 1] /\ ring[i + 1] = ring[j]
        PROVE  FALSE
    <2>1. segmentsIntersect(ring[i], ring[i + 1], ring[j], ring[j + 1])
      BY <1>1, <1>3, CommonEndMeets DEF sharedEnds
    <2>2. Neighbours(ring, i, j) => Folded(ring[i], ring[i + 1], ring[j], ring[j + 1])
      BY <1>3, FoldBack
    <2>3. QED BY <1>3, <2>1, <2>2 DEF Clash
  <1>4. CASE k = 1
    <2>1. n \in 1..n /\ 2 \in 1..n /\ 2 < n
      BY <1>1
    <2>2. ring[2] = ring[n + 1]
      BY <1>1, <1>2, <1>4
    <2>3. sharedEnds(ring[2], ring[2 + 1], ring[n], ring[n + 1]) # {}
      BY <2>2 DEF sharedEnds
    <2>4. Neighbours(ring, 2, n) => n = 3
      BY <1>1 DEF Neighbours
    <2>5. Neighbours(ring, 2, n) => ring[2] = ring[n + 1] /\ ring[2 + 1] = ring[n]
      BY <2>2, <2>4
    <2>6. QED BY <1>3, <2>1, <2>3, <2>5
  <1>5. CASE k = n
    <2>1. 1 \in 1..n /\ n - 1 \in 1..n /\ 1 < n - 1
      BY <1>1
    <2>2. ring[1] = ring[n] /\ n = (n - 1) + 1
      BY <1>1, <1>2, <1>5
    <2>3. sharedEnds(ring[1], ring[1 + 1], ring[n - 1], ring[(n - 1) + 1]) # {}
      BY <2>2 DEF sharedEnds
    <2>4. Neighbours(ring, 1, n - 1) => n = 3
      BY <1>1 DEF Neighbours
    <2>5. n = 3 => ring[1 + 1] = ring[n - 1]
      OBVIOUS
    <2>6. Neighbours(ring, 1, n - 1) => ring[1] = ring[(n - 1) + 1] /\ ring[1 + 1] = ring[n - 1]
      BY <2>2, <2>4, <2>5
    <2>7. QED BY <1>3, <2>1, <2>3, <2>6
  <1>6. CASE k > 1 /\ k < n
    <2>1. k - 1 \in 1..n /\ k + 1 \in 1..n /\ k - 1 < k + 1 /\ k = (k - 1) + 1
      BY <1>1, <1>6
    <2>2. sharedEnds(ring[k - 1], ring[(k - 1) + 1], ring[k + 1], ring[(k + 1) + 1]) # {}
      BY <1>2, <2>1 DEF sharedEnds
    <2>3. Neighbours(ring, k - 1, k + 1) => k - 1 = 1 /\ k + 1 = n
      BY <1>1, <1>6 DEF Neighbours
    <2>4. (k - 1 = 1 /\ k + 1 = n) => ring[k - 1] = ring[(k + 1) + 1]
      BY <1>1
    <2>5. ring[(k - 1) + 1] = ring[k + 1]
      BY <1>2, <2>1
    <2>6. QED BY <1>3, <2>1, <2>2, <2>3, <2>4, <2>5
  <1>7. QED BY <1>1, <1>4, <1>5, <1>6

(* Two edges that do not clash fit, both ways. *)
LEMMA FitsIs ==
  ASSUME NEW ring, Closed(ring), NEW i \in 1..edgeCount(ring), NEW j \in 1..edgeCount(ring), i < j,
         ring[i] # ring[i + 1], ring[j] # ring[j + 1]
  PROVE  ~Clash(ring, i, j) <=> Fits(ring, i, j) /\ Fits(ring, j, i)
  <1> DEFINE a1 == ring[i]
             a2 == ring[i + 1]
             b1 == ring[j]
             b2 == ring[j + 1]
  <1>1. a1 \in Point /\ a2 \in Point /\ b1 \in Point /\ b2 \in Point /\ a1 # a2 /\ b1 # b2
    BY Around
  <1>2. /\ inARow(ring, i, j) <=> Neighbours(ring, i, j)
        /\ inARow(ring, j, i) <=> Neighbours(ring, i, j)
        /\ Neighbours(ring, i, j) => sharedEnds(a1, a2, b1, b2) # {}
    BY InARow
  <1>3. Clash(ring, i, j) <=> /\ segmentsIntersect(a1, a2, b1, b2)
                              /\ \/ ~Neighbours(ring, i, j)
                                 \/ sharedEnds(a1, a2, b1, b2) = {}
                                 \/ Folded(a1, a2, b1, b2)
    BY DEF Clash
  <1>4. /\ Fits(ring, i, j) <=> IF inARow(ring, i, j) THEN Cornered(a1, a2, b1, b2)
                                ELSE Separated(<<a1, a2>>, <<b1, b2>>)
        /\ Fits(ring, j, i) <=> IF inARow(ring, j, i) THEN Cornered(b1, b2, a1, a2)
                                ELSE Separated(<<b1, b2>>, <<a1, a2>>)
    BY DEF Fits, edgeAt
  <1> HIDE DEF a1, a2, b1, b2
  <1>5. CASE Neighbours(ring, i, j)
    <2>1. segmentsIntersect(a1, a2, b1, b2)
      BY <1>1, <1>2, <1>5, CommonEndMeets DEF sharedEnds
    <2>2. ~Folded(a1, a2, b1, b2) <=> Cornered(a1, a2, b1, b2) /\ Cornered(b1, b2, a1, a2)
      BY <1>1, <1>2, <1>5, CornerPair
    <2>3. QED BY <1>2, <1>3, <1>4, <1>5, <2>1, <2>2
  <1>6. CASE ~Neighbours(ring, i, j)
    <2>1. segmentsIntersect(a1, a2, b1, b2) <=> ~Separated(<<a1, a2>>, <<b1, b2>>)
      BY <1>1, SegmentTestExact
    <2>2. segmentsIntersect(b1, b2, a1, a2) <=> ~Separated(<<b1, b2>>, <<a1, a2>>)
      BY <1>1, SegmentTestExact
    <2>3. segmentsIntersect(a1, a2, b1, b2) <=> segmentsIntersect(b1, b2, a1, a2)
      BY <1>1, Symmetric
    <2>4. QED BY <1>2, <1>3, <1>4, <1>6, <2>1, <2>2, <2>3
  <1>7. QED BY <1>5, <1>6

(***************************************************************************)
(* P9, geofence-validation.ts, isSelfIntersecting: of a closed ring of any *)
(* number of corners the code reports a self-intersection just when the    *)
(* ring is not simple: an edge is a point, neighbours meet besides their   *)
(* common corner, or other edges meet at all.                              *)
(***************************************************************************)
THEOREM RingTestExact ==
  ASSUME NEW ring, Closed(ring)
  PROVE  isSelfIntersecting(ring) <=> ~Simple(ring)
  <1> DEFINE n == edgeCount(ring)
  <1>1. /\ isSelfIntersecting(ring) <=> \E i, j \in 1..n : i < j /\ Clash(ring, i, j)
        /\ Simple(ring) <=> /\ \A i \in 1..n : ring[i] # ring[i + 1]
                            /\ \A i, j \in 1..n : i # j => Fits(ring, i, j)
    BY RingTerms
  <1>2. n \in Nat
    BY Around
  <1>3. ASSUME Simple(ring), NEW i \in 1..n, NEW j \in 1..n, i < j PROVE ~Clash(ring, i, j)
    <2>1. ring[i] # ring[i + 1] /\ ring[j] # ring[j + 1] /\ Fits(ring, i, j) /\ Fits(ring, j, i)
      BY <1>1, <1>2, <1>3
    <2>2. QED BY <1>3, <2>1, FitsIs
  <1>4. ASSUME ~isSelfIntersecting(ring) PROVE Simple(ring)
    <2>1. \A i, j \in 1..n : i < j => ~Clash(ring, i, j)
      BY <1>1, <1>4
    <2>2. \A i \in 1..n : ring[i] # ring[i + 1]
      BY <2>1, NoPointEdge
    <2>3. ASSUME NEW i \in 1..n, NEW j \in 1..n, i < j PROVE Fits(ring, i, j) /\ Fits(ring, j, i)
      BY <2>1, <2>2, <2>3, FitsIs
    <2>4. \A i, j \in 1..n : i # j => i < j \/ j < i
      BY <1>2
    <2>5. \A i, j \in 1..n : i # j => Fits(ring, i, j)
      BY <2>3, <2>4
    <2>6. QED BY <1>1, <2>2, <2>5
  <1>5. QED BY <1>1, <1>3, <1>4

-----------------------------------------------------------------------------
(* The zones. *)

(* Only a definition that was accepted writes the table. *)
LEMMA ZonesAccepted == Spec => [](zones \subseteq acceptedZones)
  <1>1. Init => zones \subseteq acceptedZones
    BY DEF Init
  <1>2. ASSUME NEW z \in Zones, DefineZone(z) PROVE zones' = zones \/ zones' = zones \cup {z}
    BY <1>2 DEF DefineZone
  <1>3. ASSUME NEW z \in Zones, DefineZone(z) PROVE z \in acceptedZones
    BY <1>3 DEF DefineZone
  <1>4. ASSUME zones \subseteq acceptedZones, [Next]_vars PROVE (zones \subseteq acceptedZones)'
    <2>1. CASE \E z \in Zones : DefineZone(z)
      BY <1>2, <1>3, <1>4, <2>1 DEF acceptedZones
    <2>2. CASE \E id \in Ids : \/ \E n \in Names, s \in STATUSES, p \in Plans : CreateMission(id, n, s, p)
                               \/ \E t \in Catalogue, params \in Params : Instantiate(id, t, params)
      <3>1. UNCHANGED zones
        BY <2>2 DEF CreateMission, Instantiate
      <3>2. QED BY <1>4, <3>1 DEF acceptedZones
    <2>3. CASE \E k \in Calls, id \in Ids :
                 \/ \E n \in Names \cup {Unset}, s \in STATUSES \cup {Unset}, p \in Plans \cup {<<>>} :
                      UpdateFind(k, id, n, s, p)
                 \/ ExportLoad(k, id)
      <3>1. UNCHANGED zones
        BY <2>3 DEF UpdateFind, ExportLoad
      <3>2. QED BY <1>4, <3>1 DEF acceptedZones
    <2>4. CASE Resume
      <3>1. UNCHANGED zones
        BY <2>4 DEF Resume, UpdateNumber, UpdateSave, ExportSegment, ExportEnd, Abort
      <3>2. QED BY <1>4, <3>1 DEF acceptedZones
    <2>5. CASE UNCHANGED vars
      BY <1>4, <2>5 DEF vars, acceptedZones
    <2>6. QED BY <1>4, <2>1, <2>2, <2>3, <2>4, <2>5 DEF Next, Begin
  <1>5. QED BY <1>1, <1>4, PTL DEF Spec

(***************************************************************************)
(* P9, GeofenceService.defineGeofence: for rings of any number of corners, *)
(* a zone in the table has a simple boundary, and every closed ring with   *)
(* coordinates in range and a simple boundary is accepted.                 *)
(***************************************************************************)
THEOREM BoundariesStaySimple == Spec => []BoundariesSimple
  <1>1. ASSUME NEW z \in Zones, Len(z.ring) >= 4, z.ring[1] = z.ring[Len(z.ring)]
        PROVE  isSelfIntersecting(z.ring) <=> ~Simple(z.ring)
    <2>1. z.ring \in Seq(Int \X Int)
      BY MissionsAssumption
    <2>2. Closed(z.ring)
      BY <1>1, <2>1 DEF Closed, Point
    <2>3. QED BY <2>2, RingTestExact
  <1>2. acceptedZones \subseteq Simples
    <2>1. SUFFICES ASSUME NEW z \in Zones, validRing(z.ring) PROVE Simple(z.ring)
      BY DEF acceptedZones, Simples
    <2>2. QED BY <1>1, <2>1 DEF validRing
  <1>3. ClosedRings \cap Simples \subseteq acceptedZones
    <2>1. SUFFICES ASSUME NEW z \in Zones, z \in ClosedRings, Simple(z.ring) PROVE validRing(z.ring)
      BY DEF acceptedZones, Simples, ClosedRings
    <2>2. /\ Len(z.ring) >= 4 /\ z.ring[1] = z.ring[Len(z.ring)]
          /\ \A i \in 1..Len(z.ring) : z.ring[i] \in (-180..180) \X (-90..90)
      BY <2>1 DEF ClosedRings, Last
    <2>3. QED BY <1>1, <2>1, <2>2 DEF validRing
  <1>4. zones \subseteq acceptedZones => BoundariesSimple
    BY <1>2, <1>3 DEF BoundariesSimple
  <1>5. QED BY <1>4, ZonesAccepted, PTL
=============================================================================
