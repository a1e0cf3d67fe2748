--------------------------- MODULE GatewayProofs ----------------------------
(***************************************************************************)
(* Theorems about Gateway, for every set of slots, requests and configured *)
(* upstreams, every limit and every length of window and tick.             *)
(***************************************************************************)
EXTENDS Gateway, SequenceTheorems, TLAPS

-----------------------------------------------------------------------------
(* Whole division, and the windows it cuts time into. *)

(* The quotient is the largest number of whole n in a. *)
LEMMA DivBounds ==
  ASSUME NEW a \in Nat, NEW n \in Nat \ {0}
  PROVE  /\ a \div n \in Nat
         /\ n * (a \div n) <= a /\ a < n * (a \div n) + n
  OBVIOUS

(* It does not decrease with the dividend. *)
LEMMA DivMonotone ==
  ASSUME NEW a \in Nat, NEW b \in Nat, NEW n \in Nat \ {0}, a <= b
  PROVE  a \div n <= b \div n
  <1> DEFINE p == a \div n
             q == b \div n
  <1>1. p \in Nat /\ q \in Nat /\ n * p <= a /\ b < n * q + n
    BY DivBounds
  <1> HIDE DEF p, q
  <1>2. SUFFICES ASSUME p > q PROVE FALSE
    BY <1>1 DEF p, q
  <1>3. n * p >= n * (q + 1)
    BY <1>1, <1>2
  <1>4. n * (q + 1) = n * q + n
    BY <1>1
  <1>5. QED BY <1>1, <1>3, <1>4

(* Adding m times the divisor adds m to the quotient. *)
LEMMA DivShift ==
  ASSUME NEW a \in Nat, NEW n \in Nat \ {0}, NEW m \in Nat
  PROVE  (a + m * n) \div n = (a \div n) + m
  <1> DEFINE p == a \div n
             q == (a + m * n) \div n
  <1>1. m * n \in Nat /\ a + m * n \in Nat
    OBVIOUS
  <1>2. /\ p \in Nat /\ n * p <= a /\ a < n * p + n
        /\ q \in Nat /\ n * q <= a + m * n /\ a + m * n < n * q + n
    BY <1>1, DivBounds
  <1> HIDE DEF p, q
  <1>3. n * (p + m) = n * p + m * n
    BY <1>2
  <1>4. q < p + m + 1
    <2>1. SUFFICES ASSUME q >= p + m + 1 PROVE FALSE
      BY <1>2
    <2>2. n * q >= n * (p + m + 1)
      BY <1>2, <2>1
    <2>3. n * (p + m + 1) = n * (p + m) + n
      BY <1>2
    <2>4. QED BY <1>1, <1>2, <1>3, <2>2, <2>3
  <1>5. q + 1 > p + m
    <2>1. SUFFICES ASSUME q + 1 <= p + m PROVE FALSE
      BY <1>2
    <2>2. n * (q + 1) <= n * (p + m)
      BY <1>2, <2>1
    <2>3. n * (q + 1) = n * q + n
      BY <1>2
    <2>4. QED BY <1>1, <1>2, <1>3, <2>2, <2>3
  <1>6. QED BY <1>2, <1>4, <1>5 DEF p, q

(* Rounding up leaves no remainder out. *)
LEMMA CeilDivCovers ==
  ASSUME NEW a \in Nat, NEW n \in Nat \ {0}
  PROVE  ceilDiv(a, n) \in Nat /\ a <= ceilDiv(a, n) * n
  <1>1. a + n - 1 \in Nat
    OBVIOUS
  <1>2. QED BY <1>1, DivBounds DEF ceilDiv

(* Multiplication by a natural number is monotone. *)
LEMMA TimesMonotone ==
  ASSUME NEW a \in Nat, NEW b \in Nat, NEW c \in Nat, a <= b
  PROVE  a * c <= b * c
  <1>1. b = a + (b - a) /\ b - a \in Nat
    OBVIOUS
  <1>2. b * c = a * c + (b - a) * c /\ (b - a) * c \in Nat /\ a * c \in Nat
    BY <1>1
  <1>3. QED BY <1>2

(* Later moments fall in the same window or a later one. *)
LEMMA WindowMonotone ==
  ASSUME NEW a \in Nat, NEW b \in Nat, a <= b
  PROVE  /\ windowOf(a) \in Nat /\ windowOf(b) \in Nat
         /\ windowOf(a) <= windowOf(b)
  <1>1. /\ a \div TicksPerSec \in Nat /\ b \div TicksPerSec \in Nat
        /\ a \div TicksPerSec <= b \div TicksPerSec
    BY GatewayAssumption, DivBounds, DivMonotone
  <1>2. QED BY <1>1, GatewayAssumption, DivBounds, DivMonotone DEF windowOf

(* A window's length later it is the next window. *)
LEMMA NextWindow ==
  ASSUME NEW t \in Nat
  PROVE  window \in Nat \ {0} /\ windowOf(t + window) = windowOf(t) + 1
  <1>1. window \in Nat \ {0}
    BY GatewayAssumption DEF window
  <1>2. t \div TicksPerSec \in Nat
    BY GatewayAssumption, DivBounds
  <1>3. (t + windowSec * TicksPerSec) \div TicksPerSec = (t \div TicksPerSec) + windowSec
    BY GatewayAssumption, DivShift
  <1>4. ((t \div TicksPerSec) + 1 * windowSec) \div windowSec
          = ((t \div TicksPerSec) \div windowSec) + 1
    BY ZenonT(60), <1>2, GatewayAssumption, DivShift
  <1>5. 1 * windowSec = windowSec
    BY GatewayAssumption
  <1>6. QED BY <1>1, <1>3, <1>4, <1>5 DEF windowOf, window

-----------------------------------------------------------------------------
(* The permission table. *)

(* The entries of the RBAC table. *)
LEMMA EntriesAre == Entries = 1..11
  <1>1. Len(ROUTE_PERMISSION_TABLE) = 11
    BY DEF ROUTE_PERMISSION_TABLE
  <1>2. QED BY <1>1 DEF Entries

(* A set of entries that is not empty has a first one. *)
LEMMA FirstEntry ==
  ASSUME NEW S \in SUBSET Entries, S # {}
  PROVE  \E i \in S : \A j \in S : i <= j
  <1>1. S \subseteq 1..11
    BY EntriesAre
  <1>2. ASSUME NEW n \in 1..11, n \in S, \A m \in 1..11 : m < n => m \notin S
        PROVE  \E i \in S : \A j \in S : i <= j
    BY <1>1, <1>2
  <1>3. SUFFICES ASSUME \A n \in 1..11 : n \in S => \E m \in 1..11 : m < n /\ m \in S
                 PROVE  FALSE
    BY <1>2
  <1>4. /\ 1 \notin S /\ 2 \notin S /\ 3 \notin S /\ 4 \notin S /\ 5 \notin S
        /\ 6 \notin S /\ 7 \notin S /\ 8 \notin S /\ 9 \notin S /\ 10 \notin S
        /\ 11 \notin S
    BY <1>3
  <1>5. PICK x \in S : x \in 1..11
    BY <1>1
  <1>6. QED BY <1>4, <1>5

(* The entry a request is resolved to is one whose method and path fit. *)
LEMMA MatchFits ==
  ASSUME NEW method, NEW path, matchRoute(method, path) # NoEntry
  PROVE  /\ matchRoute(method, path) \in Entries
         /\ ROUTE_PERMISSION_TABLE[matchRoute(method, path)].method = method
         /\ pathMatchesPattern(path, ROUTE_PERMISSION_TABLE[matchRoute(method, path)].path)
  <1> DEFINE entry(i) == ROUTE_PERMISSION_TABLE[i]
             exact   == {i \in Entries : entry(i).method = method /\ entry(i).path = path}
             pattern == {i \in Entries : /\ entry(i).method = method
                                         /\ pathMatchesPattern(path, entry(i).path)}
  <1>1. CASE exact # {}
    <2>1. matchRoute(method, path) \in exact
      BY <1>1 DEF matchRoute
    <2>2. QED BY <2>1 DEF pathMatchesPattern
  <1>2. CASE exact = {} /\ pattern # {}
    <2>1. \E i \in pattern : \A j \in pattern : i <= j
      BY <1>2, FirstEntry
    <2>2. matchRoute(method, path) = CHOOSE i \in pattern : \A j \in pattern : i <= j
      BY <1>2 DEF matchRoute
    <2>3. matchRoute(method, path) \in pattern
      BY <2>1, <2>2
    <2>4. QED BY <2>3
  <1>3. CASE exact = {} /\ pattern = {}
    BY <1>3 DEF matchRoute
  <1>4. QED BY <1>1, <1>2, <1>3

(* What RbacGuard lets through is granted by some entry to the role itself  *)
(* or, for super_admin, to a role below it.                                 *)
GrantedBy(q, i) ==
  /\ ROUTE_PERMISSION_TABLE[i].method = q.method
  /\ pathMatchesPattern(q.path, ROUTE_PERMISSION_TABLE[i].path)
  /\ \E r \in ROUTE_PERMISSION_TABLE[i].roles : r = q.token \/ q.token = "super_admin"

(* What the guard permits, an entry of the table grants. *)
LEMMA PermitsGrants ==
  ASSUME NEW q \in Requests, permits(q.token, q)
  PROVE  \E i \in Entries : GrantedBy(q, i)
  <1> DEFINE entry == matchRoute(q.method, q.path)
  <1>1. entry # NoEntry /\ authorize(q.token, entry)
    BY DEF permits, authorize
  <1>2. /\ entry \in Entries
        /\ ROUTE_PERMISSION_TABLE[entry].method = q.method
        /\ pathMatchesPattern(q.path, ROUTE_PERMISSION_TABLE[entry].path)
    BY <1>1, MatchFits
  <1>3. \E r \in ROUTE_PERMISSION_TABLE[entry].roles : r = q.token \/ q.token = "super_admin"
    BY <1>1 DEF authorize
  <1>4. QED BY <1>2, <1>3 DEF GrantedBy

(* The upstream is told by the first segment. *)
LEMMA UpstreamOf ==
  ASSUME NEW path \in Seq(STRING) \ {<<>>}
  PROVE  /\ path[1] = "fleet"     => resolveUpstreamId(path) = "fleet-registry"
         /\ path[1] = "missions"  => resolveUpstreamId(path) = "mission-planning"
         /\ path[1] = "telemetry" => resolveUpstreamId(path) = "telemetry-ingestion"
         /\ path[1] = "vision"    => resolveUpstreamId(path) = "vision-ai"
         /\ path[1] = "alerts"    => resolveUpstreamId(path) = "alert-notification"
  <1> DEFINE U == UPSTREAM_DEFINITIONS
             owners == {j \in 1..Len(U) : pathHasPrefix(path, U[j].prefix)}
  <1>1. /\ Len(U) = 5
        /\ U[1].prefix = <<"fleet">> /\ U[2].prefix = <<"missions">>
        /\ U[3].prefix = <<"telemetry">> /\ U[4].prefix = <<"vision">>
        /\ U[5].prefix = <<"alerts">>
        /\ U[1].id = "fleet-registry" /\ U[2].id = "mission-planning"
        /\ U[3].id = "telemetry-ingestion" /\ U[4].id = "vision-ai"
        /\ U[5].id = "alert-notification"
    BY DEF UPSTREAM_DEFINITIONS
  <1>2. ASSUME NEW name
        PROVE  pathHasPrefix(path, <<name>>) <=> path[1] = name
    <2>1. Len(path) \in Nat /\ Len(path) >= 1 /\ Len(<<name>>) = 1
      OBVIOUS
    <2>2. /\ SubSeq(path, 1, 1) \in Seq(STRING)
          /\ Len(SubSeq(path, 1, 1)) = 1
          /\ SubSeq(path, 1, 1)[1] = path[1]
      BY <2>1, SubSeqProperties
    <2>3. SubSeq(path, 1, 1) = <<path[1]>>
      <3>1. path[1] \in STRING /\ <<path[1]>> \in Seq(STRING) /\ Len(<<path[1]>>) = 1
        BY <2>1
      <3>2. \A j \in 1..Len(SubSeq(path, 1, 1)) : SubSeq(path, 1, 1)[j] = <<path[1]>>[j]
        BY <2>2
      <3>3. QED BY <2>2, <3>1, <3>2, SeqEqual
    <2>4. QED BY <2>1, <2>3 DEF pathHasPrefix
  <1>3. \A j \in 1..5 : j \in owners <=> path[1] = U[j].prefix[1]
    <2> SUFFICES ASSUME NEW j \in 1..5
                 PROVE  j \in owners <=> pathHasPrefix(path, U[j].prefix)
      <3>1. ASSUME NEW j \in 1..5
            PROVE  pathHasPrefix(path, U[j].prefix) <=> path[1] = U[j].prefix[1]
        <4> HIDE DEF U
        <4>1. PICK name : U[j].prefix = <<name>>
          BY <1>1
        <4>2. QED BY <1>2, <4>1
      <3>2. QED BY <3>1
    <2> QED BY <1>1
  <1>4. owners \subseteq 1..5
    BY <1>1
  <1>5. resolveUpstreamId(path) =
          IF owners = {} THEN NoUpstream
          ELSE U[CHOOSE i \in owners : \A j \in owners : i <= j].id
    BY DEF resolveUpstreamId
  <1>6. ASSUME NEW n \in 1..5, owners = {n}
        PROVE  resolveUpstreamId(path) = U[n].id
    <2> HIDE DEF owners, U
    <2>1. (CHOOSE i \in owners : \A j \in owners : i <= j) = n
      BY <1>6
    <2>2. QED BY <1>5, <1>6, <2>1
  <1> HIDE DEF owners, U
  <1>7. ASSUME NEW n \in 1..5, path[1] = U[n].prefix[1]
        PROVE  owners = {n}
    <2>1. n \in owners
      BY <1>3, <1>7
    <2>2. ASSUME NEW m \in owners PROVE m = n
      <3>1. m \in 1..5 /\ U[m].prefix[1] = U[n].prefix[1]
        BY <1>3, <1>4, <1>7
      <3>2. QED BY <1>1, <3>1
    <2>3. QED BY <2>1, <2>2
  <1>8. ASSUME NEW n \in 1..5, path[1] = U[n].prefix[1]
        PROVE  resolveUpstreamId(path) = U[n].id
    BY <1>6, <1>7, <1>8
  <1>9. QED BY <1>1, <1>8

(* What the three services behind a stripped prefix of their own serve. *)
LEMMA ServedShape ==
  ASSUME NEW method, NEW path
  PROVE  /\ serves("mission-planning", method, path) => method # "PATCH" /\ Len(path) # 0
         /\ serves("telemetry-ingestion", method, path) => Len(path) = 3
         /\ serves("alert-notification", method, path) =>
              Len(path) = 1 \/ (Len(path) = 2 /\ method = "GET")
  <1>1. {"mission-planning", "telemetry-ingestion", "alert-notification"} \subseteq UpstreamIds
    BY DEF UpstreamIds, UPSTREAM_DEFINITIONS
  <1>2. serves("mission-planning", method, path) => method # "PATCH"
    BY <1>1 DEF serves, ENDPOINTS
  <1>3. serves("mission-planning", method, path) => Len(path) # 0
    BY SMTT(30), <1>1 DEF serves, ENDPOINTS, pathMatchesPattern
  <1>4. serves("telemetry-ingestion", method, path) => Len(path) = 3
    BY <1>1 DEF serves, ENDPOINTS, pathMatchesPattern
  <1>5. ASSUME serves("alert-notification", method, path)
        PROVE  Len(path) = 1 \/ (Len(path) = 2 /\ method = "GET")
    <2>1. ENDPOINTS["alert-notification"] =
            {<<"POST", <<"rules">>>>, <<"GET", <<"alerts">>>>,
             <<"GET", <<"alerts", "analytics">>>>}
      BY <1>1 DEF ENDPOINTS
    <2>2. CASE method = "POST" /\ Len(path) = Len(<<"rules">>)
      BY <2>2
    <2>3. CASE method = "GET" /\ Len(path) = Len(<<"alerts">>)
      BY <2>3
    <2>4. CASE method = "GET" /\ Len(path) = Len(<<"alerts", "analytics">>)
      BY <2>4
    <2>5. QED BY <1>5, <2>1, <2>2, <2>3, <2>4 DEF serves, pathMatchesPattern
  <1>6. QED BY <1>2, <1>3, <1>4, <1>5

(***************************************************************************)
(* A request the table grants and that its upstream serves is one for the  *)
(* fleet registry or for the vision service: the others serve what they    *)
(* serve below the prefix that pathRewrite strips.                         *)
(***************************************************************************)
LEMMA ServedByTwo ==
  ASSUME NEW q \in Requests, NEW i \in Entries, GrantedBy(q, i),
         serves(resolveUpstreamId(q.path), q.method, pathRewrite(q.path))
  PROVE  resolveUpstreamId(q.path) \in {"fleet-registry", "vision-ai"}
  <1> DEFINE path == q.path
             id   == resolveUpstreamId(path)
             row(n) == ROUTE_PERMISSION_TABLE[n]
  <1>1. path \in Seq(STRING) \ {<<>>} /\ Len(path) \in Nat \ {0}
    BY GatewayAssumption
  <1>2. Len(Tail(path)) = Len(path) - 1
    BY <1>1
  <1>3. /\ q.method = row(i).method
        /\ Len(path) = Len(row(i).path)
        /\ ~isParam(row(i).path[1]) => path[1] = row(i).path[1]
    BY <1>1 DEF GrantedBy, pathMatchesPattern
  <1>4. /\ \A n \in {1, 2, 3, 4}  : row(n).path[1] = "fleet"
        /\ \A n \in {5, 6, 7}     : row(n).path[1] = "missions"
        /\ row(8).path[1] = "telemetry" /\ row(9).path[1] = "vision"
        /\ \A n \in {10, 11}      : row(n).path[1] = "alerts"
        /\ Len(row(5).path) = 1 /\ Len(row(6).path) = 1 /\ Len(row(7).path) = 2
        /\ row(7).method = "PATCH" /\ Len(row(8).path) = 2
        /\ Len(row(10).path) = 1 /\ Len(row(11).path) = 3
        /\ row(11).method = "POST"
    BY DEF ROUTE_PERMISSION_TABLE
  <1>5. \/ path[1] \in {"fleet", "vision"}
        \/ path[1] = "missions" /\ \/ Len(path) = 1
                                   \/ Len(path) = 2 /\ q.method = "PATCH"
        \/ path[1] = "telemetry" /\ Len(path) = 2
        \/ path[1] = "alerts" /\ \/ Len(path) = 1
                                 \/ Len(path) = 3 /\ q.method = "POST"
    <2> HIDE DEF row
    <2> USE EntriesAre DEF isParam
    <2>1. CASE i \in {1, 2, 3, 4} \/ i = 9
      BY <1>3, <1>4, <2>1
    <2>2. CASE i \in {5, 6, 7}
      BY <1>3, <1>4, <2>2
    <2>3. CASE i = 8
      BY <1>3, <1>4, <2>3
    <2>4. CASE i \in {10, 11}
      BY <1>3, <1>4, <2>4
    <2>5. QED BY <2>1, <2>2, <2>3, <2>4
  <1>6. CASE path[1] = "missions"
    <2>1. q.method # "PATCH" /\ Len(Tail(path)) # 0
      BY <1>1, <1>6, UpstreamOf, ServedShape DEF pathRewrite
    <2>2. QED BY <1>1, <1>2, <1>5, <1>6, <2>1
  <1>7. CASE path[1] = "telemetry"
    <2>1. Len(Tail(path)) = 3
      BY <1>1, <1>7, UpstreamOf, ServedShape DEF pathRewrite
    <2>2. Len(path) = 4
      BY <1>1, <1>2, <2>1
    <2>3. QED BY <1>5, <1>7, <2>2
  <1>8. CASE path[1] = "alerts"
    <2>1. Len(Tail(path)) = 1 \/ (Len(Tail(path)) = 2 /\ q.method = "GET")
      BY <1>1, <1>8, UpstreamOf, ServedShape DEF pathRewrite
    <2>2. Len(path) = 2 \/ (Len(path) = 3 /\ q.method = "GET")
      BY <1>1, <1>2, <2>1
    <2>3. QED BY <1>5, <1>8, <2>2
  <1>9. QED BY <1>1, <1>5, <1>6, <1>7, <1>8, UpstreamOf

-----------------------------------------------------------------------------
(* The inductive invariant of Spec. *)

(* A metered or forwarded request was permitted and is counted by a key of  *)
(* its role and of a window that has begun.                                 *)
Admitted(s) ==
  /\ req[s].query \in Requests /\ req[s].query.token \in Roles
  /\ req[s].key \in Keys /\ req[s].key[1] = req[s].query.token
  /\ req[s].key[2] <= windowOf(now)
  /\ \E i \in Entries : GrantedBy(req[s].query, i)

RequestOK(s) ==
  /\ req[s].pc \in {"metering", "proxied"} => Admitted(s)
  /\ req[s].pc \in {"metering", "proxied", "idle"} => req[s].status = 0
  /\ req[s].status = 429 =>
       windowOf(req[s].at + req[s].retryAfterSec * TicksPerSec) > req[s].key[2]
  /\ req[s].status = 200 =>
       resolveUpstreamId(req[s].query.path) \in {"fleet-registry", "vision-ai"}

(* A counter lives past the end of the window of its key, but no longer     *)
(* than a window from now; so while the window lasts the counter has not    *)
(* been dropped and is at least the number of requests granted.             *)
CounterOK(k) ==
  /\ counter[k].count > 0 =>
       /\ now < counter[k].expiresAt /\ counter[k].expiresAt <= now + window
       /\ k[2] < windowOf(counter[k].expiresAt)
  /\ windowOf(now) <= k[2] => granted[k] <= counter[k].count
  /\ granted[k] <= limit[k[1]]

IInv ==
  /\ TypeOK
  /\ \A s \in Slots : RequestOK(s)
  /\ \A k \in Keys : CounterOK(k)

(* A key of the limiter is a role and a window. *)
LEMMA KeyParts ==
  ASSUME NEW k \in Keys
  PROVE  k[1] \in Roles /\ k[2] \in Nat /\ k = <<k[1], k[2]>>
  <1>1. windowOf(MaxNow) \in Nat
    BY GatewayAssumption, WindowMonotone
  <1>2. QED BY <1>1 DEF Keys

(* No request is under way and nothing is counted at first. *)
LEMMA InitIInv == Init => IInv
  <1> SUFFICES ASSUME Init PROVE IInv
    OBVIOUS
  <1>1. TypeOK
    BY GatewayAssumption DEF Init, TypeOK, Idle, Absent, NoKey
  <1>2. \A s \in Slots : RequestOK(s)
    BY DEF Init, RequestOK, Idle
  <1>3. ASSUME NEW k \in Keys PROVE CounterOK(k)
    <2>1. counter[k].count = 0 /\ granted[k] = 0 /\ limit[k[1]] \in Nat
      BY KeyParts, GatewayAssumption DEF Init, Absent
    <2>2. QED BY <2>1 DEF CounterOK
  <1>4. QED BY <1>1, <1>2, <1>3 DEF IInv

(* The key a script leaves counts one more and outlives its window. *)
LEMMA ScriptOK ==
  ASSUME IInv, NEW k \in Keys, k[2] <= windowOf(now)
  PROVE  /\ script(k) \in [count : Nat, expiresAt : Nat]
         /\ script(k).count = counter[k].count + 1
         /\ now < script(k).expiresAt /\ script(k).expiresAt <= now + window
         /\ k[2] < windowOf(script(k).expiresAt)
  <1>1. /\ counter[k] \in [count : Nat, expiresAt : Nat]
        /\ now \in Nat /\ CounterOK(k) /\ k[2] \in Nat
    BY KeyParts, GatewayAssumption DEF IInv, TypeOK
  <1>2. /\ window \in Nat \ {0} /\ windowOf(now + window) = windowOf(now) + 1
        /\ windowOf(now) \in Nat
    BY <1>1, NextWindow, WindowMonotone
  <1>3. CASE counter[k].count = 0
    <2>1. script(k) = [count |-> 1, expiresAt |-> now + window]
      BY <1>3 DEF script
    <2>2. QED BY <1>1, <1>2, <1>3, <2>1
  <1>4. CASE counter[k].count > 0
    <2>1. script(k) = [counter[k] EXCEPT !.count = @ + 1]
      BY <1>4 DEF script
    <2>2. script(k).expiresAt = counter[k].expiresAt /\ script(k).count = counter[k].count + 1
      BY <1>1, <2>1
    <2>3. script(k) \in [count : Nat, expiresAt : Nat]
      BY <1>1, <2>1
    <2>4. QED BY <1>1, <1>4, <2>2, <2>3 DEF CounterOK
  <1>5. QED BY <1>1, <1>3, <1>4

(* A client that waits as long as it is told to comes back in a later       *)
(* window than the one it was refused in.                                   *)
LEMMA RefusalEnds ==
  ASSUME NEW t \in Nat, NEW role, NEW count \in Nat, NEW w \in Nat, NEW expires \in Nat,
         t < expires, w < windowOf(expires), limit[role] \in Nat,
         ~decideRateLimit(count, role, expires - t).allowed
  PROVE  LET d == decideRateLimit(count, role, expires - t)
         IN  d.retryAfterSec \in Nat /\ w < windowOf(t + d.retryAfterSec * TicksPerSec)
  <1> DEFINE d == decideRateLimit(count, role, expires - t)
             wait == ceilDiv(expires - t, TicksPerSec)
  <1>1. expires - t \in Nat /\ expires - t > 0
    OBVIOUS
  <1>2. wait \in Nat /\ expires - t <= wait * TicksPerSec
    BY <1>1, CeilDivCovers, GatewayAssumption
  <1>3. d.retryAfterSec = IF wait > 1 THEN wait ELSE 1
    BY <1>1 DEF decideRateLimit
  <1> HIDE DEF d, wait
  <1>4. d.retryAfterSec \in Nat /\ wait <= d.retryAfterSec
    BY <1>2, <1>3
  <1>5. wait * TicksPerSec <= d.retryAfterSec * TicksPerSec
    BY <1>2, <1>4, TimesMonotone, GatewayAssumption
  <1>6. /\ d.retryAfterSec * TicksPerSec \in Nat /\ wait * TicksPerSec \in Nat
    BY <1>2, <1>4, GatewayAssumption
  <1>7. expires <= t + d.retryAfterSec * TicksPerSec
    BY <1>1, <1>2, <1>5, <1>6
  <1>8. /\ windowOf(expires) <= windowOf(t + d.retryAfterSec * TicksPerSec)
        /\ windowOf(expires) \in Nat /\ windowOf(t + d.retryAfterSec * TicksPerSec) \in Nat
    BY <1>6, <1>7, WindowMonotone
  <1>9. QED BY <1>4, <1>8 DEF d

-----------------------------------------------------------------------------
(* The steps. *)

Pcs      == {"idle", "metering", "proxied", "done"}
Statuses == {0, 200, 401, 403, 404, 429, 500, 502}

Request == [pc : Pcs, query : Requests \cup {NoRequest}, key : Keys \cup {NoKey},
            status : Statuses, retryAfterSec : Nat, at : Nat]

(* Requests and the clock have their types. *)
LEMMA RequestType ==
  ASSUME TypeOK
  PROVE  req \in [Slots -> Request] /\ now \in Nat
  BY GatewayAssumption DEF TypeOK, Request, Pcs, Statuses

(* A step of one request while the clock stands still: the other requests   *)
(* are as they were.                                                        *)
LEMMA OneRequest ==
  ASSUME IInv, NEW s \in Slots, NEW r \in Request, req' = [req EXCEPT ![s] = r],
         UNCHANGED now, RequestOK(s)',
         sent' \in 0..MaxRequests,
         counter' \in [Keys -> [count : Nat, expiresAt : Nat]],
         granted' \in [Keys -> Nat],
         \A k \in Keys : CounterOK(k)'
  PROVE  IInv'
  <1> USE RequestType DEF IInv
  <1>1. TypeOK'
    <2>1. req' \in [Slots -> Request]
      OBVIOUS
    <2>2. QED BY <2>1 DEF TypeOK, Request, Pcs, Statuses
  <1>2. ASSUME NEW x \in Slots PROVE RequestOK(x)'
    <2>1. CASE x = s
      BY <2>1
    <2>2. CASE x # s
      <3>1. req'[x] = req[x] /\ RequestOK(x)
        BY <2>2
      <3>2. QED BY <3>1 DEF RequestOK, Admitted, windowOf
    <2>3. QED BY <2>1, <2>2
  <1>3. QED BY <1>1, <1>2 DEF IInv

(* While the clock and the counters stand still, so do the facts about them. *)
LEMMA CountersKept ==
  ASSUME IInv, UNCHANGED <<now, counter, granted>>
  PROVE  /\ counter' \in [Keys -> [count : Nat, expiresAt : Nat]]
         /\ granted' \in [Keys -> Nat]
         /\ \A k \in Keys : CounterOK(k)'
  BY DEF IInv, TypeOK, CounterOK, windowOf

(* The record an answer leaves. *)
LEMMA AnswerIs ==
  ASSUME IInv, NEW s \in Slots, NEW r \in Request,
         NEW status \in Statuses, answer(s, r, status)
  PROVE  /\ req' = [req EXCEPT ![s] = req'[s]]
         /\ req'[s] \in Request
         /\ req'[s].pc = "done" /\ req'[s].query = r.query /\ req'[s].key = r.key
         /\ req'[s].status = status /\ req'[s].retryAfterSec = r.retryAfterSec
         /\ status = 429 => req'[s].at = now
  <1> DEFINE at == IF status = 429 THEN now ELSE 0
             q == [r EXCEPT !.pc = "done", !.status = status, !.at = at]
  <1>1. req' = [req EXCEPT ![s] = q]
    BY DEF answer
  <1>2. req'[s] = q
    BY <1>1, RequestType DEF IInv
  <1>3. at \in Nat /\ "done" \in Pcs
    BY RequestType DEF IInv, Pcs
  <1>4. at = now \/ status # 429
    OBVIOUS
  <1> HIDE DEF at
  <1>5. q \in Request
    BY <1>3 DEF Request
  <1>6. /\ q.pc = "done" /\ q.query = r.query /\ q.key = r.key
        /\ q.status = status /\ q.retryAfterSec = r.retryAfterSec /\ q.at = at
    BY DEF Request
  <1> HIDE DEF q
  <1>7. req' = [req EXCEPT ![s] = req'[s]]
    BY <1>1, <1>2
  <1>8. QED BY <1>2, <1>4, <1>5, <1>6, <1>7

(* An answer that is neither a refusal by the limiter nor a success.        *)
LEMMA AnswerOK ==
  ASSUME IInv, NEW s \in Slots, NEW r \in Request,
         NEW status \in {401, 403, 404, 500, 502}, answer(s, r, status)
  PROVE  \E q \in Request : req' = [req EXCEPT ![s] = q] /\ RequestOK(s)'
  <1>1. /\ req'[s] \in Request /\ req' = [req EXCEPT ![s] = req'[s]]
        /\ req'[s].pc = "done" /\ req'[s].status = status
    BY AnswerIs DEF Statuses
  <1>2. RequestOK(s)'
    BY <1>1 DEF RequestOK
  <1>3. QED BY <1>1, <1>2

(* A request arrives. *)
LEMMA ArriveStep ==
  ASSUME IInv, NEW s \in Slots, NEW q \in Requests, Arrive(s, q)
  PROVE  IInv'
  <1> DEFINE r == [Idle EXCEPT !.query = q]
             m == [r EXCEPT !.pc = "metering", !.key = rateLimitKey(q.token, now)]
  <1>1. Idle \in Request /\ r \in Request
    <2>1. Idle \in Request
      BY DEF Idle, Request, Pcs, Statuses
    <2>2. QED BY <2>1 DEF Request
  <1>2. /\ sent' \in 0..MaxRequests /\ UNCHANGED <<now, counter, granted>>
    BY GatewayAssumption DEF Arrive, IInv, TypeOK
  <1>3. CASE answer(s, r, 401) \/ answer(s, r, 403)
    BY <1>1, <1>2, <1>3, AnswerOK, OneRequest, CountersKept
  <1>4. CASE /\ q.token \in Roles /\ permits(q.token, q)
             /\ req' = [req EXCEPT ![s] = m]
    <2>1. rateLimitKey(q.token, now) \in Keys /\ windowOf(now) \in Nat
      <3>1. now \in Nat /\ MaxNow \in Nat /\ now <= MaxNow
        BY GatewayAssumption DEF IInv, TypeOK
      <3>2. QED BY <1>4, <3>1, WindowMonotone DEF rateLimitKey, Keys
    <2>2. m \in Request
      BY <1>1, <2>1 DEF Request, Pcs
    <2>3. /\ m.pc = "metering" /\ m.query = q /\ m.status = 0
          /\ m.key = rateLimitKey(q.token, now)
      BY DEF Idle
    <2>4. req'[s] = m
      BY <1>4, RequestType DEF IInv
    <2> HIDE DEF m
    <2>5. Admitted(s)'
      <3>1. \E i \in Entries : GrantedBy(q, i)
        BY <1>4, PermitsGrants
      <3>2. /\ m.key \in Keys /\ m.key[1] = q.token /\ m.key[2] = windowOf(now)
        BY <2>1, <2>3 DEF rateLimitKey
      <3>3. windowOf(now)' = windowOf(now)
        BY <1>2
      <3>4. QED BY <1>4, <2>1, <2>3, <2>4, <3>1, <3>2, <3>3 DEF Admitted
    <2>6. RequestOK(s)'
      BY <2>3, <2>4, <2>5 DEF RequestOK
    <2>7. QED BY <1>2, <1>4, <2>2, <2>6, OneRequest, CountersKept
  <1>5. QED BY <1>3, <1>4 DEF Arrive

(* The script runs, and its answer allows the request or refuses it.        *)
LEMMA MeterStep ==
  ASSUME IInv, NEW s \in Slots, Meter(s)
  PROVE  IInv'
  <1>a. PICK k : k = req[s].key
    OBVIOUS
  <1> DEFINE r == req[s]
             c == script(k)
             d == decideRateLimit(c.count, r.query.token, c.expiresAt - now)
  <1>1. /\ r \in Request /\ r.pc = "metering" /\ Admitted(s) /\ RequestOK(s)
        /\ k \in Keys /\ k[1] = r.query.token /\ k[2] <= windowOf(now)
        /\ k[1] \in Roles /\ k[2] \in Nat /\ now \in Nat
        /\ limit[k[1]] \in Nat
    BY <1>a, RequestType, KeyParts, GatewayAssumption DEF IInv, Meter, RequestOK, Admitted
  <1>2. /\ c \in [count : Nat, expiresAt : Nat] /\ c.count = counter[k].count + 1
        /\ now < c.expiresAt /\ c.expiresAt <= now + window
        /\ k[2] < windowOf(c.expiresAt)
    BY <1>1, ScriptOK
  <1>3. /\ counter' = [counter EXCEPT ![k] = c] /\ UNCHANGED <<now, sent>>
        /\ sent' \in 0..MaxRequests
    BY <1>a DEF Meter, IInv, TypeOK
  <1>4. d.allowed => c.count <= limit[k[1]]
    BY <1>1 DEF decideRateLimit
  <1>5. counter' \in [Keys -> [count : Nat, expiresAt : Nat]] /\ counter'[k] = c
        /\ \A x \in Keys \ {k} : counter'[x] = counter[x]
    BY <1>1, <1>2, <1>3 DEF IInv, TypeOK
  <1>6. granted' \in [Keys -> Nat] /\ \A x \in Keys : CounterOK(x)'
    <2>1. \/ UNCHANGED granted
          \/ d.allowed /\ granted' = [granted EXCEPT ![k] = @ + 1]
      BY <1>a DEF Meter
    <2> HIDE DEF c, d
    <2>2. granted' \in [Keys -> Nat] /\ granted \in [Keys -> Nat]
      BY <1>1, <2>1 DEF IInv, TypeOK
    <2>3. ASSUME NEW x \in Keys \ {k} PROVE CounterOK(x)'
      <3>1. granted'[x] = granted[x] /\ counter'[x] = counter[x] /\ CounterOK(x)
        BY <1>5, <2>1, <2>2 DEF IInv
      <3>2. windowOf(now)' = windowOf(now) /\ now' = now
        BY <1>3
      <3>3. QED BY <3>1, <3>2 DEF CounterOK
    <2>4. CounterOK(k)'
      <3>1. /\ CounterOK(k) /\ counter[k].count \in Nat
            /\ granted'[k] = granted[k] \/ (d.allowed /\ granted'[k] = granted[k] + 1)
        BY <1>1, <2>1, <2>2 DEF IInv, TypeOK
      <3>2. windowOf(now)' = windowOf(now) /\ now' = now /\ windowOf(now) \in Nat
        BY <1>1, <1>3, WindowMonotone
      <3>3. CASE windowOf(now) = k[2]
        <4>1. granted[k] <= counter[k].count /\ granted[k] <= limit[k[1]]
          BY <1>1, <3>1, <3>2, <3>3 DEF CounterOK
        <4>2. granted[k] \in Nat
          BY <1>1, <2>2
        <4>3. granted'[k] <= c.count /\ granted'[k] <= limit[k[1]]
          BY <1>1, <1>2, <1>4, <3>1, <4>1, <4>2
        <4>4. QED BY <1>2, <1>5, <3>2, <4>3 DEF CounterOK
      <3>4. CASE windowOf(now) > k[2]
        <4>1. UNCHANGED granted
          BY <1>a, <1>1, <3>2, <3>4 DEF Meter
        <4>2. QED BY <1>1, <1>2, <1>5, <3>1, <3>2, <3>4, <4>1 DEF CounterOK
      <3>5. QED BY <1>1, <3>2, <3>3, <3>4
    <2>5. QED BY <2>2, <2>3, <2>4
  <1>7. CASE d.allowed
    <2>1. forward(s, r)
      BY <1>a, <1>7 DEF Meter
    <2>2. CASE answer(s, r, 404)
      BY <1>1, <1>3, <1>5, <1>6, <2>2, AnswerOK, OneRequest
    <2>3. CASE req' = [req EXCEPT ![s] = [r EXCEPT !.pc = "proxied"]]
      <3> DEFINE p == [r EXCEPT !.pc = "proxied"]
      <3>1. /\ p \in Request /\ p.pc = "proxied" /\ p.query = r.query
            /\ p.key = r.key /\ p.status = r.status
        BY <1>1 DEF Request, Pcs
      <3>2. req'[s] = p
        BY <2>3, RequestType DEF IInv
      <3> HIDE DEF p
      <3>3. Admitted(s)'
        BY <1>1, <1>3, <3>1, <3>2 DEF Admitted, windowOf
      <3>4. RequestOK(s)'
        BY <1>1, <3>1, <3>2, <3>3 DEF RequestOK
      <3>5. QED BY <1>3, <1>5, <1>6, <2>3, <3>1, <3>4, OneRequest DEF p
    <2>4. QED BY <2>1, <2>2, <2>3 DEF forward
  <1>8. CASE ~d.allowed
    <2> DEFINE q == [r EXCEPT !.retryAfterSec = d.retryAfterSec]
    <2>1. answer(s, q, 429)
      BY <1>a, <1>8 DEF Meter
    <2>2. d.retryAfterSec \in Nat /\ k[2] < windowOf(now + d.retryAfterSec * TicksPerSec)
      BY <1>1, <1>2, <1>8, RefusalEnds
    <2>3. /\ q \in Request /\ q.key = k /\ q.retryAfterSec = d.retryAfterSec
      BY <1>a, <1>1, <2>2 DEF Request
    <2> HIDE DEF q, d, c
    <2>4. /\ req' = [req EXCEPT ![s] = req'[s]] /\ req'[s] \in Request
          /\ req'[s].pc = "done" /\ req'[s].key = k /\ req'[s].status = 429
          /\ req'[s].retryAfterSec = d.retryAfterSec /\ req'[s].at = now
      BY <2>1, <2>3, AnswerIs DEF Statuses
    <2>5. windowOf(now + d.retryAfterSec * TicksPerSec) \in Nat
      <3>1. now + d.retryAfterSec * TicksPerSec \in Nat
        BY SMTT(30), <1>1, <2>2, GatewayAssumption
      <3>2. QED BY <3>1, WindowMonotone
    <2>6. RequestOK(s)'
      BY <1>1, <2>2, <2>4, <2>5 DEF RequestOK
    <2>7. QED BY <1>3, <1>5, <1>6, <2>4, <2>6, OneRequest
  <1>9. QED BY <1>7, <1>8

(* Redis fails: the script may have run all the same. *)
LEMMA MeterFailStep ==
  ASSUME IInv, NEW s \in Slots, MeterFail(s)
  PROVE  IInv'
  <1>1. PICK k : k = req[s].key
    OBVIOUS
  <1>2. /\ req[s] \in Request /\ k \in Keys /\ k[1] \in Roles /\ k[2] \in Nat
        /\ k[2] <= windowOf(now) /\ now \in Nat /\ windowOf(now) \in Nat
    BY <1>1, RequestType, KeyParts, WindowMonotone
       DEF IInv, MeterFail, RequestOK, Admitted
  <1>3. /\ script(k) \in [count : Nat, expiresAt : Nat]
        /\ script(k).count = counter[k].count + 1
        /\ now < script(k).expiresAt /\ script(k).expiresAt <= now + window
        /\ k[2] < windowOf(script(k).expiresAt)
    BY <1>2, ScriptOK
  <1>4. /\ counter' = counter \/ counter' = [counter EXCEPT ![k] = script(k)]
        /\ UNCHANGED <<now, sent, granted>> /\ answer(s, req[s], 500)
        /\ sent' \in 0..MaxRequests /\ granted' \in [Keys -> Nat]
    BY <1>1 DEF MeterFail, IInv, TypeOK
  <1>5. counter' \in [Keys -> [count : Nat, expiresAt : Nat]]
    BY <1>2, <1>3, <1>4 DEF IInv, TypeOK
  <1>6. ASSUME NEW x \in Keys PROVE CounterOK(x)'
    <2>1. /\ CounterOK(x) /\ granted'[x] = granted[x] /\ now' = now
          /\ windowOf(now)' = windowOf(now)
          /\ counter[x].count \in Nat /\ granted[x] \in Nat
      BY <1>4 DEF IInv, TypeOK
    <2>2. CASE counter'[x] = counter[x]
      BY <2>1, <2>2 DEF CounterOK
    <2>3. CASE x = k /\ counter'[x] = script(k)
      BY <1>2, <1>3, <2>1, <2>3 DEF CounterOK
    <2>4. QED BY <1>2, <1>4, <2>2, <2>3 DEF IInv, TypeOK
  <1>7. QED BY <1>2, <1>4, <1>5, <1>6, AnswerOK, OneRequest

(* The upstream answers, and a request that is done makes room.             *)
LEMMA AnswerStep ==
  ASSUME IInv, NEW s \in Slots, UpstreamAnswers(s) \/ Answered(s)
  PROVE  IInv'
  <1>1. /\ req[s] \in Request /\ RequestOK(s)
        /\ UNCHANGED <<now, counter, sent, granted>> /\ sent' \in 0..MaxRequests
    BY RequestType DEF UpstreamAnswers, Answered, IInv, TypeOK
  <1>2. CASE UpstreamAnswers(s)
    <2> DEFINE q  == req[s].query
               ok == serves(resolveUpstreamId(q.path), q.method, pathRewrite(q.path))
    <2>1. CASE answer(s, req[s], 404) \/ answer(s, req[s], 502)
      BY <1>1, <2>1, AnswerOK, OneRequest, CountersKept
    <2>2. CASE ok /\ answer(s, req[s], 200)
      <3>1. Admitted(s)
        BY <1>1, <1>2 DEF UpstreamAnswers, RequestOK
      <3>2. resolveUpstreamId(q.path) \in {"fleet-registry", "vision-ai"}
        BY <2>2, <3>1, ServedByTwo DEF Admitted
      <3>3. /\ req' = [req EXCEPT ![s] = req'[s]] /\ req'[s] \in Request
            /\ req'[s].pc = "done" /\ req'[s].status = 200 /\ req'[s].query = q
        BY <1>1, <2>2, AnswerIs DEF Statuses
      <3>4. RequestOK(s)'
        BY <3>2, <3>3 DEF RequestOK
      <3>5. QED BY <1>1, <3>3, <3>4, OneRequest, CountersKept
    <2>3. QED BY <1>2, <2>1, <2>2 DEF UpstreamAnswers
  <1>3. CASE Answered(s)
    <2>1. req' = [req EXCEPT ![s] = Idle] /\ req'[s] = Idle
      BY <1>3, RequestType DEF Answered, IInv
    <2>2. Idle \in Request /\ Idle.pc = "idle" /\ Idle.status = 0
      BY DEF Idle, Request, Pcs, Statuses
    <2>3. RequestOK(s)'
      BY <2>1, <2>2 DEF RequestOK
    <2>4. QED BY <1>1, <2>1, <2>2, <2>3, OneRequest, CountersKept
  <1>4. QED BY <1>2, <1>3

(* The clock advances; a window may end under the requests in flight. *)
LEMMA TickStep ==
  ASSUME IInv, Tick
  PROVE  IInv'
  <1>1. /\ now \in Nat /\ now' = now + 1 /\ UNCHANGED <<req, sent, granted>>
        /\ now' \in 0..MaxNow
    BY GatewayAssumption DEF Tick, IInv, TypeOK
  <1>2. /\ windowOf(now) \in Nat /\ windowOf(now') \in Nat
        /\ windowOf(now) <= windowOf(now')
    BY <1>1, WindowMonotone
  <1>3. TypeOK'
    BY <1>1 DEF Tick, IInv, TypeOK, Absent
  <1>4. ASSUME NEW s \in Slots PROVE RequestOK(s)'
    <2>1. RequestOK(s) /\ req'[s] = req[s]
      BY <1>1 DEF IInv
    <2>2. Admitted(s) => Admitted(s)'
      <3>1. SUFFICES ASSUME Admitted(s) PROVE Admitted(s)'
        OBVIOUS
      <3>2. req[s].key[2] \in Nat
        BY <3>1, KeyParts DEF Admitted
      <3>3. req[s].key[2] <= windowOf(now')
        BY <1>2, <3>1, <3>2 DEF Admitted
      <3>4. QED BY <2>1, <3>1, <3>3 DEF Admitted
    <2>3. QED BY <2>1, <2>2 DEF RequestOK
  <1>5. ASSUME NEW k \in Keys PROVE CounterOK(k)'
    <2>1. /\ CounterOK(k) /\ granted'[k] = granted[k] /\ k[2] \in Nat
          /\ counter[k].count \in Nat /\ counter[k].expiresAt \in Nat
          /\ window \in Nat
      BY <1>1, KeyParts, NextWindow DEF IInv, TypeOK
    <2>2. counter'[k] = IF counter[k].expiresAt <= now' THEN Absent ELSE counter[k]
      BY <1>1 DEF Tick
    <2>3. CASE counter[k].count > 0 /\ counter[k].expiresAt <= now'
      <3>1. windowOf(counter[k].expiresAt) <= windowOf(now') /\ windowOf(counter[k].expiresAt) \in Nat
        BY <1>1, <2>1, <2>3, WindowMonotone
      <3>2. k[2] < windowOf(now')
        BY <1>2, <2>1, <2>3, <3>1 DEF CounterOK
      <3>3. counter'[k].count = 0
        BY <2>2, <2>3 DEF Absent
      <3>4. QED BY <1>2, <2>1, <3>2, <3>3 DEF CounterOK
    <2>4. CASE counter[k].count > 0 /\ counter[k].expiresAt > now'
      BY <1>1, <1>2, <2>1, <2>2, <2>4 DEF CounterOK
    <2>5. CASE counter[k].count = 0
      <3>1. counter'[k].count = 0
        BY <2>2, <2>5 DEF Absent
      <3>2. windowOf(now') <= k[2] => granted[k] <= 0
        BY <1>2, <2>1, <2>5 DEF CounterOK
      <3>3. QED BY <2>1, <3>1, <3>2 DEF CounterOK
    <2>6. QED BY <1>1, <2>1, <2>3, <2>4, <2>5
  <1>6. QED BY <1>3, <1>4, <1>5 DEF IInv

(* Every step keeps the invariant. *)
LEMMA NextIInv == IInv /\ [Next]_vars => IInv'
  <1> SUFFICES ASSUME IInv, [Next]_vars PROVE IInv'
    OBVIOUS
  <1>1. ASSUME NEW s \in Slots, NEW q \in Requests, Arrive(s, q) PROVE IInv'
    BY <1>1, ArriveStep
  <1>2. ASSUME NEW s \in Slots, Meter(s) PROVE IInv'
    BY <1>2, MeterStep
  <1>3. ASSUME NEW s \in Slots, MeterFail(s) PROVE IInv'
    BY <1>3, MeterFailStep
  <1>4. ASSUME NEW s \in Slots, UpstreamAnswers(s) \/ Answered(s) PROVE IInv'
    BY <1>4, AnswerStep
  <1>5. CASE Tick
    BY <1>5, TickStep
  <1>6. CASE UNCHANGED vars
    BY <1>6 DEF vars, IInv, TypeOK, RequestOK, Admitted, CounterOK, windowOf
  <1>7. QED BY <1>1, <1>2, <1>3, <1>4, <1>5, <1>6 DEF Next

(* IInv holds in every state. *)
LEMMA Inductive == Spec => []IInv
  BY InitIInv, NextIInv, PTL DEF Spec

-----------------------------------------------------------------------------
(* P42 for every window, limit and number of overlapping requests: within a *)
(* window no more than limit[role] requests of a role pass the limiter.     *)
THEOREM QuotaHolds == Spec => []WindowQuota
  <1>1. IInv => WindowQuota
    BY DEF IInv, CounterOK, WindowQuota
  <1>2. QED BY <1>1, Inductive, PTL

(* Whatever rounding the windows and Retry-After are subject to, a refused  *)
(* client that waits as told meets a later window, and no counter in Redis  *)
(* outlives the length of a window.                                         *)
THEOREM RefusalsEnd == Spec => []LockoutEnds
  <1>1. IInv => LockoutEnds
    BY DEF IInv, RequestOK, CounterOK, LockoutEnds
  <1>2. QED BY <1>1, Inductive, PTL

(* Nothing is forwarded that the permission table does not grant the role,  *)
(* or without having been counted for it.                                   *)
THEOREM ForwardsAreGranted == Spec => []ForwardedWasGranted
  <1>1. IInv => ForwardedWasGranted
    BY DEF IInv, RequestOK, Admitted, GrantedBy, ForwardedWasGranted
  <1>2. QED BY <1>1, Inductive, PTL

(* For every set of requests: what the table permits of three of the five   *)
(* upstreams is never answered with a 200, since the prefix that the proxy  *)
(* strips is part of the routes they serve.                                 *)
THEOREM TwoUpstreamsAnswer == Spec => []OnlyTwoUpstreamsAnswer
  <1>1. IInv => OnlyTwoUpstreamsAnswer
    BY DEF IInv, RequestOK, OnlyTwoUpstreamsAnswer
  <1>2. QED BY <1>1, Inductive, PTL
=============================================================================
