--------------------------- MODULE DispatchProofs ---------------------------
(***************************************************************************)
(* Theorems about Dispatch, for every set of calls, every channel list and *)
(* every retry policy.                                                     *)
(***************************************************************************)
EXTENDS Dispatch, FunctionTheorems, FiniteSetTheorems, WellFoundedInduction, TLAPS

-----------------------------------------------------------------------------
(* Sets of naturals, and what a filter keeps. *)

(* Every nonempty set of naturals has a least member. *)
LEMMA LeastMember ==
  ASSUME NEW T, T \subseteq Nat, T # {}
  PROVE  \E n \in T : \A m \in T : n <= m
  <1>1. PICK n \in T : \A m \in T : ~(<<m, n>> \in OpToRel(<, Nat))
    BY WFMin, NatLessThanWellFounded, Zenon
  <1>2. \A m \in T : ~(m < n)
    <2> SUFFICES ASSUME NEW m \in T PROVE ~(m < n)
      OBVIOUS
    <2>1. <<m, n>> \in Nat \X Nat /\ <<m, n>>[1] = m /\ <<m, n>>[2] = n
      OBVIOUS
    <2>2. QED BY <1>1, <2>1, Zenon DEF OpToRel
  <1>3. QED BY <1>2

(* The place of p among the places. *)
Rank(places, p) == Cardinality({q \in places : q <= p})

(* Places are finitely many, and ranks grow with them. *)
LEMMA PlacesFinite ==
  ASSUME NEW n \in Nat, NEW places \in SUBSET (1..n)
  PROVE  /\ IsFiniteSet(places) /\ Cardinality(places) \in 0..n
         /\ \A p \in places : Rank(places, p) \in 1..Cardinality(places)
         /\ \A p, q \in places : p < q => Rank(places, p) < Rank(places, q)
  <1>1. IsFiniteSet(1..n) /\ Cardinality(1..n) = n
    BY FS_Interval
  <1>2. ASSUME NEW T \in SUBSET (1..n) PROVE IsFiniteSet(T) /\ Cardinality(T) \in 0..n
    <2>1. IsFiniteSet(T) /\ Cardinality(T) <= n
      BY <1>1, FS_Subset
    <2>2. Cardinality(T) \in Nat
      BY <2>1, FS_CardinalityType
    <2>3. QED BY <2>1, <2>2
  <1>3. ASSUME NEW p \in places
        PROVE  Rank(places, p) \in 1..Cardinality(places)
    <2> DEFINE T == {q \in places : q <= p}
    <2>1. T \in SUBSET places /\ T \in SUBSET (1..n)
      OBVIOUS
    <2>2. p \in T
      OBVIOUS
    <2> HIDE DEF T
    <2>3. IsFiniteSet(T) /\ IsFiniteSet(places) /\ Cardinality(T) \in Nat
      BY <1>2, <2>1
    <2>4. Cardinality(T) <= Cardinality(places)
      BY <2>1, <2>3, FS_Subset
    <2>5. Cardinality(T) # 0
      BY <2>2, <2>3, FS_EmptySet
    <2>6. Cardinality(places) \in Nat
      BY <1>2
    <2>7. QED BY <2>3, <2>4, <2>5, <2>6 DEF Rank, T
  <1>4. ASSUME NEW p \in places, NEW q \in places, p < q
        PROVE  Rank(places, p) < Rank(places, q)
    <2> DEFINE T == {x \in places : x <= p}
               U == {x \in places : x <= q}
    <2>0. \A x \in places : x \in Int
      OBVIOUS
    <2>1. \A x \in T : x \in U
      BY <1>4, <2>0
    <2>2. U \in SUBSET (1..n) /\ T \in SUBSET (1..n)
      OBVIOUS
    <2>3. q \in U /\ q \notin T
      BY <1>4
    <2> HIDE DEF T, U
    <2>4. /\ IsFiniteSet(U) /\ Cardinality(U) \in Nat
          /\ IsFiniteSet(T) /\ Cardinality(T) \in Nat
      BY <1>2, <2>2
    <2>5. Cardinality(T) <= Cardinality(U) /\ Cardinality(T) # Cardinality(U)
      BY <2>1, <2>3, <2>4, FS_Subset
    <2>6. QED BY <2>4, <2>5 DEF Rank, T, U
  <1>5. QED BY <1>2, <1>3, <1>4

(* Every number up to the number of places is the rank of one place. *)
LEMMA RankOnto ==
  ASSUME NEW n \in Nat, NEW places \in SUBSET (1..n),
         NEW k \in 1..Cardinality(places)
  PROVE  \E p \in places : Rank(places, p) = k
  <1> DEFINE f == [p \in places |-> Rank(places, p)]
             T == 1..Cardinality(places)
  <1>0. /\ \A p \in places : Rank(places, p) \in T
        /\ \A p, q \in places : p < q => Rank(places, p) < Rank(places, q)
    BY PlacesFinite
  <1>1. f \in [places -> T]
    BY <1>0
  <1>1a. ASSUME NEW p \in places, NEW q \in places, f[p] = f[q] PROVE p = q
    <2>1. p \in Int /\ q \in Int /\ Rank(places, p) \in Int /\ Rank(places, q) \in Int
      BY <1>0
    <2>2. Rank(places, p) = Rank(places, q)
      BY <1>1a
    <2>3. QED BY <1>0, <2>1, <2>2
  <1>2. f \in Injection(places, T)
    BY <1>1, <1>1a DEF Injection, IsInjective
  <1>3. Cardinality(places) \in Nat
    BY PlacesFinite
  <1>3a. IsFiniteSet(T) /\ Cardinality(T) = Cardinality(places)
    BY <1>3, FS_Interval
  <1>4. f \in Surjection(places, T)
    BY <1>2, <1>3a, FS_Injection
  <1>5. \E p \in places : f[p] = k
    BY <1>4 DEF Surjection
  <1>6. QED BY <1>5

(* A filter keeps as many entries as there are places, each the entry of    *)
(* its place.                                                               *)
LEMMA KeptEntries ==
  ASSUME NEW S, NEW s \in Seq(S), NEW places \in SUBSET (1..Len(s))
  PROVE  /\ kept(s, places) \in Seq(S)
         /\ Len(kept(s, places)) = Cardinality(places)
         /\ \A p \in places : kept(s, places)[Rank(places, p)] = s[p]
  <1> DEFINE at(k) == CHOOSE p \in places : Rank(places, p) = k
  <1>1. kept(s, places) = [k \in 1..Cardinality(places) |-> s[at(k)]]
    BY DEF kept, Rank
  <1>0. Len(s) \in Nat
    OBVIOUS
  <1>2. Cardinality(places) \in Nat
    BY <1>0, PlacesFinite
  <1>3. \A k \in 1..Cardinality(places) : at(k) \in places /\ Rank(places, at(k)) = k
    BY <1>0, RankOnto
  <1>4. ASSUME NEW k \in 1..Cardinality(places) PROVE s[at(k)] \in S
    <2>1. at(k) \in 1..Len(s)
      BY <1>3
    <2>2. QED BY <2>1
  <1>5. ASSUME NEW p \in places
        PROVE  Rank(places, p) \in 1..Cardinality(places) /\ at(Rank(places, p)) = p
    <2>1. Rank(places, p) \in 1..Cardinality(places)
      BY <1>0, PlacesFinite
    <2>2. at(Rank(places, p)) \in places /\ Rank(places, at(Rank(places, p))) = Rank(places, p)
      BY <1>3, <2>1
    <2>3. \A x \in places : x \in Int
      OBVIOUS
    <2>4. \A x, y \in places : x < y => Rank(places, x) < Rank(places, y)
      BY <1>0, PlacesFinite
    <2>5. QED BY <2>1, <2>2, <2>3, <2>4
  <1> HIDE DEF at
  <1>6. QED BY <1>1, <1>2, <1>4, <1>5

(* Two sequences that agree on the places keep the same. *)
LEMMA KeptSame ==
  ASSUME NEW n \in Nat, NEW places \in SUBSET (1..n), NEW s, NEW t,
         \A p \in places : s[p] = t[p]
  PROVE  kept(s, places) = kept(t, places)
  <1> DEFINE at(k) == CHOOSE p \in places : Rank(places, p) = k
  <1>1. \A u : kept(u, places) = [k \in 1..Cardinality(places) |-> u[at(k)]]
    BY DEF kept, Rank
  <1>2. \A k \in 1..Cardinality(places) : at(k) \in places
    BY RankOnto
  <1> HIDE DEF at
  <1>3. QED BY <1>1, <1>2

(* The head of what is kept is the entry of the least place; the tail is    *)
(* what the other places keep.                                              *)
LEMMA KeptTail ==
  ASSUME NEW S, NEW s \in Seq(S), NEW places \in SUBSET (1..Len(s)),
         NEW m \in places, \A p \in places : m <= p
  PROVE  /\ kept(s, places) # <<>>
         /\ Head(kept(s, places)) = s[m]
         /\ Tail(kept(s, places)) = kept(s, places \ {m})
  <1> DEFINE rest == places \ {m}
  <1>0. Len(s) \in Nat /\ rest \in SUBSET (1..Len(s))
    OBVIOUS
  <1>1. /\ kept(s, places) \in Seq(S) /\ Len(kept(s, places)) = Cardinality(places)
        /\ \A p \in places : kept(s, places)[Rank(places, p)] = s[p]
    BY KeptEntries
  <1>2. /\ kept(s, rest) \in Seq(S) /\ Len(kept(s, rest)) = Cardinality(rest)
        /\ \A p \in rest : kept(s, rest)[Rank(rest, p)] = s[p]
    <2> HIDE DEF rest
    <2>1. QED BY <1>0, KeptEntries
  <1>3. Cardinality(rest) = Cardinality(places) - 1 /\ Cardinality(places) \in Nat \ {0}
    <2>1. IsFiniteSet(places) /\ Cardinality(places) \in Nat
      BY <1>0, PlacesFinite
    <2>2. Cardinality(places) # 0
      BY <2>1, FS_EmptySet
    <2>3. QED BY <2>1, <2>2, FS_RemoveElement
  <1>4. Rank(places, m) = 1
    <2>0. \A q \in places : q \in Nat
      OBVIOUS
    <2>1. \A q \in places : q <= m <=> q = m
      BY <2>0
    <2>1a. {q \in places : q <= m} = {m}
      BY <2>1, Zenon
    <2>2. QED BY <2>1a, FS_Singleton DEF Rank
  <1>5. \A p \in rest : Rank(places, p) = Rank(rest, p) + 1
    <2> SUFFICES ASSUME NEW p \in rest PROVE Rank(places, p) = Rank(rest, p) + 1
      OBVIOUS
    <2> DEFINE T == {q \in rest : q <= p}
    <2>1. {q \in places : q <= p} = T \cup {m} /\ m \notin T
      OBVIOUS
    <2>2. IsFiniteSet(T)
      <3>1. T \in SUBSET (1..Len(s))
        OBVIOUS
      <3>2. QED BY <1>0, <3>1, PlacesFinite
    <2>3. QED BY <2>1, <2>2, FS_AddElement DEF Rank
  <1>6. \A k \in 1..Cardinality(rest) : kept(s, rest)[k] = kept(s, places)[k + 1]
    <2> SUFFICES ASSUME NEW k \in 1..Cardinality(rest)
                 PROVE  kept(s, rest)[k] = kept(s, places)[k + 1]
      OBVIOUS
    <2>1. PICK p \in rest : Rank(rest, p) = k
      BY <1>0, RankOnto
    <2>2. QED BY <1>1, <1>2, <1>5, <2>1
  <1> HIDE DEF rest
  <1>7. kept(s, places) # <<>> /\ Head(kept(s, places)) = s[m]
    BY <1>1, <1>3, <1>4
  <1>8. Tail(kept(s, places)) = kept(s, rest)
    BY <1>1, <1>2, <1>3, <1>6, <1>7
  <1>9. QED BY <1>7, <1>8 DEF rest

(* Nothing is kept of no place, and keeping the places up to n leaves the   *)
(* entries where they are.                                                  *)
LEMMA KeptPrefix ==
  ASSUME NEW S, NEW s \in Seq(S), NEW n \in 0..Len(s)
  PROVE  /\ Len(kept(s, 1..n)) = n
         /\ \A i \in 1..n : kept(s, 1..n)[i] = s[i]
  <1>1. Cardinality(1..n) = n
    BY FS_Interval
  <1>2. \A i \in 1..n : Rank(1..n, i) = i
    <2> SUFFICES ASSUME NEW i \in 1..n PROVE Rank(1..n, i) = i
      OBVIOUS
    <2>1. {q \in 1..n : q <= i} = 1..i
      OBVIOUS
    <2>2. Cardinality(1..i) = i
      BY FS_Interval
    <2>3. QED BY <2>1, <2>2 DEF Rank
  <1>3. QED BY <1>1, <1>2, KeptEntries

(* A filter keeps nothing exactly when it has no place. *)
LEMMA KeptNone ==
  ASSUME NEW S, NEW s \in Seq(S), NEW places \in SUBSET (1..Len(s))
  PROVE  kept(s, places) = <<>> <=> places = {}
  <1>1. kept(s, places) \in Seq(S) /\ Len(kept(s, places)) = Cardinality(places)
    BY KeptEntries
  <1>2. IsFiniteSet(places) /\ (Cardinality(places) = 0 <=> places = {})
    <2>1. Len(s) \in Nat
      OBVIOUS
    <2>2. IsFiniteSet(places)
      BY <2>1, PlacesFinite
    <2>3. QED BY <2>2, FS_EmptySet
  <1>3. QED BY <1>1, <1>2

-----------------------------------------------------------------------------
(* Recursion over the numbers up to k. *)
Unfolds(f, V, base, k, step) ==
  /\ f \in [0..k -> V]
  /\ f[0] = base /\ \A n \in 1..k : f[n] = step[<<n, f[n - 1]>>]

(* A function that the equations describe exists: a set of numbers up to    *)
(* which there is none would have a least member.                           *)
LEMMA Recursion ==
  ASSUME NEW V, NEW base \in V, NEW k \in Nat, NEW step \in [(1..k) \X V -> V]
  PROVE  \E f : Unfolds(f, V, base, k, step)
  <1> DEFINE Upto(f, m) == f[0] = base /\ \A n \in 1..m : f[n] = step[<<n, f[n - 1]>>]
             T == {m \in 0..k : ~\E f \in [0..m -> V] : Upto(f, m)}
  <1>1. SUFFICES ASSUME T # {} PROVE FALSE
    <2>0. T = {}
      BY <1>1, Zenon
    <2>1. k \in 0..k
      OBVIOUS
    <2>1a. k \notin T
      BY <2>0, Zenon
    <2>2. PICK f \in [0..k -> V] : Upto(f, k)
      BY <2>1, <2>1a
    <2>3. Unfolds(f, V, base, k, step)
      BY <2>2 DEF Unfolds
    <2>4. QED BY <2>3
  <1>2. PICK m \in T : \A x \in T : m <= x
    <2>1. T \subseteq Nat
      OBVIOUS
    <2> HIDE DEF T
    <2>2. QED BY <1>1, <2>1, LeastMember
  <1>3. CASE m = 0
    <2>1. Upto([n \in 0..0 |-> base], 0)
      OBVIOUS
    <2>2. [n \in 0..0 |-> base] \in [0..0 -> V]
      OBVIOUS
    <2>3. QED BY <1>3, <2>1, <2>2
  <1>4. CASE m # 0
    <2>1. m \in 1..k /\ m - 1 \in 0..k /\ m - 1 \notin T
      BY <1>2, <1>4
    <2>2. PICK f \in [0..m - 1 -> V] : Upto(f, m - 1)
      BY <2>1
    <2> DEFINE g == [n \in 0..m |-> IF n = m THEN step[<<m, f[m - 1]>>] ELSE f[n]]
    <2>3. f[m - 1] \in V
      BY <2>1
    <2>4. step[<<m, f[m - 1]>>] \in V
      BY <2>1, <2>3
    <2>5. g \in [0..m -> V]
      BY <2>1, <2>4
    <2>6. Upto(g, m)
      <3>1. g[0] = base
        BY <1>4, <2>1, <2>2
      <3>2. ASSUME NEW n \in 1..m PROVE g[n] = step[<<n, g[n - 1]>>]
        <4>1. g[n - 1] = f[n - 1]
          BY <2>1
        <4>2. CASE n = m
          <5>1. g[m] = step[<<m, f[m - 1]>>] /\ f[n - 1] = f[m - 1]
            BY <2>1, <4>2
          <5>2. QED BY <4>1, <4>2, <5>1
        <4>3. CASE n # m
          <5>1. n \in 1..m - 1 /\ g[n] = f[n]
            BY <2>1, <4>3
          <5>2. QED BY <2>2, <4>1, <5>1
        <4>4. QED BY <4>2, <4>3
      <3>3. QED BY <3>1, <3>2
    <2> HIDE DEF g
    <2>7. QED BY <1>2, <2>5, <2>6
  <1>5. QED BY <1>3, <1>4

(* A backoff is a delay within the bound of the policy, whatever the policy *)
(* was configured to be.                                                    *)
LEMMA PolicyType ==
  /\ policy.maxAttempts \in Nat \ {0} /\ policy.baseDelayMs \in Nat
  /\ policy.backoffFactor \in Nat /\ policy.maxDelayMs \in Nat
  BY DispatchAssumption DEF policy, atLeast

(* Every backoff lies between nothing and maxDelayMs, however often it doubles. *)
LEMMA BackoffType ==
  ASSUME NEW k \in Nat
  PROVE  backoffDelayMs(k) \in 0..policy.maxDelayMs
  <1> DEFINE body(f) == [n \in 0..k |->
               IF n = 0 THEN policy.baseDelayMs ELSE f[n - 1] * policy.backoffFactor]
             raw == CHOOSE f : f = body(f)
             step == [p \in (1..k) \X Nat |-> p[2] * policy.backoffFactor]
  <1>1. backoffDelayMs(k) = IF raw[k] < policy.maxDelayMs THEN raw[k] ELSE policy.maxDelayMs
    BY DEF backoffDelayMs
  <1>2. \E f : f = body(f)
    <2>1. step \in [(1..k) \X Nat -> Nat]
      <3>1. \A p \in (1..k) \X Nat : p[2] \in Nat
        OBVIOUS
      <3>2. \A m \in Nat : m * policy.backoffFactor \in Nat
        BY PolicyType
      <3>3. QED BY <3>1, <3>2
    <2> HIDE DEF step
    <2>2. PICK f : Unfolds(f, Nat, policy.baseDelayMs, k, step)
      <3>1. policy.baseDelayMs \in Nat
        BY PolicyType
      <3>2. QED BY <2>1, <3>1, Recursion
    <2>3. ASSUME NEW n \in 0..k
          PROVE  f[n] = IF n = 0 THEN policy.baseDelayMs
                        ELSE f[n - 1] * policy.backoffFactor
      <3>1. CASE n = 0
        BY <2>2, <3>1 DEF Unfolds
      <3>2. CASE n # 0
        <4>1. n \in 1..k /\ f[n - 1] \in Nat
          BY <2>2, <3>2 DEF Unfolds
        <4>2. <<n, f[n - 1]>> \in (1..k) \X Nat /\ <<n, f[n - 1]>>[2] = f[n - 1]
          BY <4>1
        <4>3. step[<<n, f[n - 1]>>] = f[n - 1] * policy.backoffFactor
          BY <4>2 DEF step
        <4>4. QED BY <2>2, <3>2, <4>1, <4>3 DEF Unfolds
      <3>3. QED BY <3>1, <3>2
    <2>4. f = body(f)
      BY <2>2, <2>3 DEF Unfolds
    <2>5. QED BY <2>4
  <1>3. raw = body(raw)
    BY <1>2
  <1> HIDE DEF raw
  <1>4. \A n \in 0..k : raw[n] = IF n = 0 THEN policy.baseDelayMs
                                 ELSE raw[n - 1] * policy.backoffFactor
    BY <1>3
  <1>5. raw[k] \in Nat
    <2> DEFINE T == {n \in 0..k : raw[n] \notin Nat}
    <2>1. SUFFICES ASSUME T # {} PROVE FALSE
      BY <2>1
    <2>2. PICK m \in T : \A x \in T : m <= x
      <3>1. T \subseteq Nat
        OBVIOUS
      <3> HIDE DEF T
      <3>2. QED BY <2>1, <3>1, LeastMember
    <2>3. m # 0
      BY <1>4, <2>2, PolicyType
    <2>4. m - 1 \in 0..k /\ raw[m - 1] \in Nat
      BY <2>2, <2>3
    <2>5. \A x \in Nat : x * policy.backoffFactor \in Nat
      BY PolicyType
    <2>6. raw[m] \in Nat
      BY <1>4, <2>3, <2>4, <2>5
    <2>7. QED BY <2>2, <2>6
  <1>6. QED BY <1>1, <1>5, PolicyType

-----------------------------------------------------------------------------
(* The fan-out. *)

Firsts(channels) ==
  {i \in 1..Len(channels) : \A j \in 1..i - 1 : channels[j] # channels[i]}

(* The targets are the first occurrences of the channels, in their order.   *)
LEMMA FanOutEntries ==
  ASSUME NEW S, NEW channels \in Seq(S)
  PROVE  /\ fanOutChannels(channels) \in Seq(S)
         /\ Len(fanOutChannels(channels)) = Cardinality(Firsts(channels))
         /\ \A i \in Firsts(channels) :
              fanOutChannels(channels)[Rank(Firsts(channels), i)] = channels[i]
  <1> DEFINE k == Len(channels)
             Seen(s, c) == \E i \in DOMAIN s : s[i] = c
             grown(s, c) == IF Seen(s, c) THEN s ELSE Append(s, c)
             body(f) == [n \in 0..k |-> IF n = 0 THEN <<>> ELSE grown(f[n - 1], channels[n])]
             out == CHOOSE f : f = body(f)
             step == [p \in (1..k) \X Seq(S) |-> grown(p[2], channels[p[1]])]
  <1>0. k \in Nat
    OBVIOUS
  <1>1. fanOutChannels(channels) = out[k]
    BY DEF fanOutChannels
  <1>2. ASSUME NEW s \in Seq(S), NEW c \in S PROVE grown(s, c) \in Seq(S)
    OBVIOUS
  <1>3. \E f : f = body(f)
    <2>1. step \in [(1..k) \X Seq(S) -> Seq(S)]
      <3>1. \A p \in (1..k) \X Seq(S) : p[2] \in Seq(S) /\ channels[p[1]] \in S
        OBVIOUS
      <3> HIDE DEF grown
      <3>2. QED BY <1>2, <3>1
    <2> HIDE DEF step, grown
    <2>2. PICK f : Unfolds(f, Seq(S), <<>>, k, step)
      <3>1. <<>> \in Seq(S)
        OBVIOUS
      <3> HIDE DEF k
      <3>2. QED BY <1>0, <2>1, <3>1, Recursion
    <2>3. ASSUME NEW n \in 0..k
          PROVE  f[n] = IF n = 0 THEN <<>> ELSE grown(f[n - 1], channels[n])
      <3>1. CASE n = 0
        BY <2>2, <3>1 DEF Unfolds
      <3>2. CASE n # 0
        <4>1. n \in 1..k /\ f[n - 1] \in Seq(S)
          BY <2>2, <3>2 DEF Unfolds
        <4>2. /\ <<n, f[n - 1]>> \in (1..k) \X Seq(S)
              /\ <<n, f[n - 1]>>[1] = n /\ <<n, f[n - 1]>>[2] = f[n - 1]
          BY <4>1
        <4>3. step[<<n, f[n - 1]>>] = grown(f[n - 1], channels[n])
          BY <4>2 DEF step
        <4>4. QED BY <2>2, <3>2, <4>1, <4>3 DEF Unfolds
      <3>3. QED BY <3>1, <3>2
    <2>4. f = body(f)
      BY <2>2, <2>3 DEF Unfolds
    <2>5. QED BY <2>4
  <1>4. out = body(out)
    BY <1>3
  <1> HIDE DEF out, step
  <1>5. out[0] = <<>> /\ \A n \in 1..k : out[n] = grown(out[n - 1], channels[n])
    <2> HIDE DEF grown
    <2>1. \A n \in 0..k : out[n] = IF n = 0 THEN <<>> ELSE grown(out[n - 1], channels[n])
      BY <1>4
    <2>2. QED BY <1>0, <2>1
  <1> DEFINE firsts == Firsts(channels)
             FirstsTo(n) == {i \in firsts : i <= n}
             Exact(n) ==
               /\ out[n] \in Seq(S)
               /\ Len(out[n]) = Cardinality(FirstsTo(n))
               /\ \A i \in FirstsTo(n) : out[n][Rank(firsts, i)] = channels[i]
               /\ \A j \in 1..Len(out[n]) : \E i \in 1..n : out[n][j] = channels[i]
               /\ \A i \in 1..n : \E j \in 1..Len(out[n]) : out[n][j] = channels[i]
  <1>6. firsts \in SUBSET (1..k)
    BY DEF Firsts
  <1>7. \A n : FirstsTo(n) \in SUBSET (1..k) /\ \A i \in firsts : Rank(firsts, i) = Cardinality(FirstsTo(i))
    BY <1>6 DEF Rank
  <1>8. Exact(0)
    <2>1. FirstsTo(0) = {}
      BY <1>6
    <2>2. Cardinality(FirstsTo(0)) = 0
      BY <2>1, FS_EmptySet
    <2>3. QED BY <1>5, <2>1, <2>2
  <1>9. ASSUME NEW n \in 1..k, Exact(n - 1) PROVE Exact(n)
    <2> DEFINE s == out[n - 1]
               c == channels[n]
    <2>1. /\ s \in Seq(S) /\ Len(s) \in Nat /\ c \in S /\ DOMAIN s = 1..Len(s)
      BY <1>9
    <2>2. out[n] = IF Seen(s, c) THEN s ELSE Append(s, c)
      BY <1>5
    <2>3. CASE Seen(s, c)
      <3>1. PICK j \in 1..Len(s) : s[j] = c
        BY <2>1, <2>3
      <3>2. PICK i \in 1..n - 1 : c = channels[i]
        BY <1>9, <3>1
      <3>3. n \notin firsts
        BY <3>2 DEF Firsts
      <3>4. FirstsTo(n) = FirstsTo(n - 1)
        BY <1>6, <3>3
      <3>5. out[n] = s
        BY <2>2, <2>3
      <3>6. \A x \in 1..n : \E y \in 1..Len(s) : s[y] = channels[x]
        <4> SUFFICES ASSUME NEW x \in 1..n PROVE \E y \in 1..Len(s) : s[y] = channels[x]
          OBVIOUS
        <4>1. CASE x = n
          BY <3>1, <4>1
        <4>2. CASE x # n
          <5>1. x \in 1..n - 1
            BY <4>2
          <5>2. QED BY <1>9, <5>1
        <4>3. QED BY <4>1, <4>2
      <3>7. \A y \in 1..Len(s) : \E x \in 1..n : s[y] = channels[x]
        <4> SUFFICES ASSUME NEW y \in 1..Len(s) PROVE \E x \in 1..n : s[y] = channels[x]
          OBVIOUS
        <4>1. PICK x \in 1..n - 1 : s[y] = channels[x]
          BY <1>9
        <4>2. x \in 1..n
          OBVIOUS
        <4>3. QED BY <4>1, <4>2
      <3> HIDE DEF FirstsTo
      <3>8. /\ s \in Seq(S) /\ Len(s) = Cardinality(FirstsTo(n))
            /\ \A x \in FirstsTo(n) : s[Rank(firsts, x)] = channels[x]
        BY <1>9, <3>4
      <3> HIDE DEF s, firsts
      <3>9. QED BY <3>5, <3>6, <3>7, <3>8
    <2>4. CASE ~Seen(s, c)
      <3>1. /\ out[n] = Append(s, c) /\ Len(out[n]) = Len(s) + 1 /\ out[n] \in Seq(S)
            /\ out[n][Len(s) + 1] = c /\ \A j \in 1..Len(s) : out[n][j] = s[j]
        BY <2>1, <2>2, <2>4
      <3>2. n \in firsts
        <4>1. \A j \in 1..Len(s) : s[j] # c
          BY <2>1, <2>4
        <4>2. \A i \in 1..n - 1 : channels[i] # c
          BY <1>9, <4>1
        <4>3. QED BY <4>2 DEF Firsts
      <3>3. FirstsTo(n) = FirstsTo(n - 1) \cup {n} /\ n \notin FirstsTo(n - 1)
        BY <1>6, <3>2
      <3>4. IsFiniteSet(FirstsTo(n - 1))
        <4> HIDE DEF FirstsTo
        <4>1. QED BY <1>0, <1>7, PlacesFinite
      <3>5. Cardinality(FirstsTo(n)) = Cardinality(FirstsTo(n - 1)) + 1
        <4> HIDE DEF FirstsTo
        <4>1. QED BY <3>3, <3>4, FS_AddElement
      <3>6. Rank(firsts, n) = Len(s) + 1
        BY <1>7, <1>9, <3>2, <3>5
      <3>7. ASSUME NEW i \in FirstsTo(n) PROVE out[n][Rank(firsts, i)] = channels[i]
        <4>1. CASE i = n
          BY <3>1, <3>6, <4>1
        <4>2. CASE i # n
          <5>1. i \in FirstsTo(n - 1)
            BY <3>3, <4>2
          <5>2. Rank(firsts, i) \in 1..Len(s)
            <6>1. i \in firsts /\ i < n
              BY <1>6, <5>1
            <6>2. Rank(firsts, i) \in 1..Cardinality(firsts) /\ Rank(firsts, i) < Rank(firsts, n)
              <7> HIDE DEF firsts
              <7>1. QED BY <1>0, <1>6, <3>2, <6>1, PlacesFinite
            <6>3. Cardinality(firsts) \in Nat
              <7> HIDE DEF firsts
              <7>1. QED BY <1>0, <1>6, PlacesFinite
            <6>4. QED BY <2>1, <3>6, <6>2, <6>3
          <5>3. s[Rank(firsts, i)] = channels[i]
            BY <1>9, <5>1
          <5>4. QED BY <3>1, <5>2, <5>3
        <4>3. QED BY <4>1, <4>2
      <3>8. \A j \in 1..Len(out[n]) : \E i \in 1..n : out[n][j] = channels[i]
        BY <1>9, <2>1, <3>1
      <3>9. \A i \in 1..n : \E j \in 1..Len(out[n]) : out[n][j] = channels[i]
        <4> SUFFICES ASSUME NEW i \in 1..n
                     PROVE  \E j \in 1..Len(out[n]) : out[n][j] = channels[i]
          OBVIOUS
        <4>1. CASE i = n
          <5>1. Len(s) + 1 \in 1..Len(out[n])
            BY <2>1, <3>1
          <5>2. QED BY <3>1, <4>1, <5>1
        <4>2. CASE i # n
          <5>1. PICK j \in 1..Len(s) : s[j] = channels[i]
            <6>1. i \in 1..n - 1
              BY <4>2
            <6>2. QED BY <1>9, <6>1
          <5>2. QED BY <2>1, <3>1, <5>1
        <4>3. QED BY <4>1, <4>2
      <3> HIDE DEF FirstsTo
      <3>10. QED BY <1>9, <3>1, <3>5, <3>7, <3>8, <3>9
    <2>5. QED BY <2>3, <2>4
  <1>10. Exact(k)
    <2> DEFINE T == {n \in 0..k : ~Exact(n)}
    <2>1. SUFFICES ASSUME T # {} PROVE FALSE
      <3> HIDE DEF Exact
      <3>1. QED BY <1>0, <2>1
    <2>2. PICK m \in T : \A x \in T : m <= x
      <3>1. T \subseteq Nat
        OBVIOUS
      <3> HIDE DEF T
      <3>2. QED BY <2>1, <3>1, LeastMember
    <2> HIDE DEF Exact
    <2>3. m # 0
      BY <1>8, <2>2
    <2>4. m \in 1..k /\ m - 1 \in 0..k /\ Exact(m - 1)
      BY <1>0, <2>2, <2>3
    <2>5. QED BY <1>9, <2>2, <2>4
  <1>11. FirstsTo(k) = firsts
    BY <1>0, <1>6
  <1> HIDE DEF FirstsTo
  <1>12. QED BY <1>1, <1>10, <1>11

-----------------------------------------------------------------------------
(* The inductive invariant.  In the first phase a result stands for each     *)
(* target passed, in order, and `todo` is what is left of the targets.  In   *)
(* the second the results of the targets stand first and those of the        *)
(* fallbacks after them; `todo` is what is left of the failed targets, from  *)
(* some place p on, and for as long as in-app works every failure up to p,   *)
(* of any other channel, has had its fallback.                               *)

CallType ==
  [pc : {"idle", "next", "send", "wait", "record", "done"},
   channels : ChannelLists \cup {<<>>}, targets : Seq(Channel),
   todo : Seq(Channel) \cup Seq(Result), fallback : BOOLEAN,
   attempts : 0..policy.maxAttempts - 1, waitMs : 0..policy.maxDelayMs,
   inAppHealthy : BOOLEAN, results : Seq(Result)]

Types ==
  /\ call \in [Calls -> CallType]
  /\ \A d \in Calls : call[d].todo \in Seq(IF call[d].fallback THEN Result ELSE Channel)
  /\ marker \subseteq ChannelTypes \cup {"sms"}
  /\ sends \in [Calls -> Nat]
  /\ received \in [Calls -> SUBSET ChannelTypes]

Down(results, i) == results[i].channel = "in_app" /\ ~results[i].ok

(* The targets that failed after place p, and those up to p that a fallback *)
(* is owed for.                                                             *)
FailedAfter(r, p) == {i \in 1..Len(r.targets) : ~r.results[i].ok /\ i > p}
Owed(r, p) ==
  {i \in 1..Len(r.targets) : ~r.results[i].ok /\ r.results[i].channel # "in_app" /\ i <= p}

FirstPhase(r) ==
  /\ Len(r.results) + Len(r.todo) = Len(r.targets)
  /\ \A i \in 1..Len(r.todo) : r.todo[i] = r.targets[Len(r.results) + i]
  /\ \A i \in 1..Len(r.results) :
       ~r.results[i].viaFallback /\ r.results[i].channel = r.targets[i].type
  /\ r.pc \in {"send", "wait"} => hasTransport(Head(r.todo).type)

SecondPhase(r) ==
  /\ Len(r.results) >= Len(r.targets)
  /\ \A i \in 1..Len(r.results) :
       /\ r.results[i].viaFallback <=> i > Len(r.targets)
       /\ r.results[i].channel = IF i <= Len(r.targets) THEN r.targets[i].type ELSE "in_app"
  /\ \E p \in 0..Len(r.targets) :
       /\ r.todo = kept(r.results, FailedAfter(r, p))
       /\ Len(r.results) - Len(r.targets) <= Cardinality(Owed(r, p))
       /\ r.inAppHealthy => Len(r.results) - Len(r.targets) = Cardinality(Owed(r, p))
  /\ r.pc \in {"send", "wait"} => r.inAppHealthy /\ Head(r.todo).channel # "in_app"

CallOK(r) ==
  /\ r.targets = fanOutChannels(r.channels)
  /\ IF r.fallback THEN SecondPhase(r) ELSE FirstPhase(r)
  /\ r.inAppHealthy <=> \A i \in 1..Len(r.results) : ~Down(r.results, i)
  /\ \A i, j \in 1..Len(r.results) :
       i < j /\ Down(r.results, i) => ~r.results[j].viaFallback
  /\ IF r.pc \in {"send", "wait"} THEN r.todo # <<>> ELSE r.attempts = 0
  /\ r.pc = "record" => r.results # <<>>
  /\ r.pc = "idle" => r.results = <<>>
  /\ r.pc = "done" => r.fallback /\ r.todo = <<>>

(* What a call sent and what arrived. *)
SentOK(r, n, arrived) ==
  /\ n <= policy.maxAttempts * Len(r.results) + r.attempts
  /\ \A i \in 1..Len(r.results) :
       /\ r.results[i].ok => r.results[i].channel \in arrived
       /\ r.results[i].attempts <= policy.maxAttempts

IInv ==
  /\ Types
  /\ \A d \in Calls : CallOK(call[d]) /\ SentOK(call[d], sends[d], received[d])

-----------------------------------------------------------------------------
(* One delivery ends. *)

(* The channels of a call are a list of channels. *)
LEMMA ListsOfChannels ==
  ASSUME NEW channels \in ChannelLists \cup {<<>>}
  PROVE  channels \in Seq(Channel)
  <1>1. CASE channels = <<>>
    BY <1>1
  <1>2. CASE channels \in ChannelLists
    <2>1. ChannelLists \subseteq Seq(Channel)
      BY DispatchAssumption DEF Channel
    <2>2. QED BY <1>2, <2>1
  <1>3. QED BY <1>1, <1>2

(* What `ended` changes and what it leaves alone. *)
LEMMA EndedFields ==
  ASSUME NEW r \in CallType, NEW type, NEW ok \in BOOLEAN, NEW a
  PROVE  LET e == ended(r, type, ok, a)
         IN  /\ e.pc = IF ok THEN "next" ELSE "record"
             /\ e.channels = r.channels /\ e.targets = r.targets
             /\ e.todo = Tail(r.todo) /\ e.fallback = r.fallback
             /\ e.attempts = 0 /\ e.waitMs = 0
             /\ e.results = Append(r.results, resultOf(r, type, ok, a))
             /\ e.inAppHealthy = (r.inAppHealthy /\ (ok \/ type # "in_app"))
  BY DEF ended, CallType

(* The second phase moves on to the next failed target: its place is m, and *)
(* a fallback is owed for it unless it is in-app itself.                     *)
LEMMA NextPlace ==
  ASSUME NEW r \in CallType, Len(r.results) >= Len(r.targets),
         NEW p \in 0..Len(r.targets), kept(r.results, FailedAfter(r, p)) # <<>>
  PROVE  \E m \in 1..Len(r.targets) :
           /\ m > p
           /\ Head(kept(r.results, FailedAfter(r, p))) = r.results[m]
           /\ Tail(kept(r.results, FailedAfter(r, p))) = kept(r.results, FailedAfter(r, m))
           /\ Cardinality(Owed(r, p)) \in Nat
           /\ Cardinality(Owed(r, m)) = Cardinality(Owed(r, p))
                + IF r.results[m].channel = "in_app" THEN 0 ELSE 1
  <1> DEFINE T == Len(r.targets)
             F == FailedAfter(r, p)
  <1>1. /\ r.results \in Seq(Result) /\ r.targets \in Seq(Channel)
        /\ T \in Nat /\ Len(r.results) \in Nat
    BY DEF CallType
  <1>2. F \in SUBSET (1..T) /\ F \in SUBSET (1..Len(r.results))
    BY <1>1 DEF FailedAfter
  <1>3. F # {}
    BY <1>1, <1>2, KeptNone
  <1>4. PICK m \in F : \A i \in F : m <= i
    <2>1. F \subseteq Nat
      BY <1>2
    <2> HIDE DEF F
    <2>2. QED BY <1>3, <2>1, LeastMember
  <1>5. m \in 1..T /\ m > p /\ ~r.results[m].ok
    BY <1>4 DEF FailedAfter
  <1>6. F \ {m} = FailedAfter(r, m)
    <2>1. \A i \in F : i # m <=> i > m
      BY <1>2, <1>4
    <2>2. QED BY <1>5, <2>1 DEF FailedAfter
  <1>7. /\ Head(kept(r.results, F)) = r.results[m]
        /\ Tail(kept(r.results, F)) = kept(r.results, FailedAfter(r, m))
    <2> HIDE DEF F
    <2>1. ASSUME NEW G \in SUBSET (1..Len(r.results)), NEW x \in G, \A i \in G : x <= i
          PROVE  /\ Head(kept(r.results, G)) = r.results[x]
                 /\ Tail(kept(r.results, G)) = kept(r.results, G \ {x})
      <3> DEFINE s == r.results
      <3>1. s \in Seq(Result)
        BY <1>1
      <3> HIDE DEF s
      <3>2. /\ Head(kept(s, G)) = s[x]
            /\ Tail(kept(s, G)) = kept(s, G \ {x})
        <4>1. G \in SUBSET (1..Len(s))
          BY DEF s
        <4>2. x \in G /\ \A i \in G : x <= i
          BY <2>1
        <4>3. QED BY <3>1, <4>1, <4>2, KeptTail, ZenonT(60)
      <3>3. QED BY <3>2 DEF s
    <2>2. QED BY <1>2, <1>4, <1>6, <2>1
  <1>8. Owed(r, p) \in SUBSET (1..T)
    BY DEF Owed
  <1>9. IsFiniteSet(Owed(r, p)) /\ Cardinality(Owed(r, p)) \in Nat
    BY <1>1, <1>8, PlacesFinite
  <1>10. \A i \in 1..T : ~r.results[i].ok /\ i <= m <=> (~r.results[i].ok /\ i <= p) \/ i = m
    <2> SUFFICES ASSUME NEW i \in 1..T, ~r.results[i].ok
                 PROVE  i <= m <=> i <= p \/ i = m
      BY <1>5
    <2>1. i > p => m <= i
      BY <1>4 DEF FailedAfter
    <2>2. QED BY <1>5, <2>1
  <1>11. CASE r.results[m].channel = "in_app"
    <2>1. Owed(r, m) = Owed(r, p)
      BY <1>10, <1>11 DEF Owed
    <2>2. QED BY <1>5, <1>7, <1>9, <1>11, <2>1
  <1>12. CASE r.results[m].channel # "in_app"
    <2>1. Owed(r, m) = Owed(r, p) \cup {m}
      BY <1>5, <1>10, <1>12 DEF Owed
    <2>2. m \notin Owed(r, p)
      BY <1>5 DEF Owed
    <2>3. Cardinality(Owed(r, m)) = Cardinality(Owed(r, p)) + 1
      BY <1>9, <2>1, <2>2, FS_AddElement
    <2>4. QED BY <1>5, <1>7, <1>9, <1>12, <2>3
  <1>13. QED BY <1>11, <1>12

(* What the second phase goes by depends on the results of the targets only. *)
LEMMA SamePlaces ==
  ASSUME NEW r \in CallType, NEW e, NEW x, Len(r.results) >= Len(r.targets),
         e.results = Append(r.results, x), e.targets = r.targets, x \in Result,
         NEW p \in 0..Len(r.targets)
  PROVE  /\ kept(e.results, FailedAfter(e, p)) = kept(r.results, FailedAfter(r, p))
         /\ Owed(e, p) = Owed(r, p)
  <1>1. /\ r.results \in Seq(Result) /\ r.targets \in Seq(Channel)
        /\ Len(r.targets) \in Nat /\ Len(r.results) \in Nat
    BY DEF CallType
  <1>2. \A i \in 1..Len(r.targets) : e.results[i] = r.results[i]
    BY <1>1
  <1>3. FailedAfter(e, p) = FailedAfter(r, p) /\ Owed(e, p) = Owed(r, p)
    BY <1>2 DEF FailedAfter, Owed
  <1>4. FailedAfter(r, p) \in SUBSET (1..Len(r.targets))
    BY DEF FailedAfter
  <1>5. \A i \in FailedAfter(r, p) : e.results[i] = r.results[i]
    BY <1>2, <1>4
  <1>6. kept(e.results, FailedAfter(r, p)) = kept(r.results, FailedAfter(r, p))
    BY <1>1, <1>4, <1>5, KeptSame
  <1>7. QED BY <1>3, <1>6

(* A record of a call and the type of what it has to do. *)
Typed(r) == r \in CallType /\ r.todo \in Seq(IF r.fallback THEN Result ELSE Channel)

(* The delivery the call is at. *)
Delivers(r, type) ==
  /\ r.todo # <<>>
  /\ IF r.fallback THEN r.inAppHealthy /\ Head(r.todo).channel # "in_app" /\ type = "in_app"
     ELSE type = Head(r.todo).type

(* A delivery that ends, well or not, leaves the call as the invariant says. *)
LEMMA EndedOK ==
  ASSUME NEW r, Typed(r), CallOK(r), NEW type, Delivers(r, type),
         NEW ok \in BOOLEAN, NEW a \in Nat
  PROVE  Typed(ended(r, type, ok, a)) /\ CallOK(ended(r, type, ok, a))
  <1> DEFINE e == ended(r, type, ok, a)
             x == resultOf(r, type, ok, a)
             n == Len(r.results)
  <1>1. /\ r \in CallType /\ r.results \in Seq(Result) /\ r.targets \in Seq(Channel)
        /\ Len(r.targets) \in Nat /\ n \in Nat /\ r.todo # <<>> /\ Len(r.todo) \in Nat \ {0}
        /\ r.fallback \in BOOLEAN /\ r.inAppHealthy \in BOOLEAN
    BY DEF CallType, Typed, Delivers
  <1>1a. n \in Int /\ Len(r.todo) \in Int /\ Len(r.targets) \in Int
    BY <1>1
  <1>2. /\ e.pc = IF ok THEN "next" ELSE "record"
        /\ e.channels = r.channels /\ e.targets = r.targets
        /\ e.todo = Tail(r.todo) /\ e.fallback = r.fallback
        /\ e.attempts = 0 /\ e.waitMs = 0 /\ e.results = Append(r.results, x)
        /\ e.inAppHealthy = (r.inAppHealthy /\ (ok \/ type # "in_app"))
    BY <1>1, EndedFields
  <1>3. /\ type \in ChannelTypes \cup {"sms"}
        /\ x = [channel |-> type, ok |-> ok, attempts |-> a, viaFallback |-> r.fallback]
    <2>1. CASE r.fallback
      BY <2>1 DEF Delivers, resultOf, ChannelTypes
    <2>2. CASE ~r.fallback
      <3>1. r.todo \in Seq(Channel) /\ r.todo # <<>>
        BY <1>1, <2>2 DEF Typed
      <3>2. Head(r.todo) \in Channel
        BY <3>1
      <3>3. QED BY <2>2, <3>2 DEF Delivers, resultOf, Channel
    <2>3. QED BY <2>1, <2>2
  <1>4. /\ x \in Result /\ x.channel = type /\ x.ok = ok /\ x.viaFallback = r.fallback
    BY <1>1, <1>3 DEF Result
  <1>5. /\ e.results \in Seq(Result) /\ Len(e.results) = n + 1 /\ e.results[n + 1] = x
        /\ \A i \in 1..n : e.results[i] = r.results[i]
    BY <1>1, <1>2, <1>4
  <1>6. Typed(e)
    <2>1. e.todo \in Seq(IF e.fallback THEN Result ELSE Channel)
      <3>1. \A S : \A q \in Seq(S) : q # <<>> => Tail(q) \in Seq(S)
        OBVIOUS
      <3>2. QED BY <1>1, <1>2, <3>1 DEF Typed
    <2>2. e.todo \in Seq(Channel) \cup Seq(Result)
      BY <2>1
    <2>3. 0 \in 0..policy.maxAttempts - 1 /\ 0 \in 0..policy.maxDelayMs
      BY PolicyType
    <2>4. e \in [pc : {"idle", "next", "send", "wait", "record", "done"},
                 channels : ChannelLists \cup {<<>>}, targets : Seq(Channel),
                 todo : {Tail(r.todo)}, fallback : BOOLEAN, attempts : {0}, waitMs : {0},
                 inAppHealthy : BOOLEAN, results : {Append(r.results, x)}]
      BY <1>1 DEF ended, CallType
    <2>5. QED BY <1>2, <1>5, <2>1, <2>2, <2>3, <2>4 DEF Typed, CallType
  <1>6a. e.targets = fanOutChannels(e.channels)
    BY <1>2 DEF CallOK
  <1>7. e.inAppHealthy <=> \A i \in 1..Len(e.results) : ~Down(e.results, i)
    <2>1. r.inAppHealthy <=> \A i \in 1..n : ~Down(r.results, i)
      BY DEF CallOK
    <2>2. /\ \A i \in 1..n : Down(e.results, i) <=> Down(r.results, i)
          /\ Down(e.results, n + 1) <=> (type = "in_app" /\ ~ok)
      BY <1>4, <1>5 DEF Down
    <2>3. \A i \in 1..n + 1 : i \in 1..n \/ i = n + 1
      BY <1>1
    <2>4. \A i \in 1..n : i \in 1..n + 1
      BY <1>1
    <2>5. n + 1 \in 1..n + 1
      BY <1>1
    <2>6. QED BY <1>2, <1>5, <2>1, <2>2, <2>3, <2>4, <2>5
  <1>8. \A i, j \in 1..Len(e.results) :
          i < j /\ Down(e.results, i) => ~e.results[j].viaFallback
    <2> SUFFICES ASSUME NEW i \in 1..n + 1, NEW j \in 1..n + 1, i < j, Down(e.results, i)
                 PROVE  ~e.results[j].viaFallback
      BY <1>5
    <2>1. i \in 1..n /\ Down(r.results, i)
      BY <1>1, <1>5 DEF Down
    <2>2. CASE j \in 1..n
      BY <1>5, <2>1, <2>2 DEF CallOK
    <2>3. CASE j = n + 1
      <3>1. ~r.inAppHealthy
        BY <2>1 DEF CallOK
      <3>2. ~r.fallback
        BY <3>1 DEF Delivers
      <3>3. QED BY <1>4, <1>5, <2>3, <3>2
    <2>4. QED BY <1>1, <2>2, <2>3
  <1>9. CASE ~r.fallback
    <2>1. FirstPhase(r) /\ r.todo \in Seq(Channel)
      BY <1>9 DEF CallOK, Typed
    <2>2. /\ Len(e.todo) = Len(r.todo) - 1
          /\ \A i \in 1..Len(e.todo) : e.todo[i] = r.todo[i + 1]
      BY <1>1, <1>2, <2>1
    <2>3. r.todo[1] = r.targets[n + 1] /\ type = r.targets[n + 1].type
      BY <1>1, <1>9, <2>1 DEF FirstPhase, Delivers
    <2>4. \A i \in 1..Len(e.todo) : e.todo[i] = r.targets[n + 1 + i]
      <3> SUFFICES ASSUME NEW i \in 1..Len(e.todo) PROVE e.todo[i] = r.targets[n + 1 + i]
        OBVIOUS
      <3>1. i + 1 \in 1..Len(r.todo) /\ n + (i + 1) = n + 1 + i
        <4>1. i \in Int /\ i >= 1 /\ i <= Len(r.todo) - 1
          BY <1>1, <2>2
        <4> HIDE DEF e, n
        <4>2. QED BY <1>1a, <4>1
      <3>2. QED BY <2>1, <2>2, <3>1 DEF FirstPhase
    <2>5. \A i \in 1..n + 1 : ~e.results[i].viaFallback /\ e.results[i].channel = r.targets[i].type
      <3> SUFFICES ASSUME NEW i \in 1..n + 1
                   PROVE  ~e.results[i].viaFallback /\ e.results[i].channel = r.targets[i].type
        OBVIOUS
      <3>1. CASE i = n + 1
        BY <1>4, <1>5, <1>9, <2>3, <3>1
      <3>2. CASE i \in 1..n
        BY <1>5, <2>1, <3>2 DEF FirstPhase
      <3>3. QED BY <1>1, <3>1, <3>2
    <2>6. Len(e.results) + Len(e.todo) = Len(e.targets)
      <3>1. n + Len(r.todo) = Len(r.targets)
        BY <2>1 DEF FirstPhase
      <3>2. Len(e.results) = n + 1 /\ Len(e.todo) = Len(r.todo) - 1 /\ e.targets = r.targets
        BY <1>2, <1>5, <2>2
      <3> DEFINE todo == Len(r.todo)
                 all == Len(r.targets)
      <3>3. n \in Int /\ todo \in Int /\ all \in Int /\ n + todo = all
        BY <1>1a, <3>1
      <3> HIDE DEF e, n, todo, all
      <3>4. (n + 1) + (todo - 1) = all
        BY <3>3
      <3>5. QED BY <3>2, <3>4, Zenon DEF todo, all
    <2>7. FirstPhase(e)
      BY <1>2, <1>5, <2>4, <2>5, <2>6 DEF FirstPhase
    <2>8. /\ e.pc \notin {"send", "wait"} /\ e.pc \notin {"idle", "done"}
          /\ e.attempts = 0 /\ e.results # <<>> /\ ~e.fallback
      BY <1>1, <1>2, <1>5, <1>9
    <2> HIDE DEF e
    <2>9. /\ IF e.pc \in {"send", "wait"} THEN e.todo # <<>> ELSE e.attempts = 0
          /\ IF e.fallback THEN SecondPhase(e) ELSE FirstPhase(e)
      BY <2>7, <2>8
    <2>10. CallOK(e)
      BY <1>6, <1>6a, <1>7, <1>8, <2>8, <2>9, Zenon DEF CallOK
    <2>11. QED BY <1>6, <2>10 DEF e
  <1>10. CASE r.fallback
    <2>1. SecondPhase(r) /\ n >= Len(r.targets)
      BY <1>10 DEF CallOK, SecondPhase
    <2>2. PICK p \in 0..Len(r.targets) :
            /\ r.todo = kept(r.results, FailedAfter(r, p))
            /\ n - Len(r.targets) <= Cardinality(Owed(r, p))
            /\ r.inAppHealthy => n - Len(r.targets) = Cardinality(Owed(r, p))
      BY <2>1 DEF SecondPhase
    <2>3. PICK m \in 1..Len(r.targets) :
            /\ Head(r.todo) = r.results[m]
            /\ Tail(r.todo) = kept(r.results, FailedAfter(r, m))
            /\ Cardinality(Owed(r, p)) \in Nat
            /\ Cardinality(Owed(r, m)) = Cardinality(Owed(r, p))
                 + IF r.results[m].channel = "in_app" THEN 0 ELSE 1
      BY <1>1, <2>1, <2>2, NextPlace
    <2>4. r.inAppHealthy /\ r.results[m].channel # "in_app" /\ type = "in_app"
      BY <1>10, <2>3 DEF Delivers
    <2>5. m \in 0..Len(r.targets)
      OBVIOUS
    <2>6. /\ kept(e.results, FailedAfter(e, m)) = kept(r.results, FailedAfter(r, m))
          /\ Owed(e, m) = Owed(r, m)
      <3> HIDE DEF e, x
      <3>1. QED BY <1>1, <1>2, <1>4, <2>1, <2>5, SamePlaces
    <2>7. /\ e.todo = kept(e.results, FailedAfter(e, m))
          /\ Len(e.results) - Len(e.targets) = Cardinality(Owed(e, m))
      <3>1. e.todo = kept(e.results, FailedAfter(e, m))
        BY <1>2, <2>3, <2>6
      <3>2. Len(r.results) - Len(r.targets) = Cardinality(Owed(r, p))
        BY <2>2, <2>4
      <3>3. Cardinality(Owed(e, m)) = Cardinality(Owed(r, p)) + 1
        BY <2>3, <2>4, <2>6
      <3>4. Len(e.results) - Len(e.targets) = n + 1 - Len(r.targets)
        BY <1>2, <1>5
      <3> DEFINE all == Len(r.targets)
                 owed == Cardinality(Owed(r, p))
      <3>5a. n \in Int /\ all \in Int /\ owed \in Int
        BY <1>1a, <2>3
      <3>5. n - all = owed
        BY <3>2, Zenon
      <3> HIDE DEF e, n, all, owed
      <3>6. n + 1 - all = owed + 1
        BY <3>5, <3>5a
      <3>7. QED BY <3>1, <3>3, <3>4, <3>6, Zenon DEF all, owed
    <2>8. \A i \in 1..n + 1 :
            /\ e.results[i].viaFallback <=> i > Len(r.targets)
            /\ e.results[i].channel = IF i <= Len(r.targets) THEN r.targets[i].type ELSE "in_app"
      <3> SUFFICES ASSUME NEW i \in 1..n + 1
            PROVE  /\ e.results[i].viaFallback <=> i > Len(r.targets)
                   /\ e.results[i].channel = IF i <= Len(r.targets) THEN r.targets[i].type
                                             ELSE "in_app"
        OBVIOUS
      <3>1. CASE i = n + 1
        <4>1. e.results[i] = x /\ x.viaFallback = r.fallback /\ x.channel = "in_app"
          BY <1>4, <1>5, <2>4, <3>1
        <4>2. i > Len(r.targets) /\ ~(i <= Len(r.targets))
          BY <1>1, <2>1, <3>1
        <4> HIDE DEF e, x
        <4>3. QED BY <1>10, <4>1, <4>2
      <3>2. CASE i \in 1..n
        BY <1>5, <2>1, <3>2 DEF SecondPhase
      <3>3. i = n + 1 \/ i \in 1..n
        BY <1>1
      <3> HIDE DEF e
      <3>4. QED BY <3>1, <3>2, <3>3
    <2>9. SecondPhase(e)
      <3>1. Len(e.results) >= Len(e.targets)
        BY <1>1, <1>2, <1>5, <2>1
      <3>2. e.pc \notin {"send", "wait"}
        BY <1>2
      <3>3. Cardinality(Owed(e, m)) \in Nat
        BY <2>3, <2>4, <2>6
      <3> HIDE DEF e
      <3>4. \A i \in 1..Len(e.results) :
              /\ e.results[i].viaFallback <=> i > Len(e.targets)
              /\ e.results[i].channel = IF i <= Len(e.targets) THEN e.targets[i].type
                                        ELSE "in_app"
        BY <1>2, <1>5, <2>8
      <3>5. m \in 0..Len(e.targets)
        BY <1>2, <2>5
      <3>6. Len(e.results) - Len(e.targets) <= Cardinality(Owed(e, m))
        <4> DEFINE owed == Cardinality(Owed(e, m))
                   pushed == Len(e.results) - Len(e.targets)
        <4>1. owed \in Nat /\ pushed = owed
          BY <2>7, <3>3
        <4> HIDE DEF owed, pushed
        <4>2. pushed <= owed
          BY <4>1
        <4>3. QED BY <4>2 DEF owed, pushed
      <3>7. QED BY <2>7, <3>1, <3>2, <3>4, <3>5, <3>6 DEF SecondPhase
    <2>10. /\ e.pc \notin {"send", "wait"} /\ e.pc \notin {"idle", "done"}
           /\ e.attempts = 0 /\ e.results # <<>> /\ e.fallback
      BY <1>1, <1>2, <1>5, <1>10
    <2> HIDE DEF e
    <2>11. /\ IF e.pc \in {"send", "wait"} THEN e.todo # <<>> ELSE e.attempts = 0
          /\ IF e.fallback THEN SecondPhase(e) ELSE FirstPhase(e)
      BY <2>9, <2>10
    <2>12. CallOK(e)
      BY <1>6, <1>6a, <1>7, <1>8, <2>10, <2>11, Zenon DEF CallOK
    <2>13. QED BY <1>6, <2>12 DEF e
  <1>11. QED BY <1>1, <1>9, <1>10

-----------------------------------------------------------------------------
(* The invariant holds at first and every step keeps it. *)

(* One result more makes room for maxAttempts more sends. *)
LEMMA RoomForSends ==
  ASSUME NEW M \in Nat, NEW k \in Nat, NEW a \in 0..M
  PROVE  M * k \in Nat /\ M * (k + 1) \in Nat /\ M * k + a <= M * (k + 1)
  <1>1. M * (k + 1) = M * k + M /\ M * k \in Nat
    OBVIOUS
  <1>2. PICK x \in Nat : x = M * k
    BY <1>1
  <1>3. QED BY <1>1, <1>2

(* What a delivery sent and reports is within what its end makes room for. *)
LEMMA EndedSent ==
  ASSUME NEW r \in CallType, NEW n, NEW arrived, SentOK(r, n, arrived),
         NEW type, NEW ok \in BOOLEAN, NEW a \in 0..policy.maxAttempts,
         NEW n2 \in Nat, n2 <= policy.maxAttempts * Len(r.results) + a,
         NEW arrived2, arrived \subseteq arrived2, ok => type \in arrived2,
         resultOf(r, type, ok, a) \in Result
  PROVE  SentOK(ended(r, type, ok, a), n2, arrived2)
  <1> DEFINE e == ended(r, type, ok, a)
             x == resultOf(r, type, ok, a)
             k == Len(r.results)
             M == policy.maxAttempts
  <1>1. e.results = Append(r.results, x) /\ e.attempts = 0
    BY EndedFields
  <1>2. x.channel = type /\ x.ok = ok /\ x.attempts = a
    BY DEF resultOf
  <1>3. r.results \in Seq(Result) /\ k \in Nat
    BY DEF CallType
  <1>4. /\ Len(e.results) = k + 1 /\ e.results[k + 1] = x
        /\ \A i \in 1..k : e.results[i] = r.results[i]
    BY <1>1, <1>3
  <1>5. n2 <= M * Len(e.results) + e.attempts
    <2>1. M \in Nat
      BY PolicyType
    <2> HIDE DEF e, M, k
    <2>2. M * k \in Nat /\ M * (k + 1) \in Nat /\ M * k + a <= M * (k + 1)
      BY <1>3, <2>1, RoomForSends DEF M
    <2>3. n2 <= M * k + a
      BY DEF M, k
    <2>4. PICK y \in Nat, z \in Nat : y = M * k /\ z = M * (k + 1)
      BY <2>2
    <2>5. n2 <= z /\ z + 0 = z
      BY <2>1, <2>2, <2>3, <2>4 DEF M
    <2>6. QED BY <1>1, <1>4, <2>4, <2>5
  <1>6. ASSUME NEW i \in 1..Len(e.results)
        PROVE  /\ e.results[i].ok => e.results[i].channel \in arrived2
               /\ e.results[i].attempts <= M
    <2>1. CASE i = k + 1
      BY <1>2, <1>4, <2>1
    <2>2. CASE i \in 1..k
      BY <1>4, <2>2 DEF SentOK
    <2>3. QED BY <1>3, <1>4, <2>1, <2>2
  <1> HIDE DEF e
  <1>7. SentOK(e, n2, arrived2)
    BY <1>5, <1>6 DEF SentOK
  <1>8. QED BY <1>7 DEF e

(* No channels, no targets. *)
LEMMA FanOutNone == fanOutChannels(<<>>) = <<>>
  <1>1. <<>> \in Seq({}) /\ Len(<<>>) = 0
    OBVIOUS
  <1>2. Firsts(<<>>) = {}
    BY <1>1 DEF Firsts
  <1>3. fanOutChannels(<<>>) \in Seq({}) /\ Len(fanOutChannels(<<>>)) = 0
    BY <1>1, <1>2, FanOutEntries, FS_EmptySet
  <1>4. QED BY <1>3

(* The invariant holds at first. *)
LEMMA InitIInv == Init => IInv
  <1> SUFFICES ASSUME Init PROVE IInv
    OBVIOUS
  <1>1. 0 \in 0..policy.maxAttempts - 1 /\ 0 \in 0..policy.maxDelayMs
    BY PolicyType
  <1>2. Idle \in CallType /\ Idle.todo = <<>> /\ Idle.todo \in Seq(Channel) /\ ~Idle.fallback
    BY <1>1 DEF Idle, CallType
  <1>3. Types
    BY <1>2 DEF Init, Types
  <1>4. FirstPhase(Idle)
    BY DEF FirstPhase, Idle
  <1>5. CallOK(Idle)
    BY <1>4, FanOutNone DEF CallOK, Idle
  <1>6. ASSUME NEW d \in Calls PROVE SentOK(Idle, sends[d], received[d])
    BY PolicyType DEF Init, SentOK, Idle
  <1>7. QED BY <1>3, <1>5, <1>6 DEF Init, IInv

(* A step of call d keeps the invariant if it leaves d as it should be.     *)
LEMMA CallChanges ==
  ASSUME IInv, NEW d \in Calls, NEW r, call' = [call EXCEPT ![d] = r],
         Typed(r), CallOK(r), SentOK(r, sends'[d], received'[d]),
         marker' \subseteq ChannelTypes \cup {"sms"},
         sends' \in [Calls -> Nat], received' \in [Calls -> SUBSET ChannelTypes],
         \A x \in Calls : x # d => sends'[x] = sends[x] /\ received'[x] = received[x]
  PROVE  IInv'
  <1>1. call \in [Calls -> CallType]
    BY DEF IInv, Types
  <1>2. call'[d] = r /\ \A x \in Calls : x # d => call'[x] = call[x]
    BY <1>1
  <1>3. Types'
    BY <1>1, <1>2 DEF IInv, Types, Typed
  <1>4. ASSUME NEW x \in Calls
        PROVE  CallOK(call'[x]) /\ SentOK(call'[x], sends'[x], received'[x])
    <2>1. CASE x = d
      BY <1>2, <2>1
    <2>2. CASE x # d
      BY <1>2, <2>2 DEF IInv
    <2>3. QED BY <2>1, <2>2
  <1>5. QED BY <1>3, <1>4 DEF IInv

(* What a call is when it starts. *)
Begun(channels, targets) ==
  [Idle EXCEPT !.pc = "next", !.channels = channels, !.targets = targets, !.todo = targets]

(* What a call has when it starts. *)
LEMMA BegunFields ==
  ASSUME NEW channels \in ChannelLists \cup {<<>>}, NEW targets \in Seq(Channel)
  PROVE  LET r == Begun(channels, targets)
         IN  /\ r \in CallType
             /\ r.pc = "next" /\ r.channels = channels /\ r.targets = targets
             /\ r.todo = targets /\ r.fallback = FALSE /\ r.attempts = 0
             /\ r.inAppHealthy = TRUE /\ r.results = <<>>
  <1>1. 0 \in 0..policy.maxAttempts - 1 /\ 0 \in 0..policy.maxDelayMs
    BY PolicyType
  <1>2. Idle \in CallType
    BY <1>1 DEF Idle, CallType
  <1>3. /\ Idle.attempts = 0 /\ Idle.fallback = FALSE /\ Idle.inAppHealthy = TRUE
        /\ Idle.results = <<>>
    BY DEF Idle
  <1>4. QED BY <1>2, <1>3 DEF Begun, CallType

(* dispatch() starts: the targets are all still to do. *)
LEMMA BeginStep ==
  ASSUME IInv, NEW d \in Calls, Begin(d)
  PROVE  IInv'
  <1>1. PICK channels \in ChannelLists :
          call' = [call EXCEPT ![d] = Begun(channels, fanOutChannels(channels))]
    BY DEF Begin, Begun
  <1> DEFINE targets == fanOutChannels(channels)
             r == Begun(channels, targets)
  <1>2. targets \in Seq(Channel)
    BY ListsOfChannels, FanOutEntries
  <1>2a. call' = [call EXCEPT ![d] = r] /\ targets = fanOutChannels(channels)
    BY <1>1
  <1> HIDE DEF targets
  <1>3. /\ r.pc = "next" /\ r.channels = channels /\ r.targets = targets
        /\ r.todo = targets /\ r.fallback = FALSE /\ r.attempts = 0
        /\ r.inAppHealthy = TRUE /\ r.results = <<>> /\ r \in CallType
    <2>1. channels \in ChannelLists \cup {<<>>}
      OBVIOUS
    <2>2. QED BY <1>2, <2>1, BegunFields, ZenonT(60)
  <1>4. Typed(r)
    <2> HIDE DEF r
    <2>1. QED BY <1>2, <1>3 DEF Typed
  <1> HIDE DEF r
  <1>5. FirstPhase(r)
    <2>1. Len(r.results) = 0 /\ Len(r.todo) \in Nat
      BY <1>2, <1>3
    <2>2. QED BY <1>3, <2>1 DEF FirstPhase
  <1>6. CallOK(r)
    BY <1>2a, <1>3, <1>5 DEF CallOK
  <1>7. marker' = marker /\ sends' = sends /\ received' = received
    BY DEF Begin
  <1>8. SentOK(r, sends'[d], received'[d])
    <2>1. call[d].pc = "idle" /\ SentOK(call[d], sends[d], received[d]) /\ CallOK(call[d])
      BY DEF Begin, IInv
    <2>2. call[d].results = <<>> /\ call[d].attempts = 0
      BY <2>1 DEF CallOK
    <2>3. QED BY <1>3, <1>7, <2>1, <2>2 DEF SentOK
  <1>9. QED BY <1>2a, <1>4, <1>6, <1>7, <1>8, CallChanges DEF IInv, Types

(* What the invariant says of one call. *)
LEMMA OneCall ==
  ASSUME IInv, NEW d \in Calls
  PROVE  /\ Typed(call[d]) /\ CallOK(call[d]) /\ call[d] \in CallType
         /\ SentOK(call[d], sends[d], received[d])
         /\ sends[d] \in Nat /\ received[d] \subseteq ChannelTypes
         /\ marker \subseteq ChannelTypes \cup {"sms"}
         /\ sends \in [Calls -> Nat] /\ received \in [Calls -> SUBSET ChannelTypes]
  BY DEF IInv, Types, Typed

(* The types of a call's fields. *)
LEMMA Fields ==
  ASSUME NEW r, Typed(r)
  PROVE  /\ r \in CallType /\ r.results \in Seq(Result) /\ r.targets \in Seq(Channel)
         /\ Len(r.results) \in Nat /\ Len(r.targets) \in Nat
         /\ r.fallback \in BOOLEAN /\ r.inAppHealthy \in BOOLEAN
         /\ r.attempts \in 0..policy.maxAttempts - 1
         /\ r.todo \in Seq(IF r.fallback THEN Result ELSE Channel)
  BY DEF Typed, CallType

(* A call that keeps its results is as it should be once its phase is. *)
LEMMA SameResults ==
  ASSUME NEW r, CallOK(r), NEW e,
         e.channels = r.channels, e.targets = r.targets, e.results = r.results,
         e.inAppHealthy = r.inAppHealthy,
         IF e.fallback THEN SecondPhase(e) ELSE FirstPhase(e),
         IF e.pc \in {"send", "wait"} THEN e.todo # <<>> ELSE e.attempts = 0,
         e.pc \notin {"record", "idle"},
         e.pc = "done" => e.fallback /\ e.todo = <<>>
  PROVE  CallOK(e)
  BY DEF CallOK, Down

(* Ready(r): the channel at the head of `todo` is one to be tried. *)
Ready(r) ==
  /\ r.todo # <<>>
  /\ IF r.fallback THEN r.inAppHealthy /\ Head(r.todo).channel # "in_app"
     ELSE hasTransport(Head(r.todo).type)

(* A call that sends or waits has a channel to be tried. *)
LEMMA SendsAreReady ==
  ASSUME NEW r, CallOK(r), r.pc \in {"send", "wait"}
  PROVE  Ready(r)
  BY DEF Ready, CallOK, FirstPhase, SecondPhase

(* A call that keeps its work stays in its phase. *)
LEMMA SamePhase ==
  ASSUME NEW r, CallOK(r), NEW e,
         e.targets = r.targets, e.results = r.results, e.todo = r.todo,
         e.fallback = r.fallback, e.inAppHealthy = r.inAppHealthy,
         e.pc \in {"send", "wait"} => Ready(r)
  PROVE  IF e.fallback THEN SecondPhase(e) ELSE FirstPhase(e)
  <1>1. CASE ~r.fallback
    BY <1>1 DEF CallOK, FirstPhase, Ready
  <1>2. CASE r.fallback
    <2>1. \A p : FailedAfter(e, p) = FailedAfter(r, p) /\ Owed(e, p) = Owed(r, p)
      BY DEF FailedAfter, Owed
    <2>2. QED BY <1>2, <2>1, ZenonT(60) DEF CallOK, SecondPhase, Ready
  <1>3. QED BY <1>1, <1>2

(* A call that only goes on to its next step stays as it should be. *)
LEMMA PcChanges ==
  ASSUME NEW r, Typed(r), CallOK(r), NEW pc \in {"next", "send", "done"},
         IF pc = "send" THEN Ready(r) ELSE r.pc \notin {"send", "wait"},
         pc = "done" => r.fallback /\ r.todo = <<>>
  PROVE  LET e == [r EXCEPT !.pc = pc]
         IN  /\ Typed(e) /\ CallOK(e)
             /\ e.results = r.results /\ e.attempts = r.attempts
  <1> DEFINE e == [r EXCEPT !.pc = pc]
  <1>1. /\ e.pc = pc /\ e.channels = r.channels /\ e.targets = r.targets
        /\ e.todo = r.todo /\ e.fallback = r.fallback /\ e.attempts = r.attempts
        /\ e.waitMs = r.waitMs /\ e.inAppHealthy = r.inAppHealthy /\ e.results = r.results
    BY DEF Typed, CallType
  <1>2. e \in CallType
    BY DEF Typed, CallType
  <1> HIDE DEF e
  <1>3. Typed(e)
    BY <1>1, <1>2 DEF Typed
  <1>4. IF e.fallback THEN SecondPhase(e) ELSE FirstPhase(e)
    BY <1>1, SamePhase
  <1>5. IF e.pc \in {"send", "wait"} THEN e.todo # <<>> ELSE e.attempts = 0
    BY <1>1 DEF Ready, CallOK
  <1>6. CallOK(e)
    BY <1>1, <1>4, <1>5, SameResults
  <1>7. QED BY <1>1, <1>3, <1>6 DEF e

(* Work that is skipped: the second phase passes over a target. *)
LEMMA SkipOK ==
  ASSUME NEW r, Typed(r), CallOK(r), r.pc = "next", r.fallback, r.todo # <<>>,
         ~shouldFallbackToInApp(Head(r.todo).channel, r.inAppHealthy)
  PROVE  LET e == [r EXCEPT !.todo = Tail(@)]
         IN  /\ Typed(e) /\ CallOK(e)
             /\ e.results = r.results /\ e.attempts = r.attempts
  <1> DEFINE e == [r EXCEPT !.todo = Tail(@)]
  <1>1. /\ e.pc = "next" /\ e.channels = r.channels /\ e.targets = r.targets
        /\ e.todo = Tail(r.todo) /\ e.fallback = r.fallback /\ e.attempts = r.attempts
        /\ e.waitMs = r.waitMs /\ e.inAppHealthy = r.inAppHealthy /\ e.results = r.results
    BY DEF Typed, CallType
  <1>2. r.todo \in Seq(Result) /\ Tail(r.todo) \in Seq(Result)
    <2>1. r.todo \in Seq(Result)
      BY Fields
    <2>2. QED BY <2>1
  <1>3. e \in CallType
    BY <1>2 DEF Typed, CallType
  <1> HIDE DEF e
  <1>4. Typed(e)
    BY <1>1, <1>2, <1>3 DEF Typed
  <1>5. SecondPhase(r) /\ r.attempts = 0
    BY DEF CallOK
  <1>6. PICK p \in 0..Len(r.targets) :
          /\ r.todo = kept(r.results, FailedAfter(r, p))
          /\ Len(r.results) - Len(r.targets) <= Cardinality(Owed(r, p))
          /\ r.inAppHealthy => Len(r.results) - Len(r.targets) = Cardinality(Owed(r, p))
    BY <1>5 DEF SecondPhase
  <1>7. PICK m \in 1..Len(r.targets) :
          /\ Head(r.todo) = r.results[m]
          /\ Tail(r.todo) = kept(r.results, FailedAfter(r, m))
          /\ Cardinality(Owed(r, p)) \in Nat
          /\ Cardinality(Owed(r, m)) = Cardinality(Owed(r, p))
               + IF r.results[m].channel = "in_app" THEN 0 ELSE 1
    <2>1. r \in CallType /\ Len(r.results) >= Len(r.targets)
      BY <1>5 DEF Typed, SecondPhase
    <2>2. kept(r.results, FailedAfter(r, p)) # <<>>
      BY <1>6
    <2>3. QED BY <1>6, <2>1, <2>2, NextPlace
  <1>8. /\ Len(r.results) - Len(r.targets) <= Cardinality(Owed(r, m))
        /\ r.inAppHealthy => Len(r.results) - Len(r.targets) = Cardinality(Owed(r, m))
    <2> DEFINE pushed == Len(r.results) - Len(r.targets)
               owed == Cardinality(Owed(r, p))
               then == Cardinality(Owed(r, m))
    <2>1. r.inAppHealthy => r.results[m].channel = "in_app"
      BY <1>7 DEF shouldFallbackToInApp
    <2>2. pushed \in Int
      BY Fields
    <2>3. /\ owed \in Nat /\ then = owed + IF r.results[m].channel = "in_app" THEN 0 ELSE 1
          /\ pushed <= owed
          /\ r.inAppHealthy => pushed = owed
      BY <1>6, <1>7
    <2> HIDE DEF pushed, owed, then
    <2>4. pushed <= then /\ (r.inAppHealthy => pushed = then)
      BY <2>1, <2>2, <2>3
    <2>5. QED BY <2>4 DEF pushed, then
  <1>9. \A q : FailedAfter(e, q) = FailedAfter(r, q) /\ Owed(e, q) = Owed(r, q)
    BY <1>1 DEF FailedAfter, Owed
  <1>10. m \in 0..Len(r.targets)
    OBVIOUS
  <1>11. SecondPhase(e)
    <2>1. /\ e.todo = kept(e.results, FailedAfter(e, m))
          /\ Len(e.results) - Len(e.targets) <= Cardinality(Owed(e, m))
          /\ e.inAppHealthy => Len(e.results) - Len(e.targets) = Cardinality(Owed(e, m))
      BY <1>1, <1>7, <1>8, <1>9
    <2>2. /\ Len(e.results) >= Len(e.targets)
          /\ \A i \in 1..Len(e.results) :
               /\ e.results[i].viaFallback <=> i > Len(e.targets)
               /\ e.results[i].channel = IF i <= Len(e.targets) THEN e.targets[i].type ELSE "in_app"
      BY <1>1, <1>5 DEF SecondPhase
    <2>3. m \in 0..Len(e.targets) /\ e.pc \notin {"send", "wait"}
      BY <1>1, <1>10
    <2>4. QED BY <2>1, <2>2, <2>3 DEF SecondPhase
  <1>12. CallOK(e)
    BY <1>1, <1>5, <1>11, SameResults
  <1>13. QED BY <1>1, <1>4, <1>12 DEF e

(* The next channel is tried, skipped, or fails for want of a transport. *)
LEMMA NextChannelStep ==
  ASSUME IInv, NEW d \in Calls, NextChannel(d)
  PROVE  IInv'
  <1> DEFINE r == call[d]
  <1>1. /\ Typed(r) /\ CallOK(r) /\ r \in CallType /\ SentOK(r, sends[d], received[d])
        /\ sends[d] \in Nat /\ r.pc = "next" /\ r.todo # <<>> /\ r.attempts = 0
    BY OneCall DEF NextChannel, CallOK
  <1>2. marker' = marker /\ sends' = sends /\ received' = received
    BY DEF NextChannel
  <1>3. /\ marker' \subseteq ChannelTypes \cup {"sms"} /\ sends' \in [Calls -> Nat]
        /\ received' \in [Calls -> SUBSET ChannelTypes]
        /\ \A x \in Calls : sends'[x] = sends[x] /\ received'[x] = received[x]
    BY <1>2, OneCall
  <1>4. SUFFICES ASSUME NEW e, call' = [call EXCEPT ![d] = e],
                        e = IF r.fallback
                            THEN IF shouldFallbackToInApp(Head(r.todo).channel, r.inAppHealthy)
                                 THEN [r EXCEPT !.pc = "send"]
                                 ELSE [r EXCEPT !.todo = Tail(@)]
                            ELSE IF hasTransport(Head(r.todo).type)
                                 THEN [r EXCEPT !.pc = "send"]
                                 ELSE ended(r, Head(r.todo).type, FALSE, 0)
                 PROVE  Typed(e) /\ CallOK(e) /\ SentOK(e, sends[d], received[d])
    BY <1>2, <1>3, CallChanges DEF NextChannel
  <1> HIDE DEF r
  <1>5. \/ Typed(e) /\ CallOK(e) /\ e.results = r.results /\ e.attempts = r.attempts
        \/ ~r.fallback /\ e = ended(r, Head(r.todo).type, FALSE, 0)
    <2>1. CASE r.fallback /\ shouldFallbackToInApp(Head(r.todo).channel, r.inAppHealthy)
      <3>1. Ready(r)
        BY <1>1, <2>1 DEF Ready, shouldFallbackToInApp
      <3>2. e = [r EXCEPT !.pc = "send"]
        BY <1>4, <2>1
      <3>3. QED BY <1>1, <3>1, <3>2, PcChanges
    <2>2. CASE r.fallback /\ ~shouldFallbackToInApp(Head(r.todo).channel, r.inAppHealthy)
      <3>1. e = [r EXCEPT !.todo = Tail(@)]
        BY <1>4, <2>2
      <3>2. QED BY <1>1, <2>2, <3>1, SkipOK
    <2>3. CASE ~r.fallback /\ hasTransport(Head(r.todo).type)
      <3>1. Ready(r)
        BY <1>1, <2>3 DEF Ready
      <3>2. e = [r EXCEPT !.pc = "send"]
        BY <1>4, <2>3
      <3>3. QED BY <1>1, <3>1, <3>2, PcChanges
    <2>4. CASE ~r.fallback /\ ~hasTransport(Head(r.todo).type)
      BY <1>4, <2>4
    <2>5. QED BY <2>1, <2>2, <2>3, <2>4
  <1>6. CASE Typed(e) /\ CallOK(e) /\ e.results = r.results /\ e.attempts = r.attempts
    BY <1>1, <1>6 DEF SentOK
  <1>7. CASE ~r.fallback /\ e = ended(r, Head(r.todo).type, FALSE, 0)
    <2> DEFINE type == Head(r.todo).type
    <2>1. Delivers(r, type)
      BY <1>1, <1>7 DEF Delivers
    <2>2. type \in ChannelTypes \cup {"sms"}
      <3>1. r.todo \in Seq(Channel)
        BY <1>1, <1>7, Fields
      <3>2. Head(r.todo) \in Channel
        BY <1>1, <3>1
      <3>3. QED BY <3>2 DEF Channel
    <2> HIDE DEF type
    <2>3. Typed(ended(r, type, FALSE, 0)) /\ CallOK(ended(r, type, FALSE, 0))
      <3>1. FALSE \in BOOLEAN /\ 0 \in Nat
        OBVIOUS
      <3>2. QED BY <1>1, <2>1, <3>1, EndedOK, Zenon
    <2>4. resultOf(r, type, FALSE, 0) \in Result
      BY <1>1, <2>2, Fields DEF resultOf, Result
    <2>5. sends[d] <= policy.maxAttempts * Len(r.results) + 0
      BY <1>1 DEF SentOK
    <2>6. 0 \in 0..policy.maxAttempts
      BY PolicyType
    <2>7. SentOK(ended(r, type, FALSE, 0), sends[d], received[d])
      BY <1>1, <2>4, <2>5, <2>6, EndedSent
    <2>8. QED BY <1>7, <2>3, <2>7 DEF type
  <1>8. QED BY <1>5, <1>6, <1>7

(* The channel a call is sending to. *)
LEMMA Current ==
  ASSUME IInv, NEW d \in Calls, call[d].pc = "send"
  PROVE  /\ Delivers(call[d], current(d).type) /\ current(d).type \in ChannelTypes
         /\ call[d].attempts + 1 \in 1..policy.maxAttempts
         /\ \A ok \in BOOLEAN :
              resultOf(call[d], current(d).type, ok, call[d].attempts + 1) \in Result
  <1> DEFINE r == call[d]
  <1>1. Typed(r) /\ Ready(r)
    BY OneCall, SendsAreReady
  <1>2. Delivers(r, current(d).type) /\ current(d).type \in ChannelTypes
    BY <1>1 DEF Delivers, Ready, current, InApp, hasTransport, ChannelTypes
  <1>3. r.attempts + 1 \in 1..policy.maxAttempts /\ r.fallback \in BOOLEAN
    BY <1>1, Fields, PolicyType
  <1>4. QED BY <1>2, <1>3 DEF resultOf, Result

(* A delivery ends after one more send. *)
LEMMA DeliveryEnds ==
  ASSUME IInv, NEW d \in Calls, call[d].pc = "send", NEW ok \in BOOLEAN,
         call' = [call EXCEPT ![d] =
                    ended(call[d], current(d).type, ok, call[d].attempts + 1)],
         sends' = [sends EXCEPT ![d] = @ + 1], marker' = marker,
         \/ received' = [received EXCEPT ![d] = @ \cup {current(d).type}]
         \/ received' = received /\ ~ok
  PROVE  IInv'
  <1> DEFINE r == call[d]
             type == current(d).type
             a == r.attempts + 1
             e == ended(r, type, ok, a)
  <1>1. /\ Typed(r) /\ CallOK(r) /\ r \in CallType /\ SentOK(r, sends[d], received[d])
        /\ sends[d] \in Nat /\ received[d] \subseteq ChannelTypes
        /\ marker' \subseteq ChannelTypes \cup {"sms"}
        /\ sends \in [Calls -> Nat] /\ received \in [Calls -> SUBSET ChannelTypes]
    BY OneCall
  <1>2. /\ Delivers(r, type) /\ type \in ChannelTypes /\ a \in 1..policy.maxAttempts
        /\ resultOf(r, type, ok, a) \in Result
    BY Current
  <1>3. /\ sends' \in [Calls -> Nat] /\ sends'[d] = sends[d] + 1
        /\ \A x \in Calls : x # d => sends'[x] = sends[x]
    BY <1>1
  <1>4. /\ received' \in [Calls -> SUBSET ChannelTypes]
        /\ \A x \in Calls : x # d => received'[x] = received[x]
        /\ received[d] \subseteq received'[d] /\ (ok => type \in received'[d])
    <2>1. CASE received' = [received EXCEPT ![d] = @ \cup {type}]
      <3>1. received'[d] = received[d] \cup {type} /\ received' \in [Calls -> SUBSET ChannelTypes]
        BY <1>1, <1>2, <2>1
      <3>2. \A x \in Calls : x # d => received'[x] = received[x]
        BY <1>1, <2>1
      <3>3. QED BY <3>1, <3>2
    <2>2. CASE received' = received /\ ~ok
      BY <1>1, <2>2
    <2>3. QED BY <2>1, <2>2
  <1> HIDE DEF type, a
  <1>5. Typed(e) /\ CallOK(e)
    <2>1. a \in Nat
      BY <1>2, PolicyType
    <2>2. QED BY <1>1, <1>2, <2>1, EndedOK
  <1>6. SentOK(e, sends'[d], received'[d])
    <2>1. a \in 0..policy.maxAttempts
      BY <1>2
    <2>2. sends'[d] \in Nat /\ sends'[d] <= policy.maxAttempts * Len(r.results) + a
      <3> DEFINE M == policy.maxAttempts
                 k == Len(r.results)
      <3>1. M \in Nat /\ k \in Nat /\ r.attempts \in Nat
        BY <1>1, PolicyType, Fields
      <3>2. sends[d] <= M * k + r.attempts
        BY <1>1 DEF SentOK
      <3> HIDE DEF M, k
      <3>3. PICK y \in Nat : y = M * k
        BY <3>1, RoomForSends
      <3>4. sends[d] + 1 \in Nat /\ sends[d] + 1 <= y + (r.attempts + 1)
        BY <1>1, <3>1, <3>2, <3>3
      <3>5. QED BY <1>3, <3>3, <3>4 DEF M, k, a
    <2> HIDE DEF r
    <2>3. QED BY <1>1, <1>2, <1>4, <2>1, <2>2, EndedSent
  <1>7. call' = [call EXCEPT ![d] = e]
    BY DEF type, a
  <1> HIDE DEF e
  <1>8. QED BY <1>1, <1>3, <1>4, <1>5, <1>6, <1>7, CallChanges

(* send() resolves. *)
LEMMA SendOkStep ==
  ASSUME IInv, NEW d \in Calls, SendOk(d)
  PROVE  IInv'
  BY DeliveryEnds DEF SendOk

(* send() throws: the call waits for a retry, or gives the channel up. *)
LEMMA SendFailsStep ==
  ASSUME IInv, NEW d \in Calls, SendFails(d)
  PROVE  IInv'
  <1> DEFINE r == call[d]
             e == [r EXCEPT !.pc = "wait", !.attempts = @ + 1,
                            !.waitMs = backoffDelayMs(r.attempts)]
  <1>1. /\ r.pc = "send" /\ marker' = marker /\ sends' = [sends EXCEPT ![d] = @ + 1]
        /\ \/ received' = [received EXCEPT ![d] = @ \cup {current(d).type}]
           \/ received' = received
    BY DEF SendFails
  <1>2. CASE isFinalAttempt(r.attempts + 1)
    <2>1. call' = [call EXCEPT ![d] = ended(r, current(d).type, FALSE, r.attempts + 1)]
      BY <1>2 DEF SendFails
    <2>2. QED BY <1>1, <2>1, DeliveryEnds
  <1>3. CASE ~isFinalAttempt(r.attempts + 1)
    <2>1. call' = [call EXCEPT ![d] = e]
      BY <1>3 DEF SendFails
    <2>2. /\ Typed(r) /\ CallOK(r) /\ r \in CallType /\ SentOK(r, sends[d], received[d])
          /\ sends[d] \in Nat /\ received[d] \subseteq ChannelTypes
          /\ marker' \subseteq ChannelTypes \cup {"sms"}
          /\ sends \in [Calls -> Nat] /\ received \in [Calls -> SUBSET ChannelTypes]
      BY <1>1, OneCall
    <2>3. /\ Delivers(r, current(d).type) /\ current(d).type \in ChannelTypes
      BY <1>1, Current
    <2>4. r.attempts \in Nat /\ r.attempts + 1 \in 0..policy.maxAttempts - 1
      <3>1. r.attempts \in 0..policy.maxAttempts - 1 /\ policy.maxAttempts \in Nat
        BY <2>2, Fields, PolicyType
      <3>2. r.attempts + 1 # policy.maxAttempts
        BY <1>3 DEF isFinalAttempt
      <3> HIDE DEF r
      <3>3. QED BY <3>1, <3>2
    <2>5. backoffDelayMs(r.attempts) \in 0..policy.maxDelayMs
      BY <2>4, BackoffType
    <2>6. /\ e.pc = "wait" /\ e.channels = r.channels /\ e.targets = r.targets
          /\ e.todo = r.todo /\ e.fallback = r.fallback /\ e.attempts = r.attempts + 1
          /\ e.inAppHealthy = r.inAppHealthy /\ e.results = r.results
      BY <2>2 DEF CallType
    <2>7. e \in CallType
      BY <2>2, <2>4, <2>5 DEF CallType
    <2>8. Ready(r)
      BY <1>1, <2>2, SendsAreReady
    <2> DEFINE now == sends[d] + 1
    <2>9. sends'[d] = now /\ sends' \in [Calls -> Nat]
          /\ \A x \in Calls : x # d => sends'[x] = sends[x]
      BY <1>1, <2>2
    <2>10. /\ received' \in [Calls -> SUBSET ChannelTypes]
           /\ \A x \in Calls : x # d => received'[x] = received[x]
           /\ received[d] \subseteq received'[d]
      BY <1>1, <2>2, <2>3
    <2> HIDE DEF e
    <2>11. Typed(e)
      BY <2>2, <2>6, <2>7 DEF Typed
    <2>12. CallOK(e)
      <3>1. IF e.fallback THEN SecondPhase(e) ELSE FirstPhase(e)
        BY <2>2, <2>6, <2>8, SamePhase
      <3>2. e.pc = "wait" /\ e.todo # <<>>
        BY <2>6, <2>8 DEF Ready
      <3>3. QED BY <2>2, <2>6, <3>1, <3>2, SameResults
    <2>13. SentOK(e, sends'[d], received'[d])
      <3> DEFINE M == policy.maxAttempts
                 k == Len(r.results)
                 room == M * k
      <3>1. M \in Nat /\ k \in Nat
        BY <2>2, PolicyType, Fields
      <3>2. room \in Nat
        <4> HIDE DEF M, k
        <4>1. QED BY <3>1
      <3>3. sends[d] <= room + r.attempts
        BY <2>2 DEF SentOK
      <3> HIDE DEF room
      <3>4. now <= room + (r.attempts + 1)
        <4> HIDE DEF r
        <4>1. QED BY <2>2, <2>4, <3>2, <3>3
      <3>5. now <= policy.maxAttempts * Len(e.results) + e.attempts
        BY <2>6, <3>4 DEF room, M, k
      <3>6. \A i \in 1..Len(e.results) :
              /\ e.results[i].ok => e.results[i].channel \in received'[d]
              /\ e.results[i].attempts <= policy.maxAttempts
        BY <2>2, <2>6, <2>10 DEF SentOK
      <3>7. QED BY <2>9, <3>5, <3>6 DEF SentOK
    <2>14. QED BY <2>1, <2>2, <2>9, <2>10, <2>11, <2>12, <2>13, CallChanges
  <1>4. QED BY <1>2, <1>3

(* The backoff timer fires. *)
LEMMA RetryStep ==
  ASSUME IInv, NEW d \in Calls, Retry(d)
  PROVE  IInv'
  <1> DEFINE r == call[d]
             e == [r EXCEPT !.pc = "send"]
  <1>1. /\ r.pc = "wait" /\ call' = [call EXCEPT ![d] = e]
        /\ marker' = marker /\ sends' = sends /\ received' = received
    BY DEF Retry
  <1>2. /\ Typed(r) /\ CallOK(r) /\ SentOK(r, sends[d], received[d])
        /\ marker' \subseteq ChannelTypes \cup {"sms"}
        /\ sends' \in [Calls -> Nat] /\ received' \in [Calls -> SUBSET ChannelTypes]
    BY <1>1, OneCall
  <1>3. Typed(e) /\ CallOK(e) /\ e.results = r.results /\ e.attempts = r.attempts
    BY <1>1, <1>2, SendsAreReady, PcChanges
  <1> HIDE DEF e
  <1>4. SentOK(e, sends'[d], received'[d])
    BY <1>1, <1>2, <1>3 DEF SentOK
  <1>5. QED BY <1>1, <1>2, <1>3, <1>4, CallChanges

(* The failed channel is noted in Redis, or is not. *)
LEMMA RecordFailureStep ==
  ASSUME IInv, NEW d \in Calls, RecordFailure(d)
  PROVE  IInv'
  <1> DEFINE r == call[d]
             e == [r EXCEPT !.pc = "next"]
  <1>1. /\ r.pc = "record" /\ call' = [call EXCEPT ![d] = e]
        /\ marker' \in {marker, marker \cup {r.results[Len(r.results)].channel}}
        /\ sends' = sends /\ received' = received
    BY DEF RecordFailure
  <1>2. /\ Typed(r) /\ CallOK(r) /\ SentOK(r, sends[d], received[d])
        /\ marker \subseteq ChannelTypes \cup {"sms"}
        /\ sends' \in [Calls -> Nat] /\ received' \in [Calls -> SUBSET ChannelTypes]
    BY <1>1, OneCall
  <1>3. Typed(e) /\ CallOK(e) /\ e.results = r.results /\ e.attempts = r.attempts
    BY <1>1, <1>2, PcChanges
  <1>4. r.results[Len(r.results)] \in Result
    <2>1. r.results \in Seq(Result) /\ r.results # <<>>
      BY <1>1, <1>2, Fields DEF CallOK
    <2>2. QED BY <2>1
  <1>5. marker' \subseteq ChannelTypes \cup {"sms"}
    BY <1>1, <1>2, <1>4 DEF Result
  <1> HIDE DEF e
  <1>6. SentOK(e, sends'[d], received'[d])
    BY <1>1, <1>2, <1>3 DEF SentOK
  <1>7. QED BY <1>1, <1>2, <1>3, <1>5, <1>6, CallChanges

(* The first phase is over: no fallback is owed yet. *)
LEMMA TurnsToFallbacks ==
  ASSUME NEW r, Typed(r), CallOK(r), r.pc = "next", ~r.fallback, r.todo = <<>>
  PROVE  LET e == [r EXCEPT !.fallback = TRUE, !.todo = failedPrimaries(r.results)]
         IN  /\ Typed(e) /\ CallOK(e)
             /\ e.results = r.results /\ e.attempts = r.attempts
  <1> DEFINE todo == failedPrimaries(r.results)
             e == [r EXCEPT !.fallback = TRUE, !.todo = todo]
             n == Len(r.results)
  <1>1. /\ r \in CallType /\ r.results \in Seq(Result) /\ n \in Nat
        /\ DOMAIN r.results = 1..n
    BY Fields
  <1>2. FirstPhase(r) /\ r.attempts = 0
    BY DEF CallOK
  <1>3. n = Len(r.targets)
    <2>1. Len(r.todo) = 0 /\ n + Len(r.todo) = Len(r.targets) /\ Len(r.targets) \in Nat
      BY <1>2, Fields DEF FirstPhase
    <2>2. QED BY <1>1, <2>1
  <1>4. todo = kept(r.results, FailedAfter(r, 0))
    <2>1. {i \in DOMAIN r.results : ~r.results[i].ok /\ ~r.results[i].viaFallback}
            = FailedAfter(r, 0)
      BY <1>1, <1>2, <1>3 DEF FailedAfter, FirstPhase
    <2>2. QED BY <2>1 DEF failedPrimaries
  <1>5. todo \in Seq(Result)
    <2>1. FailedAfter(r, 0) \in SUBSET (1..Len(r.results))
      BY <1>3 DEF FailedAfter
    <2>2. QED BY <1>1, <1>4, <2>1, KeptEntries
  <1> HIDE DEF todo
  <1>6. /\ e.pc = "next" /\ e.channels = r.channels /\ e.targets = r.targets
        /\ e.todo = todo /\ e.fallback = TRUE /\ e.attempts = 0
        /\ e.inAppHealthy = r.inAppHealthy /\ e.results = r.results
    BY <1>1, <1>2 DEF CallType
  <1>7. e \in CallType
    BY <1>1, <1>5 DEF CallType
  <1> HIDE DEF e
  <1>8. Typed(e)
    BY <1>5, <1>6, <1>7 DEF Typed
  <1>9. SecondPhase(e)
    <2>1. Owed(e, 0) = {} /\ FailedAfter(e, 0) = FailedAfter(r, 0)
      BY <1>6 DEF Owed, FailedAfter
    <2>2. Cardinality(Owed(e, 0)) = 0
      BY <2>1, FS_EmptySet
    <2>2a. /\ Len(e.results) - Len(e.targets) = 0 /\ Len(e.results) >= Len(e.targets)
           /\ 0 \in 0..Len(e.targets)
      <3>1. Len(e.results) = n /\ Len(e.targets) = n
        BY <1>3, <1>6
      <3> HIDE DEF n
      <3>2. QED BY <1>1, <3>1
    <2>2b. /\ Len(e.results) - Len(e.targets) <= Cardinality(Owed(e, 0))
           /\ e.inAppHealthy => Len(e.results) - Len(e.targets) = Cardinality(Owed(e, 0))
      <3>1. Len(e.results) - Len(e.targets) = Cardinality(Owed(e, 0))
        BY <2>2, <2>2a, Zenon
      <3>2. 0 <= 0
        OBVIOUS
      <3>3. QED BY <2>2, <2>2a, <3>1, <3>2, Zenon
    <2>3. \A i \in 1..Len(e.results) :
            /\ e.results[i].viaFallback <=> i > Len(e.targets)
            /\ e.results[i].channel = IF i <= Len(e.targets) THEN e.targets[i].type ELSE "in_app"
      BY <1>1, <1>2, <1>3, <1>6 DEF FirstPhase
    <2>4. e.todo = kept(e.results, FailedAfter(e, 0))
      BY <1>4, <1>6, <2>1
    <2>5. QED BY <1>6, <2>2a, <2>2b, <2>3, <2>4 DEF SecondPhase
  <1>10. CallOK(e)
    BY <1>2, <1>6, <1>9, SameResults
  <1>11. QED BY <1>2, <1>6, <1>8, <1>10 DEF e, todo

(* A phase ends. *)
LEMMA PhaseEndsStep ==
  ASSUME IInv, NEW d \in Calls, PhaseEnds(d)
  PROVE  IInv'
  <1> DEFINE r == call[d]
  <1>1. /\ r.pc = "next" /\ r.todo = <<>>
        /\ marker' = marker /\ sends' = sends /\ received' = received
    BY DEF PhaseEnds
  <1>2. /\ Typed(r) /\ CallOK(r) /\ SentOK(r, sends[d], received[d])
        /\ marker' \subseteq ChannelTypes \cup {"sms"}
        /\ sends' \in [Calls -> Nat] /\ received' \in [Calls -> SUBSET ChannelTypes]
    BY <1>1, OneCall
  <1>3. SUFFICES ASSUME NEW e, call' = [call EXCEPT ![d] = e],
                        e = IF r.fallback THEN [r EXCEPT !.pc = "done"]
                            ELSE [r EXCEPT !.fallback = TRUE,
                                           !.todo = failedPrimaries(r.results)]
                 PROVE  IInv'
    BY DEF PhaseEnds
  <1>4. Typed(e) /\ CallOK(e) /\ e.results = r.results /\ e.attempts = r.attempts
    <2> HIDE DEF r
    <2>1. CASE r.fallback
      BY <1>1, <1>2, <1>3, <2>1, PcChanges
    <2>2. CASE ~r.fallback
      BY <1>1, <1>2, <1>3, <2>2, TurnsToFallbacks
    <2>3. QED BY <2>1, <2>2
  <1>5. SentOK(e, sends'[d], received'[d])
    BY <1>1, <1>2, <1>4 DEF SentOK
  <1>6. QED BY <1>1, <1>2, <1>3, <1>4, <1>5, CallChanges

(* Every step keeps the invariant. *)
LEMMA NextIInv == IInv /\ [Next]_vars => IInv'
  <1>1. CASE UNCHANGED vars
    BY <1>1 DEF vars, IInv, Types
  <1>2. ASSUME IInv, Next PROVE IInv'
    <2>1. PICK d \in Calls : Begin(d) \/ Step(d)
      BY <1>2 DEF Next
    <2>2. QED BY <1>2, <2>1, BeginStep, NextChannelStep, SendOkStep, SendFailsStep,
                 RetryStep, RecordFailureStep, PhaseEndsStep DEF Step
  <1>3. QED BY <1>1, <1>2

(* It holds throughout. *)
LEMMA Inductive == Spec => []IInv
  BY InitIInv, NextIInv, PTL DEF Spec

-----------------------------------------------------------------------------
(* What the invariant gives. *)

(* The type invariant: every call that is in flight has a well-formed list *)
(* of results, a delay within the policy and an attempt left to make.      *)
THEOREM TypeCorrect == Spec => []TypeOK
  <1>1. IInv => TypeOK
    <2> SUFFICES ASSUME IInv PROVE TypeOK
      OBVIOUS
    <2>1. ASSUME NEW d \in Calls
          PROVE  /\ call[d] \in CallType
                 /\ call[d].todo \in Seq(IF call[d].fallback THEN Result ELSE Channel)
      BY OneCall DEF Typed
    <2>2. QED BY <2>1 DEF TypeOK, IInv, Types, CallType
  <1>2. QED BY <1>1, Inductive, PTL

(* The results of the targets are the first Len(targets) of a call that is  *)
(* through, and those of the fallbacks the others.                          *)
LEMMA DoneParts ==
  ASSUME NEW r, Typed(r), CallOK(r), r.pc = "done"
  PROVE  /\ primaries(r.results) = 1..Len(r.targets)
         /\ fallbacks(r.results) = Len(r.targets) + 1..Len(r.results)
         /\ Len(r.targets) <= Len(r.results) /\ r.fallback /\ SecondPhase(r)
  <1> DEFINE n == Len(r.results)
             all == Len(r.targets)
  <1>1. /\ DOMAIN r.results = 1..n /\ n \in Nat /\ all \in Nat
    BY Fields
  <1>2. r.fallback /\ SecondPhase(r)
    BY DEF CallOK
  <1>3. n >= all /\ \A i \in 1..n : r.results[i].viaFallback <=> i > all
    BY <1>2 DEF SecondPhase
  <1>4. /\ primaries(r.results) = {i \in 1..n : ~(i > all)}
        /\ fallbacks(r.results) = {i \in 1..n : i > all}
    BY <1>1, <1>3 DEF primaries, fallbacks
  <1>5. {i \in 1..n : ~(i > all)} = 1..all /\ {i \in 1..n : i > all} = all + 1..n
    <2> HIDE DEF n, all
    <2>1. QED BY <1>1, <1>3
  <1>6. all <= n
    <2> HIDE DEF n, all
    <2>1. QED BY <1>1, <1>3
  <1>7. QED BY <1>2, <1>4, <1>5, <1>6

(* P37 of the dispatcher: a call that is through has sent to each of its    *)
(* channels exactly once, in their order, whatever repeats the list had.    *)
THEOREM FanOutExact == Spec => []ExactFanOut
  <1>1. ASSUME IInv, NEW d \in Calls, call[d].pc = "done"
        PROVE  LET channels == call[d].channels
                   done     == kept(call[d].results, primaries(call[d].results))
               IN  /\ Len(done) = Cardinality(Firsts(channels))
                   /\ \A i \in Firsts(channels) :
                        done[Rank(Firsts(channels), i)].channel = channels[i].type
    <2> DEFINE r == call[d]
               all == Len(r.targets)
               firsts == Firsts(r.channels)
               done == kept(r.results, primaries(r.results))
    <2>1. /\ Typed(r) /\ CallOK(r) /\ r.results \in Seq(Result) /\ all \in Nat
          /\ Len(r.results) \in Nat /\ r.channels \in ChannelLists \cup {<<>>}
      BY <1>1, OneCall, Fields DEF CallType
    <2>2. /\ primaries(r.results) = 1..all /\ all <= Len(r.results) /\ SecondPhase(r)
      BY <1>1, <2>1, DoneParts
    <2>3. Len(done) = all /\ \A i \in 1..all : done[i] = r.results[i]
      <3> DEFINE s == r.results
      <3>1. s \in Seq(Result) /\ all \in 0..Len(s)
        BY <2>1, <2>2
      <3> HIDE DEF s, all
      <3>2. Len(kept(s, 1..all)) = all /\ \A i \in 1..all : kept(s, 1..all)[i] = s[i]
        BY <3>1, KeptPrefix
      <3>3. QED BY <2>2, <3>2 DEF s
    <2>4. /\ r.targets = fanOutChannels(r.channels) /\ all = Cardinality(firsts)
          /\ \A i \in firsts : r.targets[Rank(firsts, i)] = r.channels[i]
      <3>1. r.targets = fanOutChannels(r.channels)
        BY <2>1 DEF CallOK
      <3>2. r.channels \in Seq(Channel)
        BY <2>1, ListsOfChannels
      <3>3. QED BY <3>1, <3>2, FanOutEntries
    <2>5. \A i \in firsts : Rank(firsts, i) \in 1..all
      <3>1. Len(r.channels) \in Nat /\ firsts \in SUBSET (1..Len(r.channels))
        BY <2>1, ListsOfChannels DEF Firsts
      <3> HIDE DEF firsts
      <3>2. QED BY <2>4, <3>1, PlacesFinite
    <2>6. \A i \in 1..all : r.results[i].channel = r.targets[i].type
      <3>1. \A i \in 1..all : i \in 1..Len(r.results) /\ i <= all
        <4> HIDE DEF all, r
        <4>1. QED BY <2>1, <2>2
      <3>2. QED BY <2>2, <3>1 DEF SecondPhase
    <2> HIDE DEF done, firsts, r
    <2>7. \A i \in firsts : done[Rank(firsts, i)].channel = r.channels[i].type
      BY <2>3, <2>4, <2>5, <2>6
    <2>8. Len(done) = Cardinality(firsts)
      BY <2>3, <2>4
    <2>9. QED BY <2>7, <2>8 DEF done, firsts, r
  <1>2. IInv => ExactFanOut
    BY <1>1 DEF ExactFanOut, Firsts, Rank
  <1>3. QED BY <1>2, Inductive, PTL

(* 15.5 and 15.6: no fallback follows a failed in-app delivery, and unless  *)
(* there was one a call that is through has pushed in-app once for every    *)
(* other channel that failed, and never more often.                         *)
THEOREM FallbacksInAppWorks == Spec => []FallbackWhileInAppWorks
  <1>1. ASSUME IInv, NEW d \in Calls
        PROVE  \A i, j \in DOMAIN call[d].results :
                 i < j /\ call[d].results[i].channel = "in_app" /\ ~call[d].results[i].ok
                   => ~call[d].results[j].viaFallback
    <2>1. CallOK(call[d]) /\ DOMAIN call[d].results = 1..Len(call[d].results)
      BY <1>1, OneCall, Fields
    <2>2. QED BY <2>1 DEF CallOK, Down
  <1>2. ASSUME IInv, NEW d \in Calls, call[d].pc = "done"
        PROVE  LET results == call[d].results
                   pushed == Cardinality(fallbacks(results))
                   failed == Cardinality({i \in primaries(results) :
                                  ~results[i].ok /\ results[i].channel # "in_app"})
               IN  /\ pushed <= failed
                   /\ \/ pushed = failed
                      \/ \E i \in DOMAIN results :
                           results[i].channel = "in_app" /\ ~results[i].ok
    <2> DEFINE r == call[d]
               n == Len(r.results)
               all == Len(r.targets)
               failed == {i \in primaries(r.results) :
                            ~r.results[i].ok /\ r.results[i].channel # "in_app"}
    <2>1. /\ Typed(r) /\ CallOK(r) /\ r.results \in Seq(Result) /\ all \in Nat /\ n \in Nat
          /\ DOMAIN r.results = 1..n
      BY <1>2, OneCall, Fields
    <2>2. /\ primaries(r.results) = 1..all /\ fallbacks(r.results) = all + 1..n
          /\ all <= n /\ SecondPhase(r)
      BY <1>2, <2>1, DoneParts
    <2>3. Cardinality(fallbacks(r.results)) = n - all
      <3> HIDE DEF n, all
      <3>1. all + 1 \in Int /\ n \in Int
        BY <2>1
      <3>2. Cardinality(all + 1..n) = IF all + 1 > n THEN 0 ELSE n - (all + 1) + 1
        BY <3>1, FS_Interval
      <3>3. (IF all + 1 > n THEN 0 ELSE n - (all + 1) + 1) = n - all
        BY <2>1, <2>2
      <3>4. QED BY <2>2, <3>2, <3>3
    <2>4. PICK p \in 0..all :
            /\ r.todo = kept(r.results, FailedAfter(r, p))
            /\ n - all <= Cardinality(Owed(r, p))
            /\ r.inAppHealthy => n - all = Cardinality(Owed(r, p))
      BY <2>2 DEF SecondPhase
    <2>5. FailedAfter(r, p) = {}
      <3>1. r.todo = <<>>
        BY <1>2, <2>1 DEF CallOK
      <3>2. FailedAfter(r, p) \in SUBSET (1..n)
        <4>1. \A i \in 1..all : i \in 1..n
          <5> HIDE DEF n, all
          <5>1. QED BY <2>1, <2>2
        <4>2. QED BY <4>1 DEF FailedAfter
      <3> DEFINE s == r.results
      <3>3. s \in Seq(Result) /\ FailedAfter(r, p) \in SUBSET (1..Len(s)) /\ kept(s, FailedAfter(r, p)) = <<>>
        BY <2>1, <2>4, <3>1, <3>2
      <3> HIDE DEF s
      <3>4. QED BY <3>3, KeptNone
    <2>6. failed = Owed(r, p)
      <3>1. \A i \in 1..all : ~r.results[i].ok => i <= p
        <4> SUFFICES ASSUME NEW i \in 1..all, ~r.results[i].ok, ~(i <= p) PROVE FALSE
          OBVIOUS
        <4>1. i > p
          OBVIOUS
        <4>2. QED BY <2>5, <4>1 DEF FailedAfter
      <3>2. QED BY <2>2, <3>1 DEF Owed
    <2>7. \/ r.inAppHealthy
          \/ \E i \in DOMAIN r.results : r.results[i].channel = "in_app" /\ ~r.results[i].ok
      BY <2>1 DEF CallOK, Down
    <2> HIDE DEF failed
    <2>8. /\ Cardinality(fallbacks(r.results)) <= Cardinality(failed)
          /\ r.inAppHealthy => Cardinality(fallbacks(r.results)) = Cardinality(failed)
      BY <2>3, <2>4, <2>6, Zenon
    <2>9. QED BY <2>7, <2>8, Zenon DEF failed
  <1>3. IInv => FallbackWhileInAppWorks
    BY <1>1, <1>2 DEF FallbackWhileInAppWorks
  <1>4. QED BY <1>3, Inductive, PTL

(* A call never has more results than two for each of its targets, and     *)
(* while it is sending there is room for one more.                         *)
LEMMA RoomLeft ==
  ASSUME NEW r, Typed(r), CallOK(r)
  PROVE  /\ Len(r.results) <= 2 * Len(r.targets)
         /\ r.attempts > 0 => Len(r.results) + 1 <= 2 * Len(r.targets)
  <1> DEFINE n == Len(r.results)
             all == Len(r.targets)
             left == Len(r.todo)
  <1>1. /\ r \in CallType /\ n \in Nat /\ all \in Nat /\ r.attempts \in Nat
        /\ left \in Nat /\ (r.todo # <<>> => left > 0)
    <2>1. r.todo \in Seq(IF r.fallback THEN Result ELSE Channel)
      BY Fields
    <2>2. left \in Nat /\ (r.todo # <<>> => left > 0)
      BY <2>1
    <2>3. r.attempts \in Nat
      BY Fields, PolicyType
    <2>4. QED BY <2>2, <2>3, Fields
  <1>2. r.attempts > 0 => r.todo # <<>>
    BY DEF CallOK
  <1>3. CASE ~r.fallback
    <2>1. n + left = all
      BY <1>3 DEF CallOK, FirstPhase
    <2> HIDE DEF n, all, left
    <2>2. n <= 2 * all /\ (r.attempts > 0 => n + 1 <= 2 * all)
      BY <1>1, <1>2, <2>1
    <2>3. QED BY <2>2 DEF n, all
  <1>4. CASE r.fallback
    <2>1. SecondPhase(r)
      BY <1>4 DEF CallOK
    <2>2. PICK p \in 0..all :
            /\ r.todo = kept(r.results, FailedAfter(r, p))
            /\ n - all <= Cardinality(Owed(r, p))
      BY <2>1 DEF SecondPhase
    <2> DEFINE owed == Cardinality(Owed(r, p))
    <2>3. owed \in 0..p
      <3>1. Owed(r, p) \in SUBSET (1..p)
        BY <1>1 DEF Owed
      <3>2. p \in Nat
        BY <1>1
      <3>3. QED BY <3>1, <3>2, PlacesFinite
    <2>4. r.todo # <<>> => p + 1 <= all
      <3>1. SUFFICES ASSUME r.todo # <<>> PROVE p + 1 <= all
        OBVIOUS
      <3>2. n >= all
        BY <2>1 DEF SecondPhase
      <3>3. PICK m \in 1..all : m > p
        BY <1>1, <2>2, <3>1, <3>2, NextPlace
      <3> HIDE DEF all
      <3>4. QED BY <1>1, <3>3
    <2>5. n - all <= owed
      BY <2>2
    <2> HIDE DEF n, all, left, owed
    <2>6. n <= 2 * all /\ (r.attempts > 0 => n + 1 <= 2 * all)
      BY <1>1, <1>2, <2>3, <2>4, <2>5
    <2>7. QED BY <2>6 DEF n, all
  <1>5. QED BY <1>1, <1>3, <1>4, Fields

(* Products grow with their factors. *)
LEMMA MoreRoom ==
  ASSUME NEW M \in Nat, NEW k \in Nat, NEW l \in Nat, k <= l
  PROVE  M * k \in Nat /\ M * l \in Nat /\ M * k <= M * l
  <1>1. PICK x \in Nat : l = k + x
    <2>1. l - k \in Nat /\ l = k + (l - k)
      OBVIOUS
    <2>2. QED BY <2>1
  <1>2. M * l = M * k + M * x /\ M * x \in Nat /\ M * k \in Nat
    BY <1>1
  <1>3. PICK y \in Nat, z \in Nat : y = M * k /\ z = M * x
    BY <1>2
  <1>4. QED BY <1>2, <1>3

(* What a call reports delivered did arrive, and all of its sends together  *)
(* are no more than the policy allows for two deliveries to each target.    *)
THEOREM ReportsTrue == Spec => []ReportsAreTrue
  <1>1. ASSUME IInv, NEW d \in Calls
        PROVE  sends[d] <= policy.maxAttempts * 2 * Len(call[d].targets)
    <2> DEFINE r == call[d]
               M == policy.maxAttempts
               n == Len(r.results)
               all == Len(r.targets)
    <2>1. /\ Typed(r) /\ CallOK(r) /\ SentOK(r, sends[d], received[d]) /\ sends[d] \in Nat
          /\ n \in Nat /\ all \in Nat /\ r.attempts \in 0..M - 1
      BY <1>1, OneCall, Fields
    <2>2. n <= 2 * all /\ (r.attempts > 0 => n + 1 <= 2 * all)
      BY <2>1, RoomLeft
    <2>3. sends[d] <= M * n + r.attempts
      BY <2>1 DEF SentOK
    <2>4. M \in Nat \ {0}
      BY PolicyType
    <2> HIDE DEF M, n, all, r
    <2>5. 2 * all \in Nat /\ M * (2 * all) = M * 2 * all
      BY <2>1, <2>4
    <2>6. CASE r.attempts = 0
      <3>1. M * n \in Nat /\ M * (2 * all) \in Nat /\ M * n <= M * (2 * all)
        BY <2>1, <2>2, <2>4, <2>5, MoreRoom
      <3>2. PICK y \in Nat, z \in Nat : y = M * n /\ z = M * (2 * all)
        BY <3>1
      <3>3. sends[d] <= z
        BY <2>1, <2>3, <2>6, <3>1, <3>2
      <3>4. QED BY <2>5, <3>2, <3>3 DEF M, all, r
    <2>7. CASE r.attempts > 0
      <3>1. /\ M * n \in Nat /\ M * (n + 1) \in Nat /\ M * n + r.attempts <= M * (n + 1)
        BY <2>1, <2>4, RoomForSends
      <3>2. M * (2 * all) \in Nat /\ M * (n + 1) <= M * (2 * all)
        BY <2>1, <2>2, <2>4, <2>5, <2>7, MoreRoom
      <3>3. PICK x \in Nat, y \in Nat, z \in Nat :
              x = M * n /\ y = M * (n + 1) /\ z = M * (2 * all)
        BY <3>1, <3>2
      <3>4. sends[d] <= z
        BY <2>1, <2>3, <3>1, <3>2, <3>3
      <3>5. QED BY <2>5, <3>3, <3>4 DEF M, all, r
    <2>8. r.attempts \in Nat
      BY <2>1, <2>4
    <2>9. QED BY <2>6, <2>7, <2>8
  <1>2. ASSUME IInv, NEW d \in Calls
        PROVE  \A i \in DOMAIN call[d].results :
                 /\ call[d].results[i].ok => call[d].results[i].channel \in received[d]
                 /\ call[d].results[i].attempts <= policy.maxAttempts
    <2>1. /\ SentOK(call[d], sends[d], received[d])
          /\ DOMAIN call[d].results = 1..Len(call[d].results)
      BY <1>2, OneCall, Fields
    <2>2. QED BY <2>1 DEF SentOK
  <1>3. Spec => [](IInv /\ TypeOK)
    BY Inductive, TypeCorrect, PTL
  <1>4. IInv /\ TypeOK => ReportsAreTrue
    BY <1>1, <1>2 DEF ReportsAreTrue
  <1>5. QED BY <1>3, <1>4, PTL
=============================================================================
