----------------------------- MODULE Selections -----------------------------
(***************************************************************************)
(* What a database or an array method selects: the entries of a list that  *)
(* a filter keeps, the members of a set in the order they are sorted into. *)
(***************************************************************************)
EXTENDS Integers, Sequences, FiniteSets

(* A filter: the entries of s at the given places, in order. *)
kept(s, places) ==
  [n \in 1..Cardinality(places) |->
     s[CHOOSE p \in places : Cardinality({q \in places : q <= p}) = n]]

(* A sort: the members of S, those before another first; `before` holds the *)
(* pairs of members the first of which comes first.                         *)
inOrder(S, before) ==
  [n \in 1..Cardinality(S) |->
     CHOOSE d \in S : Cardinality({e \in S : e = d \/ <<e, d>> \in before}) = n]
=============================================================================
