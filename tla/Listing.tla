------------------------------- MODULE Listing -------------------------------
(***************************************************************************)
(* What list comprehensions and sorted() give, said without recursion: the *)
(* provers cannot look into SelectSeq and SortSeq.                         *)
(***************************************************************************)
EXTENDS Naturals, FiniteSets

\* The members of s at the given places, in the order <= (a set of pairs).
Listed(s, places, Order) ==
  [n \in 1..Cardinality(places) |->
     s[CHOOSE j \in places : Cardinality({i \in places : <<i, j>> \in Order}) = n]]

\* [x for x in s if ...]: the members of s at the given places, in their order.
Kept(s, places) == Listed(s, places, {p \in places \X places : p[1] <= p[2]})
=============================================================================
