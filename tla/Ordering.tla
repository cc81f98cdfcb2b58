------------------------------ MODULE Ordering ------------------------------
(***************************************************************************)
(* sorted(items, key=worth, reverse=True) of Python, as the reports use it: *)
(* the largest first, and equal ones in the order they had.  `worth` has   *)
(* the number each item is sorted by; an item that has none is left out.   *)
(***************************************************************************)
EXTENDS Integers, FiniteSets

Ahead(worth, i, j) == worth[i] > worth[j] \/ (worth[i] = worth[j] /\ i < j)

\* How many come before i.
Place(worth, i) == Cardinality({j \in DOMAIN worth : Ahead(worth, j, i)})

\* The index of the item that comes p-th.
Order(worth) ==
  [p \in 1 .. Cardinality(DOMAIN worth) |-> CHOOSE i \in DOMAIN worth : Place(worth, i) = p - 1]

Descending(s, worth) == LET order == Order(worth) IN [p \in DOMAIN order |-> s[order[p]]]

\* [x for x in items if ...]: the items of s that stand at a place in I.
Among(s, I) == Descending(s, [i \in I |-> 0])
=============================================================================
