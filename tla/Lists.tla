------------------------------- MODULE Lists --------------------------------
(***************************************************************************)
(* Lists as the code sorts and filters them, in closed form: an element's  *)
(* place is the number of those that come before it.                       *)
(***************************************************************************)
EXTENDS Naturals, Sequences, FiniteSets

\* The elements of a finite set, from the first to the last in the order R.
Ordered(K, R) ==
    [n \in 1..Cardinality(K) |-> CHOOSE k \in K : Cardinality({j \in K : <<j, k>> \in R}) = n - 1]

\* The elements of a list at the positions K, in the order R of the positions.
Arranged(list, K, R) == [n \in 1..Cardinality(K) |-> list[Ordered(K, R)[n]]]

\* filter and retain: the elements at the positions K.
Selected(list, K) == Arranged(list, K, {pair \in K \X K : pair[1] < pair[2]})

\* sort_by_key, stable; the key of each position is a number.
Stably(K, key) ==
    {pair \in K \X K : \/ key[pair[1]] < key[pair[2]]
                       \/ key[pair[1]] = key[pair[2]] /\ pair[1] < pair[2]}

Sorted(list, key) == Arranged(list, DOMAIN list, Stably(DOMAIN list, key))
=============================================================================
