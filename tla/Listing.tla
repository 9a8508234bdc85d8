------------------------------- MODULE Listing -------------------------------
(* The loops that go through a list and pass some of its entries on: which     *)
(* entries is a set of indexes, and their order is that of the list.           *)
EXTENDS Naturals, FiniteSets

\* The sequences that have the numbers of S, in their order.
Listings(S) ==
  {s \in [1..Cardinality(S) -> S] : \A i, k \in 1..Cardinality(S) : i < k => s[i] < s[k]}

\* For a finite S there is one.
Listing(S) == CHOOSE s \in Listings(S) : TRUE
==============================================================================
