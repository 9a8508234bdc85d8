---------------------------- MODULE ListingProofs ----------------------------
(***************************************************************************)
(* Any set of indexes has a listing, and the listing has all of them.  The *)
(* induction over the indexes goes by a smallest counterexample.           *)
(***************************************************************************)
EXTENDS Listing, FiniteSetTheorems, WellFoundedInduction, TLAPS

\* A set of numbers that is not empty has a smallest one.
LEMMA Smallest ==
  ASSUME NEW T \in SUBSET Nat, T # {}
  PROVE  \E x \in T : \A y \in T : x <= y
<1>1. PICK t \in T : TRUE
  OBVIOUS
<1> DEFINE Family == {1..m : m \in {n \in T : n <= t}}
           R == StrictSubsetOrdering(1..t)
<1>2. IsFiniteSet(1..t)
  BY FS_Interval
<1>3. FiniteSubsetsOf(1..t) = SUBSET (1..t)
  BY <1>2, FS_FiniteSubsetsOfFinite
<1>4. IsWellFoundedOn(R, SUBSET (1..t))
  BY <1>3, FS_StrictSubsetOrderingWellFounded
<1>5. Family \subseteq SUBSET (1..t) /\ Family # {}
  OBVIOUS
<1>6. PICK I \in Family : \A J \in Family : ~(<<J, I>> \in R)
  BY <1>4, <1>5, WFMin
<1>7. PICK x \in {n \in T : n <= t} : I = 1..x
  BY <1>6
<1>8. ASSUME NEW y \in T, ~(x <= y) PROVE FALSE
  <2>1. y \in Nat /\ x \in Nat /\ y < x /\ y <= t
    BY <1>7, <1>8
  <2>2. 1..y \in Family
    BY <1>8, <2>1
  <2>3. (1..y) \subseteq (1..x) /\ x \in 1..x /\ x \notin 1..y
    BY <2>1
  <2>4. <<1..y, 1..x>> \in R
    BY <1>5, <1>7, <2>2, <2>3 DEF StrictSubsetOrdering
  <2>5. QED
    BY <1>6, <1>7, <2>2, <2>4
<1>9. QED
  BY <1>7, <1>8

\* Any set of indexes can be listed in its order.
LEMMA CanBeListed ==
  ASSUME NEW n \in Nat, NEW S \in SUBSET (1..n)
  PROVE  Listings(S) # {}
<1> DEFINE Bad == {m \in Nat : \E U \in SUBSET (1..m) : Listings(U) = {}}
<1>1. SUFFICES ASSUME n \in Bad PROVE FALSE
  OBVIOUS
<1>2. PICK m \in Bad : \A y \in Bad : m <= y
  BY <1>1, Smallest
<1>3. PICK U \in SUBSET (1..m) : Listings(U) = {}
  BY <1>2
<1>4. m \in Nat /\ IsFiniteSet(U)
  <2>1. m \in Nat
    BY <1>2
  <2>2. IsFiniteSet(1..m)
    BY <2>1, FS_Interval
  <2>3. QED
    BY <2>1, <2>2, FS_Subset
<1>5. CASE m \notin U
  <2>1. CASE m = 0
    <3>0. U = {}
      BY <2>1
    <3>1. U = {} /\ Cardinality(U) = 0
      BY <3>0, FS_EmptySet
    <3>2. [i \in 1..0 |-> i] \in Listings(U)
      BY <3>1 DEF Listings
    <3>3. QED
      BY <1>3, <3>2
  <2>2. CASE m # 0
    <3>1. U \in SUBSET (1..(m - 1)) /\ m - 1 \in Nat
      BY <1>4, <1>5, <2>2
    <3>2. m - 1 \in Bad
      BY <1>3, <3>1
    <3>3. QED
      BY <1>2, <1>4, <3>2
  <2>3. QED
    BY <2>1, <2>2
<1>6. CASE m \in U
  <2> DEFINE V == U \ {m}
             c == Cardinality(V)
  <2>1. m # 0 /\ V \in SUBSET (1..(m - 1)) /\ m - 1 \in Nat
    BY <1>4, <1>6
  <2>2. Listings(V) # {}
    <3>1. m - 1 \notin Bad
      BY <1>2, <1>4
    <3>2. QED
      BY <2>1, <3>1
  <2>3. IsFiniteSet(V) /\ Cardinality(U) = c + 1 /\ c \in Nat
    <3>1. IsFiniteSet(V) /\ c = Cardinality(U) - 1
      BY <1>4, <1>6, FS_RemoveElement
    <3>2. c \in Nat /\ Cardinality(U) \in Nat
      BY <1>4, <3>1, FS_CardinalityType
    <3>3. QED
      BY <3>1, <3>2
  <2>4. PICK s \in Listings(V) : TRUE
    BY <2>2
  <2> HIDE DEF c
  <2> DEFINE z == [i \in 1..(c + 1) |-> IF i = c + 1 THEN m ELSE s[i]]
  <2>5. s \in [1..c -> V] /\ \A i, k \in 1..c : i < k => s[i] < s[k]
    BY <2>4 DEF Listings, c
  <2>6. \A i \in 1..c : s[i] \in 1..(m - 1) /\ s[i] \in U
    BY <2>1, <2>5
  <2>7. z \in [1..(c + 1) -> U]
    BY <1>6, <2>3, <2>6
  <2>8. \A i, k \in 1..(c + 1) : i < k => z[i] < z[k]
    BY <1>4, <2>3, <2>5, <2>6
  <2>9. z \in Listings(U)
    BY <2>3, <2>7, <2>8 DEF Listings
  <2>10. QED
    BY <1>3, <2>9
<1>7. QED
  BY <1>5, <1>6

\* Listing lists a set of indexes in its order, and misses none.
LEMMA ListingRight ==
  ASSUME NEW n \in Nat, NEW S \in SUBSET (1..n)
  PROVE  /\ Listing(S) \in [1..Cardinality(S) -> S]
         /\ \A i, k \in 1..Cardinality(S) : i < k => Listing(S)[i] < Listing(S)[k]
         /\ \A x \in S : \E i \in 1..Cardinality(S) : Listing(S)[i] = x
         /\ IsFiniteSet(S) /\ Cardinality(S) \in Nat
<1>1. Listings(S) # {}
  BY CanBeListed
<1>2. Listing(S) \in Listings(S)
  BY <1>1, Zenon DEF Listing
<1> DEFINE f == Listing(S)
           m == Cardinality(S)
<1>3. f \in [1..m -> S] /\ \A i, k \in 1..m : i < k => f[i] < f[k]
  BY <1>2 DEF Listings
<1>4. IsFiniteSet(S) /\ m \in Nat
  <2>1. IsFiniteSet(1..n)
    BY FS_Interval
  <2>2. IsFiniteSet(S)
    BY <2>1, FS_Subset
  <2> QED
    BY <2>2, FS_CardinalityType
<1> HIDE DEF f, m
<1>5. \A i, k \in 1..m : f[i] = f[k] => i = k
  <2> SUFFICES ASSUME NEW i \in 1..m, NEW k \in 1..m, i < k
               PROVE  f[i] # f[k]
    BY <1>4
  <2>1. f[i] \in S /\ f[k] \in S /\ f[i] < f[k]
    BY <1>3
  <2>2. \A x \in S : x \in Nat
    OBVIOUS
  <2>3. f[i] \in Nat /\ f[k] \in Nat
    BY <2>1, <2>2
  <2> QED
    BY <2>1, <2>3
<1>6. f \in Injection(1..m, S)
  BY <1>3, <1>5 DEF Injection, IsInjective
<1>7. Cardinality(1..m) = m
  BY <1>4, FS_Interval
<1>8. f \in Surjection(1..m, S)
  BY <1>4, <1>6, <1>7, FS_Injection DEF m
<1>9. \A x \in S : \E i \in 1..m : f[i] = x
  BY <1>8 DEF Surjection
<1> QED
  BY <1>3, <1>4, <1>9 DEF f, m
==============================================================================
