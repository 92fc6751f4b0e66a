--------------------------- MODULE NaturalInduction ---------------------------
(* Naturals: induction, and remainders.  The library's induction theorems have *)
(* an operator as a parameter; these have a set.                               *)
EXTENDS Integers, FiniteSetTheorems, WellFoundedInduction, TLAPS

\* A non-empty set of naturals has a least element.
LEMMA LeastNatural ==
    ASSUME NEW T, T \subseteq Nat, T # {}
    PROVE  \E m \in T : \A k \in T : m =< k
<1> DEFINE First(n) == 1..n
           U == {First(n) : n \in T}
<1>1. U \subseteq FiniteSubsetsOf(Nat)
  <2> SUFFICES ASSUME NEW n \in T
               PROVE  First(n) \in FiniteSubsetsOf(Nat)
    OBVIOUS
  <2>1. First(n) \in SUBSET Nat
    OBVIOUS
  <2>2. n \in Int /\ 1 \in Int
    OBVIOUS
  <2>3. IsFiniteSet(1..n)
    BY <2>2, FS_Interval
  <2> QED BY <2>1, <2>3 DEF FiniteSubsetsOf
<1>2. PICK x \in U : \A y \in U : <<y, x>> \notin StrictSubsetOrdering(Nat)
  <2>1. U # {}
    OBVIOUS
  <2>2. IsWellFoundedOn(StrictSubsetOrdering(Nat), FiniteSubsetsOf(Nat))
    BY FS_StrictSubsetOrderingWellFounded
  <2> HIDE DEF U
  <2> QED BY <1>1, <2>1, <2>2, WFMin
<1>3. PICK m \in T : x = First(m)
  OBVIOUS
<1>4. ASSUME NEW k \in T, ~(m =< k)
      PROVE  FALSE
  <2>1. First(k) \subseteq First(m) /\ m \in First(m) /\ m \notin First(k)
    BY <1>4
  <2>2. First(k) \in U /\ First(k) \subseteq x /\ First(k) # x
    BY <1>3, <1>4, <2>1
  <2>3. First(k) \in SUBSET Nat /\ x \in SUBSET Nat
    BY <1>3, <1>4
  <2> QED BY <1>2, <2>2, <2>3 DEF StrictSubsetOrdering
<1> QED BY <1>4

\* A set that has 0, and with each natural the next, has all of them.
LEMMA Induction ==
    ASSUME NEW T, 0 \in T, \A n \in Nat : n \in T => n + 1 \in T
    PROVE  \A n \in Nat : n \in T
<1> SUFFICES ASSUME Nat \ T # {}
             PROVE  FALSE
  OBVIOUS
<1>1. PICK m \in Nat \ T : \A k \in Nat \ T : m =< k
  BY LeastNatural
<1>2. m # 0 /\ m - 1 \in Nat /\ m - 1 \in T
  BY <1>1
<1>3. (m - 1) + 1 = m
  BY <1>2
<1> QED BY <1>1, <1>2, <1>3

\* The remainder is determined by what it should be.
LEMMA Remainder ==
    ASSUME NEW n \in Nat \ {0}, NEW q \in Int, NEW x \in 0..(n - 1)
    PROVE  (n * q + x) % n = x
<1> DEFINE a == n * q + x
           d == a \div n
           m == a % n
<1>1. a \in Int /\ d \in Int /\ m \in 0..(n - 1) /\ a = n * d + m
  OBVIOUS
<1> HIDE DEF d, m
<1>2. n * (q - d) = m - x
  BY <1>1
<1>3. CASE q - d >= 1
  <2>1. n * (q - d) >= n
    BY <1>1, <1>3
  <2> QED BY <1>1, <1>2, <2>1
<1>4. CASE q - d =< -1
  <2>1. n * (q - d) =< -n
    BY <1>1, <1>4
  <2> QED BY <1>1, <1>2, <2>1
<1>5. CASE q - d = 0
  BY <1>1, <1>2, <1>5 DEF m
<1> QED BY <1>1, <1>3, <1>4, <1>5
===============================================================================
