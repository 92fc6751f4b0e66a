---------------------------- MODULE DownloadProofs ----------------------------
(* Downloads, for any number of peers, blocks, block sizes and downloads.     *)
EXTENDS Download, NaturalInduction, FiniteSetTheorems, TLAPS

USE DEF fixed

-----------------------------------------------------------------------------
(* Filtering and rotating a list of peers.                                    *)

\* What Only does for one more element, and the function that does it for each.
Add(f, s, S, i) ==
    IF i = 0 THEN <<>> ELSE IF s[i] \in S THEN Append(f[i - 1], s[i]) ELSE f[i - 1]
Filters(f, s, S, n) == f = [i \in 0..n |-> Add(f, s, S, i)]

\* The recursive definition of Only defines a function.
LEMMA OnlyIsDefined ==
    ASSUME NEW s, NEW S, Len(s) \in Nat
    PROVE  \E f : Filters(f, s, S, Len(s)) /\ Only(s, S) = f[Len(s)]
<1> DEFINE T == {n \in Nat : \E f : Filters(f, s, S, n)}
<1>1. 0 \in T
  <2> DEFINE f == [i \in 0..0 |-> <<>>]
  <2>1. \A i \in 0..0 : i = 0
    OBVIOUS
  <2>2. Filters(f, s, S, 0)
    BY <2>1 DEF Filters, Add
  <2> QED BY <2>2
<1>2. ASSUME NEW n \in Nat, n \in T
      PROVE  n + 1 \in T
  <2>1. PICK f : Filters(f, s, S, n)
    BY <1>2
  <2> DEFINE g == [i \in 0..(n + 1) |-> IF i = n + 1 THEN Add(f, s, S, i) ELSE f[i]]
  <2>2. \A i \in 0..n : g[i] = f[i] /\ f[i] = Add(f, s, S, i)
    BY <2>1 DEF Filters
  <2>3. g[n + 1] = Add(f, s, S, n + 1)
    OBVIOUS
  <2>4. ASSUME NEW i \in 0..(n + 1)
        PROVE  g[i] = Add(g, s, S, i)
    <3>1. Add(g, s, S, i) = Add(f, s, S, i)
      <4>1. CASE i = 0
        BY <4>1 DEF Add
      <4>2. CASE i # 0
        <5>1. i - 1 \in 0..n
          BY <4>2
        <5> HIDE DEF g
        <5> QED BY <2>2, <4>2, <5>1 DEF Add
      <4> QED BY <4>1, <4>2
    <3>2. i = n + 1 \/ i \in 0..n
      OBVIOUS
    <3> HIDE DEF g
    <3> QED BY <2>2, <2>3, <3>1, <3>2
  <2>5. g = [i \in 0..(n + 1) |-> Add(g, s, S, i)]
    <3>1. g = [i \in 0..(n + 1) |-> g[i]]
      OBVIOUS
    <3> HIDE DEF g
    <3> QED BY <2>4, <3>1
  <2> HIDE DEF g
  <2> QED BY <2>5 DEF Filters
<1>3. Len(s) \in T
  <2> HIDE DEF T
  <2> QED BY <1>1, <1>2, Induction
<1>4. PICK f : Filters(f, s, S, Len(s))
  BY <1>3
<1> DEFINE kept == CHOOSE g : Filters(g, s, S, Len(s))
<1>5. Filters(kept, s, S, Len(s))
  BY <1>4
<1>6. Only(s, S) = kept[Len(s)]
  BY DEF Only, Filters, Add
<1> HIDE DEF kept
<1> QED BY <1>5, <1>6

\* Where the first n elements of s name p.
Places(s, n, p) == {i \in 1..n : s[i] = p}

\* t is what a filter by S makes of the first n elements of s.
Keeps(t, s, S, n) ==
    /\ \A i \in 1..Len(t) : t[i] \in S /\ \E j \in 1..n : t[i] = s[j]
    /\ \A j \in 1..n : s[j] \in S => \E i \in 1..Len(t) : t[i] = s[j]
    /\ \A p \in S : Cardinality(Places(t, Len(t), p)) = Cardinality(Places(s, n, p))
    /\ (\A j \in 1..n : s[j] \in S) => Len(t) = n /\ \A j \in 1..n : t[j] = s[j]

\* One more element is one more place of what it names.
LEMMA PlacesGrow ==
    ASSUME NEW s, NEW n \in Nat, NEW p
    PROVE  /\ IsFiniteSet(Places(s, n, p)) /\ Cardinality(Places(s, n, p)) \in Nat
           /\ Cardinality(Places(s, n + 1, p)) =
                 Cardinality(Places(s, n, p)) + IF s[n + 1] = p THEN 1 ELSE 0
<1>1. IsFiniteSet(Places(s, n, p))
  <2>1. IsFiniteSet(1..n)
    BY FS_Interval
  <2> QED BY <2>1, FS_Subset DEF Places
<1>2. Cardinality(Places(s, n, p)) \in Nat
  BY <1>1, FS_CardinalityType
<1>3. CASE s[n + 1] = p
  <2>1. Places(s, n + 1, p) = Places(s, n, p) \cup {n + 1} /\ n + 1 \notin Places(s, n, p)
    BY <1>3 DEF Places
  <2> QED BY <1>1, <1>2, <1>3, <2>1, FS_AddElement
<1>4. CASE s[n + 1] # p
  <2>1. Places(s, n + 1, p) = Places(s, n, p)
    BY <1>4 DEF Places
  <2> QED BY <1>1, <1>2, <1>4, <2>1
<1> QED BY <1>1, <1>2, <1>3, <1>4

\* One more element, kept or not.
LEMMA AddKeeps ==
    ASSUME NEW A, NEW s \in Seq(A), NEW S, NEW n \in Nat, n < Len(s),
           NEW t \in Seq(A), Keeps(t, s, S, n)
    PROVE  LET u == IF s[n + 1] \in S THEN Append(t, s[n + 1]) ELSE t
           IN u \in Seq(A) /\ Keeps(u, s, S, n + 1)
<1>1. n + 1 \in 1..Len(s) /\ s[n + 1] \in A
  OBVIOUS
<1>2. CASE s[n + 1] \notin S
  <2>1. \A j \in 1..(n + 1) : s[j] \in S => j \in 1..n
    BY <1>2
  <2>2. n + 1 \in 1..(n + 1) /\ \A j \in 1..n : j \in 1..(n + 1)
    OBVIOUS
  <2>3. /\ \A i \in 1..Len(t) : t[i] \in S /\ \E j \in 1..(n + 1) : t[i] = s[j]
        /\ \A j \in 1..(n + 1) : s[j] \in S => \E i \in 1..Len(t) : t[i] = s[j]
    BY <2>1, <2>2 DEF Keeps
  <2>4. ASSUME NEW p \in S
        PROVE  Cardinality(Places(t, Len(t), p)) = Cardinality(Places(s, n + 1, p))
    <3>1. Cardinality(Places(t, Len(t), p)) = Cardinality(Places(s, n, p))
      BY DEF Keeps
    <3>2. /\ Cardinality(Places(s, n + 1, p)) = Cardinality(Places(s, n, p)) + 0
          /\ Cardinality(Places(s, n, p)) \in Nat
      BY <1>2, PlacesGrow
    <3> QED BY <3>1, <3>2
  <2>5. Keeps(t, s, S, n + 1)
    BY <1>2, <2>2, <2>3, <2>4 DEF Keeps
  <2> QED BY <1>2, <2>5
<1>3. CASE s[n + 1] \in S
  <2> DEFINE u == Append(t, s[n + 1])
  <2>1. /\ u \in Seq(A) /\ Len(u) = Len(t) + 1 /\ u[Len(t) + 1] = s[n + 1]
        /\ \A i \in 1..Len(t) : u[i] = t[i]
    BY <1>1
  <2> HIDE DEF u
  <2>2. Len(t) \in Nat
    OBVIOUS
  <2>3. ASSUME NEW i \in 1..Len(u)
        PROVE  u[i] \in S /\ \E j \in 1..(n + 1) : u[i] = s[j]
    <3>1. CASE i = Len(t) + 1
      BY <1>3, <2>1, <3>1
    <3>2. CASE i \in 1..Len(t)
      <4>1. u[i] = t[i]
        BY <2>1, <3>2
      <4>2. PICK j \in 1..n : t[i] = s[j]
        BY <3>2 DEF Keeps
      <4>3. t[i] \in S /\ j \in 1..(n + 1)
        BY <3>2 DEF Keeps
      <4> QED BY <4>1, <4>2, <4>3
    <3> QED BY <2>1, <2>2, <3>1, <3>2
  <2>4. ASSUME NEW j \in 1..(n + 1), s[j] \in S
        PROVE  \E i \in 1..Len(u) : u[i] = s[j]
    <3>1. CASE j = n + 1
      BY <2>1, <2>2, <3>1
    <3>2. CASE j \in 1..n
      BY <2>1, <2>2, <2>4, <3>2 DEF Keeps
    <3> QED BY <3>1, <3>2
  <2>5. ASSUME NEW p \in S
        PROVE  Cardinality(Places(u, Len(u), p)) = Cardinality(Places(s, n + 1, p))
    <3>1. Places(u, Len(t), p) = Places(t, Len(t), p)
      BY <2>1 DEF Places
    <3>2. Cardinality(Places(t, Len(t), p)) = Cardinality(Places(s, n, p))
      BY DEF Keeps
    <3>3. Cardinality(Places(u, Len(t) + 1, p)) =
             Cardinality(Places(t, Len(t), p)) + IF u[Len(t) + 1] = p THEN 1 ELSE 0
      BY <2>2, <3>1, PlacesGrow
    <3>4. Cardinality(Places(s, n + 1, p)) =
             Cardinality(Places(s, n, p)) + IF s[n + 1] = p THEN 1 ELSE 0
      BY PlacesGrow
    <3> QED BY <2>1, <3>2, <3>3, <3>4
  <2>6. ASSUME \A j \in 1..(n + 1) : s[j] \in S
        PROVE  Len(u) = n + 1 /\ \A j \in 1..(n + 1) : u[j] = s[j]
    <3>1. \A j \in 1..n : s[j] \in S
      BY <2>6
    <3>2. Len(t) = n /\ \A j \in 1..n : t[j] = s[j]
      BY <3>1 DEF Keeps
    <3>3. \A j \in 1..(n + 1) : j = n + 1 \/ j \in 1..n
      OBVIOUS
    <3> QED BY <2>1, <3>2, <3>3
  <2>7. Keeps(u, s, S, n + 1)
    BY <2>3, <2>4, <2>5, <2>6 DEF Keeps
  <2> QED BY <1>3, <2>1, <2>7 DEF u
<1> QED BY <1>2, <1>3

\* A filtered list has the elements that pass, as often as the list had them, and is
\* the list itself when all pass.
LEMMA OnlyKeeps ==
    ASSUME NEW A, NEW s \in Seq(A), NEW S
    PROVE  Only(s, S) \in Seq(A) /\ Keeps(Only(s, S), s, S, Len(s))
<1>1. PICK f : Filters(f, s, S, Len(s)) /\ Only(s, S) = f[Len(s)]
  BY OnlyIsDefined
<1> DEFINE T == {n \in Nat : n =< Len(s) => f[n] \in Seq(A) /\ Keeps(f[n], s, S, n)}
<1>2. 0 \in T
  <2>1. f[0] = <<>>
    BY <1>1 DEF Filters, Add
  <2>2. <<>> \in Seq(A) /\ Len(<<>>) = 0 /\ 1..0 = {}
    OBVIOUS
  <2>3. Keeps(<<>>, s, S, 0)
    <3>1. \A p : Places(<<>>, 0, p) = {} /\ Places(s, 0, p) = {}
      BY <2>2 DEF Places
    <3> QED BY <2>2, <3>1 DEF Keeps
  <2> QED BY <2>1, <2>2, <2>3
<1>3. ASSUME NEW n \in Nat, n \in T
      PROVE  n + 1 \in T
  <2>1. SUFFICES ASSUME n + 1 =< Len(s)
                 PROVE  f[n + 1] \in Seq(A) /\ Keeps(f[n + 1], s, S, n + 1)
    OBVIOUS
  <2>2. f[n + 1] = IF s[n + 1] \in S THEN Append(f[n], s[n + 1]) ELSE f[n]
    <3>1. n + 1 \in 0..Len(s) /\ n + 1 # 0 /\ (n + 1) - 1 = n
      BY <2>1
    <3>2. f[n + 1] = Add(f, s, S, n + 1)
      BY <1>1, <3>1 DEF Filters
    <3> QED BY <3>1, <3>2 DEF Add
  <2>3. f[n] \in Seq(A) /\ Keeps(f[n], s, S, n)
    BY <1>3, <2>1
  <2> QED BY <2>1, <2>2, <2>3, AddKeeps
<1>4. Len(s) \in T
  <2> HIDE DEF T
  <2> QED BY <1>2, <1>3, Induction
<1> QED BY <1>1, <1>4

\* A rotated list has the same elements.
LEMMA RotateKeeps ==
    ASSUME NEW A, NEW s \in Seq(A), NEW shift \in Nat
    PROVE  /\ Rotate(s, shift) \in Seq(A) /\ Len(Rotate(s, shift)) = Len(s)
           /\ \A i \in 1..Len(s) : \E j \in 1..Len(s) : Rotate(s, shift)[i] = s[j]
           /\ \A j \in 1..Len(s) : \E i \in 1..Len(s) : Rotate(s, shift)[i] = s[j]
<1> DEFINE n == Len(s)
           Place(i) == ((i - 1 + shift) % n) + 1
<1>1. n \in Nat /\ \A i \in 1..n : s[i] \in A
  OBVIOUS
<1>2. \A i \in 1..n : Place(i) \in 1..n
  BY <1>1
<1>3. Rotate(s, shift) = [i \in 1..n |-> s[Place(i)]]
  BY DEF Rotate
<1>4. ASSUME NEW j \in 1..n
      PROVE  \E i \in 1..n : Place(i) = j
  <2> DEFINE r == shift % n
             q == shift \div n
             x == j - 1
  <2>1. /\ n \in Nat \ {0} /\ x \in 0..(n - 1) /\ j = x + 1
        /\ r \in 0..(n - 1) /\ q \in Int /\ shift = n * q + r
    BY <1>1
  <2> HIDE DEF n, r, q, x
  <2>2. CASE x >= r
    <3>1. x - r + 1 \in 1..n /\ (x - r + 1) - 1 + shift = n * q + x
      BY <2>1, <2>2
    <3>2. (n * q + x) % n = x
      BY <2>1, Remainder
    <3>3. Place(x - r + 1) = j
      BY <2>1, <3>1, <3>2
    <3> HIDE DEF Place
    <3> QED BY <3>1, <3>3
  <2>3. CASE x < r
    <3> DEFINE p == q + 1
    <3>1. /\ x - r + n + 1 \in 1..n /\ p \in Int
          /\ (x - r + n + 1) - 1 + shift = n * p + x
      BY <2>1, <2>3
    <3> HIDE DEF p
    <3>2. (n * p + x) % n = x
      BY <2>1, <3>1, Remainder
    <3>3. Place(x - r + n + 1) = j
      BY <2>1, <3>1, <3>2
    <3> HIDE DEF Place
    <3> QED BY <3>1, <3>3
  <2> QED BY <2>1, <2>2, <2>3
<1> HIDE DEF Place
<1>5. \A i \in 1..n : s[Place(i)] \in A
  BY <1>1, <1>2
<1>6. Rotate(s, shift) \in Seq(A) /\ Len(Rotate(s, shift)) = n
  BY <1>1, <1>3, <1>5
<1>7. \A i \in 1..n : Rotate(s, shift)[i] = s[Place(i)]
  BY <1>3
<1> QED BY <1>2, <1>4, <1>6, <1>7

\* c holds the peers of s that have block b, and no others.
Provide(c, s, b) ==
    /\ c \in Seq(Peers)
    /\ \A i \in 1..Len(c) : \E j \in 1..Len(s) : c[i] = s[j] /\ b < BlockCount(s[j])
    /\ \A j \in 1..Len(s) : b < BlockCount(s[j]) => \E i \in 1..Len(c) : c[i] = s[j]

\* The candidates for a block are the peers listed that have it, each of them.
LEMMA CandidatesAreProviders ==
    ASSUME NEW s \in Seq(Peers), NEW b \in Nat
    PROVE  Provide(Candidates(s, b), s, b)
<1> DEFINE P == {q \in Peers : b < BlockCount(q)}
           t == Only(s, P)
           u == Only(t, Peers \ {Self})
           v == Only(t, {Self})
           w == u \o v
           c == Rotate(w, b)
<1>1. t \in Seq(Peers) /\ Keeps(t, s, P, Len(s))
  BY OnlyKeeps
<1> HIDE DEF P, t
<1>2. u \in Seq(Peers) /\ Keeps(u, t, Peers \ {Self}, Len(t))
  BY <1>1, OnlyKeeps
<1>3. v \in Seq(Peers) /\ Keeps(v, t, {Self}, Len(t))
  BY <1>1, OnlyKeeps
<1> HIDE DEF u, v
<1>4. /\ w \in Seq(Peers) /\ Len(w) = Len(u) + Len(v) /\ Len(u) \in Nat /\ Len(v) \in Nat
      /\ \A i \in 1..Len(u) : w[i] = u[i]
      /\ \A i \in 1..Len(v) : w[Len(u) + i] = v[i]
  BY <1>2, <1>3
<1> HIDE DEF w
<1>5. ASSUME NEW i \in 1..Len(w)
      PROVE  \E j \in 1..Len(t) : w[i] = t[j]
  <2>1. CASE i \in 1..Len(u)
    BY <1>2, <1>4, <2>1 DEF Keeps
  <2>2. CASE i \notin 1..Len(u)
    <3>1. i - Len(u) \in 1..Len(v) /\ w[i] = v[i - Len(u)]
      BY <1>4, <2>2
    <3> QED BY <1>3, <3>1 DEF Keeps
  <2> QED BY <2>1, <2>2
<1>6. ASSUME NEW j \in 1..Len(t)
      PROVE  \E i \in 1..Len(w) : w[i] = t[j]
  <2>1. CASE t[j] \in Peers \ {Self}
    <3>1. PICK i \in 1..Len(u) : u[i] = t[j]
      BY <1>2, <2>1 DEF Keeps
    <3> QED BY <1>4, <3>1
  <2>2. CASE t[j] = Self
    <3>1. PICK i \in 1..Len(v) : v[i] = t[j]
      BY <1>3, <2>2 DEF Keeps
    <3>2. Len(u) + i \in 1..Len(w) /\ w[Len(u) + i] = t[j]
      BY <1>4, <3>1
    <3> QED BY <3>2
  <2>3. t[j] \in Peers
    BY <1>1
  <2> QED BY <2>1, <2>2, <2>3
<1>7. /\ c \in Seq(Peers) /\ Len(c) = Len(w)
      /\ \A i \in 1..Len(c) : \E j \in 1..Len(w) : c[i] = w[j]
      /\ \A j \in 1..Len(w) : \E i \in 1..Len(c) : c[i] = w[j]
  <2>1. /\ c \in Seq(Peers) /\ Len(c) = Len(w)
        /\ \A i \in 1..Len(w) : \E j \in 1..Len(w) : c[i] = w[j]
        /\ \A j \in 1..Len(w) : \E i \in 1..Len(w) : c[i] = w[j]
    <3>1. w \in Seq(Peers)
      BY <1>4
    <3> QED BY <3>1, RotateKeeps
  <2> HIDE DEF c
  <2> QED BY <2>1
<1>8. Candidates(s, b) = c
  BY DEF Candidates, Providers, SelfLast, w, u, v, t, P
<1> HIDE DEF c
<1>9. ASSUME NEW i \in 1..Len(c)
      PROVE  \E j \in 1..Len(s) : c[i] = s[j] /\ b < BlockCount(s[j])
  <2>1. PICK k \in 1..Len(t) : c[i] = t[k]
    BY <1>5, <1>7
  <2>2. t[k] \in P /\ \E j \in 1..Len(s) : t[k] = s[j]
    BY <1>1, <2>1 DEF Keeps
  <2> QED BY <2>1, <2>2 DEF P
<1>10. ASSUME NEW j \in 1..Len(s), b < BlockCount(s[j])
       PROVE  \E i \in 1..Len(c) : c[i] = s[j]
  <2>1. s[j] \in P
    BY <1>10 DEF P
  <2>2. PICK k \in 1..Len(t) : t[k] = s[j]
    BY <1>1, <2>1 DEF Keeps
  <2> QED BY <1>6, <1>7, <2>2
<1> QED BY <1>7, <1>8, <1>9, <1>10 DEF Provide

-----------------------------------------------------------------------------
(* What is true of the tasks.                                                 *)

PlainTask == [st : {"none", "asking", "counted", "done", "failed"}, k : Nat \ {0},
              value : Nat, from : Peers \cup {None}, good : BOOLEAN]

\* TypeOK, but for the bounds that only counting gives.
Shape ==
    /\ [size |-> block_size, names |-> names] \in Setups
    /\ host \in [Peers -> {"up", "down", "hung"}]
    /\ holders \subseteq Peers
    /\ listing \in Seq(Peers)
    /\ round \in 0..Downloads
    /\ phase \in {"idle", "fetching", "publishing"} /\ (phase # "idle" => round \in Rounds)
    /\ plan \in [Rounds -> Seq(Peers)]
    /\ task \in [Rounds -> [Blocks -> PlainTask]]
    /\ counter \in [Rounds -> Nat]
    /\ refused \subseteq Rounds \X Blocks \X Peers
    /\ result \in [Rounds -> {"none", "failed", "mismatch", "saved", "unpublished"}]
    /\ shown \in [round : 0..Downloads, blocks : Nat, total : 0..FileSize]

\* Nothing is known of a download before it starts.
FreshInv ==
    \A d \in Rounds : d > round =>
        /\ plan[d] = <<>> /\ counter[d] = 0 /\ result[d] = "none"
        /\ \A b \in Blocks : task[d][b].st = "none"

\* A task asks one of its candidates, and has its block from a peer that was listed
\* with it.
Fits(t, d, b) ==
    /\ t.st # "none" => b \in Wanted(d)
    /\ t.st = "asking" => t.k \in 1..Len(Candidates(plan[d], b))
    /\ t.st \in {"counted", "done"} =>
          t.good /\ \E j \in 1..Len(plan[d]) : t.from = plan[d][j] /\ b < BlockCount(t.from)

TaskInv == \A d \in Rounds : \A b \in Blocks : Fits(task[d][b], d, b)

Basics == Shape /\ FreshInv /\ TaskInv

\* A task once it has got a block, been refused one, or reported.
Got(t, n, p) == [t EXCEPT !.st = "counted", !.value = n, !.from = p, !.good = TRUE]
Moved(t) == [t EXCEPT !.k = @ + 1]
Failed(t) == [t EXCEPT !.st = "failed"]
Reported(t) == [t EXCEPT !.st = "done"]

\* A task that got a block.
LEMMA GotMade ==
    ASSUME NEW t \in PlainTask, NEW n \in Nat, NEW p \in Peers
    PROVE  /\ Got(t, n, p) \in PlainTask /\ Got(t, n, p).st = "counted"
           /\ Got(t, n, p).value = n /\ Got(t, n, p).from = p /\ Got(t, n, p).good
BY DEF PlainTask, Got

\* What becomes of the parts of a task otherwise.
LEMMA TasksMade ==
    /\ NoTask \in PlainTask /\ NoTask.st = "none"
    /\ Start \in PlainTask /\ Start.st = "asking" /\ Start.k = 1
    /\ \A t \in PlainTask :
         /\ t.k \in Nat \ {0} /\ t.value \in Nat /\ t.from \in Peers \cup {None}
         /\ t.good \in BOOLEAN
         /\ Moved(t) \in PlainTask /\ Moved(t).st = t.st /\ Moved(t).k = t.k + 1
         /\ Failed(t) \in PlainTask /\ Failed(t).st = "failed" /\ Failed(t).k = t.k
         /\ Reported(t) \in PlainTask /\ Reported(t).st = "done"
         /\ Reported(t).value = t.value /\ Reported(t).from = t.from
         /\ Reported(t).good = t.good
<1>1. NoTask \in PlainTask /\ NoTask.st = "none" /\ Start \in PlainTask /\ Start.st = "asking"
      /\ Start.k = 1
  <2>1. NoTask \in PlainTask /\ NoTask.st = "none" /\ NoTask.k = 1
    BY DEF NoTask, PlainTask
  <2>2. Start = [NoTask EXCEPT !.st = "asking"]
    BY DEF Start
  <2>3. Start \in PlainTask /\ Start.st = "asking" /\ Start.k = 1
    BY <2>1, <2>2 DEF PlainTask
  <2> QED BY <2>1, <2>3
<1>2. ASSUME NEW t \in PlainTask
      PROVE  /\ t.k \in Nat \ {0} /\ t.value \in Nat /\ t.from \in Peers \cup {None}
             /\ t.good \in BOOLEAN
             /\ Moved(t) \in PlainTask /\ Moved(t).st = t.st /\ Moved(t).k = t.k + 1
             /\ Failed(t) \in PlainTask /\ Failed(t).st = "failed" /\ Failed(t).k = t.k
             /\ Reported(t) \in PlainTask /\ Reported(t).st = "done"
             /\ Reported(t).value = t.value /\ Reported(t).from = t.from
             /\ Reported(t).good = t.good
  BY DEF PlainTask, Moved, Failed, Reported
<1> QED BY <1>1, <1>2

\* The number of blocks on offer is at most the length of the file.
LEMMA OfferedBound ==
    ASSUME NEW s
    PROVE  Cardinality(Offered(s)) \in 0..FileSize
<1>1. FileSize \in Nat \ {0}
  BY DownloadAssumption
<1>2. IsFiniteSet(Blocks) /\ Cardinality(Blocks) = FileSize
  <2>1. 0 \in Int /\ FileSize - 1 \in Int /\ ~(0 > FileSize - 1) /\ (FileSize - 1) - 0 + 1 = FileSize
    BY <1>1
  <2> QED BY <2>1, FS_Interval DEF Blocks
<1>3. Offered(s) \subseteq Blocks
  BY DEF Offered
<1>4. IsFiniteSet(Offered(s)) /\ Cardinality(Offered(s)) =< FileSize
  BY <1>2, <1>3, FS_Subset
<1>5. Cardinality(Offered(s)) \in Nat
  BY <1>4, FS_CardinalityType
<1> QED BY <1>1, <1>4, <1>5

-----------------------------------------------------------------------------
(* What a step of a task does.                                                *)

\* A task that goes on belongs to a download that has started.
LEMMA StepsAreStarted ==
    ASSUME Basics, NEW d \in Rounds, NEW b \in Blocks, task[d][b].st # "none"
    PROVE  d =< round /\ b \in Wanted(d)
<1>1. d \in Nat /\ round \in Nat
  BY DownloadAssumption DEF Basics, Shape, Rounds
<1> QED BY <1>1 DEF Basics, FreshInv, TaskInv, Fits

\* A task gets its block from a listed peer that has it, and counts it.
LEMMA FetchedReads ==
    ASSUME Basics, NEW d \in Rounds, NEW b \in Blocks, Fetched(d, b)
    PROVE  /\ task[d][b].st = "asking"
           /\ \E p \in Peers :
                /\ task' = [task EXCEPT ![d][b] = Got(task[d][b], counter[d] + 1, p)]
                /\ \E j \in 1..Len(plan[d]) : p = plan[d][j] /\ b < BlockCount(p)
<1> DEFINE p == Asked(d, b)
<1>1. task[d][b].st = "asking" /\ task[d][b].k \in 1..Len(Candidates(plan[d], b))
  BY DEF Fetched, Basics, TaskInv, Fits
<1>2. plan[d] \in Seq(Peers) /\ b \in Nat
  BY DownloadAssumption DEF Basics, Shape, Blocks
<1>3. p \in Peers /\ \E j \in 1..Len(plan[d]) : p = plan[d][j] /\ b < BlockCount(p)
  <2>1. p = Candidates(plan[d], b)[task[d][b].k]
    BY DEF Asked
  <2>2. Provide(Candidates(plan[d], b), plan[d], b)
    BY <1>2, CandidatesAreProviders
  <2>3. PICK j \in 1..Len(plan[d]) : p = plan[d][j] /\ b < BlockCount(plan[d][j])
    BY <1>1, <2>1, <2>2 DEF Provide
  <2> QED BY <1>2, <2>3
<1>4. task' = [task EXCEPT ![d][b] = Got(task[d][b], counter[d] + 1, p)]
  <2>1. PICK answer : /\ Accepted(answer)
                      /\ task' = [task EXCEPT ![d][b] =
                             [@ EXCEPT !.st = "counted", !.value = counter[d] + 1,
                                       !.from = p, !.good = answer = "block"]]
    BY DEF Fetched
  <2>2. (answer = "block") = TRUE
    BY <2>1 DEF Accepted
  <2>3. task' = [task EXCEPT ![d][b] =
                     [@ EXCEPT !.st = "counted", !.value = counter[d] + 1, !.from = p,
                               !.good = TRUE]]
    BY <2>1, <2>2
  <2> QED BY <2>3 DEF Got
<1> QED BY <1>1, <1>3, <1>4

\* A task is refused its block by a candidate, and asks the next one or has failed.
LEMMA RefusedReads ==
    ASSUME Basics, NEW d \in Rounds, NEW b \in Blocks, Refused(d, b)
    PROVE  /\ task[d][b].st = "asking"
           /\ task[d][b].k \in 1..Len(Candidates(plan[d], b))
           /\ Candidates(plan[d], b) \in Seq(Peers)
           /\ refused' = refused \cup {<<d, b, Candidates(plan[d], b)[task[d][b].k]>>}
           /\ \/ /\ task[d][b].k < Len(Candidates(plan[d], b))
                 /\ task' = [task EXCEPT ![d][b] = Moved(task[d][b])]
              \/ /\ task[d][b].k = Len(Candidates(plan[d], b))
                 /\ task' = [task EXCEPT ![d][b] = Failed(task[d][b])]
<1>1. task[d][b].st = "asking" /\ task[d][b].k \in 1..Len(Candidates(plan[d], b))
  BY DEF Refused, Basics, TaskInv, Fits
<1>2. Candidates(plan[d], b) \in Seq(Peers)
  BY DownloadAssumption, CandidatesAreProviders DEF Basics, Shape, Blocks, Provide
<1>3. refused' = refused \cup {<<d, b, Candidates(plan[d], b)[task[d][b].k]>>}
  BY DEF Refused, Asked
<1>4. task' = IF task[d][b].k < Len(Candidates(plan[d], b))
              THEN [task EXCEPT ![d][b] = Moved(task[d][b])]
              ELSE [task EXCEPT ![d][b] = Failed(task[d][b])]
  BY DEF Refused, Moved, Failed
<1>5. Len(Candidates(plan[d], b)) \in Nat
  BY <1>2
<1>6. task[d][b].k < Len(Candidates(plan[d], b)) \/ task[d][b].k = Len(Candidates(plan[d], b))
  BY <1>1, <1>5
<1>7. CASE task[d][b].k < Len(Candidates(plan[d], b))
  <2>1. task' = [task EXCEPT ![d][b] = Moved(task[d][b])]
    BY <1>4, <1>7
  <2> QED BY <1>1, <1>2, <1>3, <1>7, <2>1
<1>8. CASE task[d][b].k = Len(Candidates(plan[d], b))
  <2>1. ~(task[d][b].k < Len(Candidates(plan[d], b)))
    BY <1>5, <1>8
  <2>2. task' = [task EXCEPT ![d][b] = Failed(task[d][b])]
    BY <1>4, <2>1
  <2> QED BY <1>1, <1>2, <1>3, <1>8, <2>2
<1> QED BY <1>6, <1>7, <1>8

\* A task that reports is done.
LEMMA ReportReads ==
    ASSUME NEW d \in Rounds, NEW b \in Blocks, Report(d, b)
    PROVE  /\ task[d][b].st = "counted"
           /\ task' = [task EXCEPT ![d][b] = Reported(task[d][b])]
BY DEF Report, Reported

\* What is wanted and who is asked depend on the plan alone.
LEMMA PlansDecide ==
    ASSUME block_size' = block_size, NEW e, NEW s, plan'[e] = s
    PROVE  /\ Wanted(e)' = Offered(s)
           /\ \A b : Candidates(plan[e], b)' = Candidates(s, b)
           /\ \A p : BlockCount(p)' = BlockCount(p)
<1>1. \A p : BlockCount(p)' = BlockCount(p)
  BY DEF BlockCount
<1>2. Wanted(e)' = Offered(s)
  BY <1>1 DEF Wanted, Offered
<1>3. ASSUME NEW b
      PROVE  Candidates(plan[e], b)' = Candidates(s, b)
  <2>1. {p \in Peers : b < BlockCount(p)}' = {p \in Peers : b < BlockCount(p)}
    BY <1>1
  <2> QED BY <2>1 DEF Candidates, Providers
<1> QED BY <1>1, <1>2, <1>3

\* At the start there is no download.
LEMMA BasicsInit == Init => Basics
<1> SUFFICES ASSUME Init
             PROVE  Basics
  OBVIOUS
<1>1. NoTask \in PlainTask /\ NoTask.st = "none"
  BY TasksMade
<1>2. \A d \in Rounds, b \in Blocks : task[d][b] = NoTask
  BY DEF Init
<1>3. Shape
  <2>1. <<>> \in Seq(Peers)
    OBVIOUS
  <2>2. 0 \in 0..Downloads /\ 0 \in 0..FileSize
    BY DownloadAssumption
  <2>3. task \in [Rounds -> [Blocks -> PlainTask]]
    BY <1>1 DEF Init
  <2>4. /\ host \in [Peers -> {"up", "down", "hung"}]
        /\ plan \in [Rounds -> Seq(Peers)]
        /\ counter \in [Rounds -> Nat] /\ refused \subseteq Rounds \X Blocks \X Peers
        /\ result \in [Rounds -> {"none", "failed", "mismatch", "saved", "unpublished"}]
    BY <2>1 DEF Init
  <2>5. shown \in [round : 0..Downloads, blocks : Nat, total : 0..FileSize]
    BY <2>2 DEF Init
  <2>6. [size |-> block_size, names |-> names] \in Setups
    <3>1. PICK x \in Setups : block_size = x.size /\ names = x.names
      BY DEF Init
    <3>2. x = [size |-> x.size, names |-> x.names]
      BY DownloadAssumption
    <3> QED BY <3>1, <3>2
  <2> QED BY <2>1, <2>2, <2>3, <2>4, <2>5, <2>6 DEF Init, Shape
<1>4. FreshInv
  BY <1>1, <1>2 DEF Init, FreshInv
<1>5. TaskInv
  BY <1>1, <1>2 DEF TaskInv, Fits
<1> QED BY <1>3, <1>4, <1>5 DEF Basics

\* Downloads and tasks are left alone.
Idle == UNCHANGED <<block_size, names, plan, task, counter>>

\* When downloads and tasks are left alone, no result comes to a download that has
\* not started, and the rest keeps its shape, Basics stays.
LEMMA IdleKeeps ==
    ASSUME Basics, Idle, Shape', round' = round,
           \A d \in Rounds : d > round => result'[d] = result[d]
    PROVE  Basics'
<1>1. FreshInv'
  BY DEF Basics, FreshInv, Idle
<1>2. TaskInv'
  <2> SUFFICES ASSUME NEW d \in Rounds, NEW b \in Blocks
               PROVE  Fits(task[d][b], d, b)'
    BY DEF TaskInv
  <2>1. Fits(task[d][b], d, b)
    BY DEF Basics, TaskInv
  <2>2. block_size' = block_size /\ plan'[d] = plan[d] /\ task'[d][b] = task[d][b]
    BY DEF Idle
  <2> QED BY <2>1, <2>2, PlansDecide DEF Fits, Wanted
<1> QED BY <1>1, <1>2 DEF Basics

\* A peer enters the listing or leaves it: it stays a list of peers.
LEMMA ListingKeeps ==
    ASSUME Shape, NEW p \in Peers, Enlist(p) \/ listing' = Only(listing, Peers \ {p})
    PROVE  listing' \in Seq(Peers)
<1>1. listing \in Seq(Peers) /\ names[p] \in Nat
  BY DownloadAssumption DEF Shape
<1>2. CASE Enlist(p)
  <2>1. [n \in 1..names[p] |-> p] \in Seq(Peers)
    BY <1>1
  <2> HIDE DEF Shape
  <2> QED BY <1>1, <1>2, <2>1 DEF Enlist
<1>3. CASE listing' = Only(listing, Peers \ {p})
  BY <1>1, <1>3, OnlyKeeps
<1> QED BY <1>2, <1>3

\* A step of a task keeps Basics.
LEMMA BasicsTask ==
    ASSUME Basics, NEW d \in Rounds, NEW b \in Blocks, NEW x \in PlainTask,
           UNCHANGED <<block_size, names, host, holders, listing, round, phase, plan, result>>,
           task[d][b].st # "none",
           task' = [task EXCEPT ![d][b] = x], Fits(x, d, b),
           counter' \in [Rounds -> Nat],
           \A e \in Rounds : e # d => counter'[e] = counter[e],
           refused' \subseteq Rounds \X Blocks \X Peers,
           shown' \in [round : 0..Downloads, blocks : Nat, total : 0..FileSize]
    PROVE  Basics'
<1>1. Shape
  BY DEF Basics
<1>2. /\ task' \in [Rounds -> [Blocks -> PlainTask]]
      /\ task'[d][b] = x
      /\ \A e \in Rounds, c \in Blocks : (e # d \/ c # b) => task'[e][c] = task[e][c]
  BY <1>1 DEF Shape
<1>3. Shape'
  BY <1>1, <1>2 DEF Shape
<1>4. d =< round
  BY StepsAreStarted
<1>5. FreshInv'
  <2> SUFFICES ASSUME NEW e \in Rounds, e > round
               PROVE  /\ plan[e] = <<>> /\ counter'[e] = 0 /\ result[e] = "none"
                      /\ \A c \in Blocks : task'[e][c].st = "none"
    BY DEF FreshInv
  <2>1. e # d
    BY <1>1, <1>4, DownloadAssumption DEF Shape, Rounds
  <2> QED BY <1>2, <2>1 DEF Basics, FreshInv
<1>6. TaskInv'
  <2> SUFFICES ASSUME NEW e \in Rounds, NEW c \in Blocks
               PROVE  Fits(task[e][c], e, c)'
    BY DEF TaskInv
  <2>1. plan'[e] = plan[e]
    OBVIOUS
  <2>2. /\ Wanted(e)' = Wanted(e) /\ \A p : BlockCount(p)' = BlockCount(p)
        /\ Candidates(plan[e], c)' = Candidates(plan[e], c)
    BY <2>1, PlansDecide DEF Wanted
  <2>3. CASE e = d /\ c = b
    BY <1>2, <2>1, <2>2, <2>3 DEF Fits
  <2>4. CASE ~(e = d /\ c = b)
    BY <1>2, <2>1, <2>2, <2>4 DEF Fits, Basics, TaskInv
  <2> QED BY <2>3, <2>4
<1> QED BY <1>3, <1>5, <1>6 DEF Basics

\* Every block on offer has a candidate.
LEMMA OfferedAreProvided ==
    ASSUME NEW s \in Seq(Peers), NEW b \in Offered(s)
    PROVE  1 \in 1..Len(Candidates(s, b))
<1>1. b \in Nat
  BY DownloadAssumption DEF Offered, Blocks
<1>2. Provide(Candidates(s, b), s, b)
  BY <1>1, CandidatesAreProviders
<1>3. \E i \in 1..Len(Candidates(s, b)) : TRUE
  BY <1>2 DEF Provide, Offered
<1>4. Len(Candidates(s, b)) \in Nat
  BY <1>2 DEF Provide
<1> QED BY <1>3, <1>4

\* What a new download starts with.
LEMMA ResolveReads ==
    ASSUME Basics, Resolve
    PROVE  /\ round + 1 \in Rounds /\ round' = round + 1 /\ phase = "idle"
           /\ plan'[round + 1] = listing
           /\ \A e \in Rounds : e # round + 1 => plan'[e] = plan[e] /\ task'[e] = task[e]
           /\ \A b \in Blocks : task'[round + 1][b] =
                 IF b \in Offered(listing) THEN Start ELSE NoTask
BY DEF Resolve, Basics, Shape

\* A new download keeps Basics.
LEMMA BasicsResolve == Basics /\ Resolve => Basics'
<1> SUFFICES ASSUME Basics, Resolve
             PROVE  Basics'
  OBVIOUS
<1> DEFINE n == round + 1
<1>1. /\ n \in Rounds /\ round' = n /\ plan'[n] = listing
      /\ \A e \in Rounds : e # n => plan'[e] = plan[e] /\ task'[e] = task[e]
      /\ \A b \in Blocks : task'[n][b] = IF b \in Offered(listing) THEN Start ELSE NoTask
  BY ResolveReads
<1>2. /\ UNCHANGED <<block_size, names, host, holders, listing, counter, refused, result>>
      /\ phase' = "fetching"
      /\ shown' = [round |-> n, blocks |-> 0, total |-> Cardinality(Offered(listing))]
  BY DEF Resolve, world
<1>3. Shape
  BY DEF Basics
<1> HIDE DEF n
<1>4. Shape'
  <2>1. plan' \in [Rounds -> Seq(Peers)]
    <3>1. plan' = [plan EXCEPT ![n] = listing]
      BY DEF Resolve, n
    <3> QED BY <1>1, <1>3, <3>1 DEF Shape
  <2>2. task' \in [Rounds -> [Blocks -> PlainTask]]
    <3> DEFINE new == [b \in Blocks |-> IF b \in Offered(listing) THEN Start ELSE NoTask]
    <3>1. task' = [task EXCEPT ![n] = new]
      BY DEF Resolve, n
    <3>2. new \in [Blocks -> PlainTask]
      BY TasksMade
    <3> HIDE DEF new
    <3> QED BY <1>3, <3>1, <3>2 DEF Shape
  <2>3. n \in 0..Downloads
    BY <1>1, DownloadAssumption DEF Rounds
  <2>4. shown' \in [round : 0..Downloads, blocks : Nat, total : 0..FileSize]
    BY <1>2, <2>3, OfferedBound
  <2> QED BY <1>1, <1>2, <1>3, <2>1, <2>2, <2>3, <2>4 DEF Shape
<1>5. FreshInv'
  <2> SUFFICES ASSUME NEW e \in Rounds, e > n
               PROVE  /\ plan'[e] = <<>> /\ counter[e] = 0 /\ result[e] = "none"
                      /\ \A c \in Blocks : task'[e][c].st = "none"
    BY <1>1, <1>2 DEF FreshInv
  <2>1. e # n /\ e > round
    BY <1>3, DownloadAssumption DEF Shape, Rounds, n
  <2> QED BY <1>1, <2>1 DEF Basics, FreshInv
<1>6. TaskInv'
  <2> SUFFICES ASSUME NEW e \in Rounds, NEW c \in Blocks
               PROVE  Fits(task[e][c], e, c)'
    BY DEF TaskInv
  <2>1. CASE e = n
    <3>1. /\ Wanted(e)' = Offered(listing)
          /\ Candidates(plan[e], c)' = Candidates(listing, c)
      BY <1>1, <1>2, <2>1, PlansDecide
    <3>2. CASE c \in Offered(listing)
      <4>1. task'[e][c] = Start
        BY <1>1, <2>1, <3>2
      <4>2. 1 \in 1..Len(Candidates(listing, c))
        BY <1>3, <3>2, OfferedAreProvided DEF Shape
      <4> QED BY <3>1, <3>2, <4>1, <4>2, TasksMade DEF Fits
    <3>3. CASE c \notin Offered(listing)
      <4>1. task'[e][c] = NoTask
        BY <1>1, <2>1, <3>3
      <4> QED BY <4>1, TasksMade DEF Fits
    <3> QED BY <3>2, <3>3
  <2>2. CASE e # n
    <3>1. plan'[e] = plan[e] /\ task'[e][c] = task[e][c] /\ Fits(task[e][c], e, c)
      BY <1>1, <2>2 DEF Basics, TaskInv
    <3> QED BY <1>2, <3>1, PlansDecide DEF Fits, Wanted
  <2> QED BY <2>1, <2>2
<1> QED BY <1>4, <1>5, <1>6 DEF Basics

\* A task that fetches, is refused or reports keeps Basics.
LEMMA BasicsOfTasks ==
    ASSUME Basics, NEW d \in Rounds, NEW b \in Blocks, Step(d, b)
    PROVE  Basics'
<1> DEFINE t == task[d][b]
<1>1. /\ t \in PlainTask /\ counter[d] \in Nat /\ plan[d] \in Seq(Peers)
      /\ refused \subseteq Rounds \X Blocks \X Peers /\ counter \in [Rounds -> Nat]
      /\ shown \in [round : 0..Downloads, blocks : Nat, total : 0..FileSize]
  BY DEF Basics, Shape
<1>2. Fits(t, d, b)
  BY DEF Basics, TaskInv
<1>3. CASE Fetched(d, b)
  <2>1. /\ t.st = "asking"
        /\ \E p \in Peers :
             /\ task' = [task EXCEPT ![d][b] = Got(t, counter[d] + 1, p)]
             /\ \E j \in 1..Len(plan[d]) : p = plan[d][j] /\ b < BlockCount(p)
    BY <1>3, FetchedReads
  <2>2. PICK p \in Peers :
             /\ task' = [task EXCEPT ![d][b] = Got(t, counter[d] + 1, p)]
             /\ \E j \in 1..Len(plan[d]) : p = plan[d][j] /\ b < BlockCount(p)
    BY <2>1
  <2> DEFINE x == Got(t, counter[d] + 1, p)
  <2>3. x \in PlainTask /\ x.st = "counted" /\ x.from = p /\ x.good
    <3>1. counter[d] + 1 \in Nat
      BY <1>1
    <3> QED BY <1>1, <3>1, GotMade
  <2>4. task' = [task EXCEPT ![d][b] = x]
    BY <2>2
  <2> HIDE DEF x
  <2>5. Fits(x, d, b)
    BY <1>2, <2>1, <2>2, <2>3 DEF Fits
  <2>6. /\ UNCHANGED <<block_size, names, host, holders, listing, round, phase, plan, result>>
        /\ UNCHANGED <<refused, shown>> /\ counter' = [counter EXCEPT ![d] = @ + 1]
    BY <1>3 DEF Fetched, world
  <2>7. counter' \in [Rounds -> Nat] /\ \A e \in Rounds : e # d => counter'[e] = counter[e]
    BY <1>1, <2>6
  <2>8. t.st # "none"
    BY <2>1
  <2>9. refused' \subseteq Rounds \X Blocks \X Peers
    BY <1>1, <2>6
  <2>10. shown' \in [round : 0..Downloads, blocks : Nat, total : 0..FileSize]
    BY <1>1, <2>6
  <2> QED BY <2>3, <2>4, <2>5, <2>6, <2>7, <2>8, <2>9, <2>10, BasicsTask
<1>4. CASE Refused(d, b)
  <2> DEFINE c == Candidates(plan[d], b)
  <2>1. /\ t.st = "asking" /\ t.k \in 1..Len(c) /\ c \in Seq(Peers)
        /\ refused' = refused \cup {<<d, b, c[t.k]>>}
        /\ \/ t.k < Len(c) /\ task' = [task EXCEPT ![d][b] = Moved(t)]
           \/ t.k = Len(c) /\ task' = [task EXCEPT ![d][b] = Failed(t)]
    BY <1>4, RefusedReads
  <2> DEFINE x == IF t.k < Len(c) THEN Moved(t) ELSE Failed(t)
  <2>2. t.k \in Nat /\ Len(c) \in Nat
    BY <1>1, <2>1, TasksMade
  <2>3. /\ Moved(t) \in PlainTask /\ Moved(t).st = t.st /\ Moved(t).k = t.k + 1
        /\ Failed(t) \in PlainTask /\ Failed(t).st = "failed"
    BY <1>1, TasksMade
  <2>4. x \in PlainTask /\ task' = [task EXCEPT ![d][b] = x]
    <3>1. CASE t.k < Len(c)
      BY <2>1, <2>2, <2>3, <3>1
    <3>2. CASE t.k = Len(c)
      BY <2>1, <2>2, <2>3, <3>2
    <3> QED BY <2>1, <3>1, <3>2
  <2>5. Fits(x, d, b)
    <3>1. CASE t.k < Len(c)
      <4>1. x = Moved(t) /\ t.k + 1 \in 1..Len(c)
        BY <2>2, <3>1
      <4> HIDE DEF x, c
      <4>2. x.st = "asking" /\ x.k \in 1..Len(c)
        BY <2>1, <2>3, <4>1
      <4> QED BY <1>2, <2>1, <4>2 DEF Fits, c
    <3>2. CASE ~(t.k < Len(c))
      <4>1. x.st = "failed"
        BY <2>3, <3>2
      <4> HIDE DEF x
      <4> QED BY <1>2, <2>1, <4>1 DEF Fits
    <3> QED BY <3>1, <3>2
  <2> HIDE DEF x
  <2>6. /\ UNCHANGED <<block_size, names, host, holders, listing, round, phase, plan, result>>
        /\ UNCHANGED <<counter, shown>>
    BY <1>4 DEF Refused, world
  <2>7. <<d, b, c[t.k]>> \in Rounds \X Blocks \X Peers
    BY <2>1
  <2>8. refused' \subseteq Rounds \X Blocks \X Peers
    BY <1>1, <2>1, <2>7
  <2>9. t.st # "none"
    BY <2>1
  <2>10. counter' \in [Rounds -> Nat] /\ \A e \in Rounds : e # d => counter'[e] = counter[e]
    BY <1>1, <2>6
  <2>11. shown' \in [round : 0..Downloads, blocks : Nat, total : 0..FileSize]
    BY <1>1, <2>6
  <2> QED BY <2>4, <2>5, <2>6, <2>8, <2>9, <2>10, <2>11, BasicsTask
<1>5. CASE Report(d, b)
  <2> DEFINE x == Reported(t)
  <2>1. t.st = "counted" /\ task' = [task EXCEPT ![d][b] = x]
    BY <1>5, ReportReads
  <2>2. x \in PlainTask /\ x.st = "done" /\ x.from = t.from /\ x.good = t.good
    BY <1>1, TasksMade
  <2> HIDE DEF x
  <2>3. Fits(x, d, b)
    BY <1>2, <2>1, <2>2 DEF Fits
  <2>4. /\ UNCHANGED <<block_size, names, host, holders, listing, round, phase, plan, result>>
        /\ UNCHANGED <<counter, refused>>
        /\ shown' = [round |-> d, blocks |-> t.value, total |-> Cardinality(Wanted(d))]
    BY <1>5 DEF Report, world
  <2>5. t.value \in Nat /\ d \in 0..Downloads /\ Cardinality(Wanted(d)) \in 0..FileSize
    BY <1>1, TasksMade, OfferedBound, DownloadAssumption DEF Rounds, Wanted
  <2>6. shown' \in [round : 0..Downloads, blocks : Nat, total : 0..FileSize]
    BY <2>4, <2>5
  <2>7. t.st # "none"
    BY <2>1
  <2>8. refused' \subseteq Rounds \X Blocks \X Peers
    BY <1>1, <2>4
  <2>9. counter' \in [Rounds -> Nat] /\ \A e \in Rounds : e # d => counter'[e] = counter[e]
    BY <1>1, <2>4
  <2> QED BY <2>1, <2>2, <2>3, <2>4, <2>6, <2>7, <2>8, <2>9, BasicsTask
<1> QED BY <1>3, <1>4, <1>5 DEF Step

\* Every step keeps Basics.
LEMMA BasicsStep == Basics /\ [Next]_vars => Basics'
<1> SUFFICES ASSUME Basics, [Next]_vars
             PROVE  Basics'
  OBVIOUS
<1>1. Shape
  BY DEF Basics
<1>2. CASE Resolve
  BY <1>2, BasicsResolve
<1>3. ASSUME NEW d \in Rounds, NEW b \in Blocks, Step(d, b)
      PROVE  Basics'
  BY <1>3, BasicsOfTasks
<1>4. CASE GiveUp \/ Save \/ Reject \/ Publish \/ PublishFails
  <2>1. phase # "idle" /\ round \in Rounds /\ round \in Nat
    BY <1>1, <1>4, DownloadAssumption
       DEF GiveUp, Save, Reject, Joined, Publish, PublishFails, Shape, Rounds
  <2>2. \/ phase' = "publishing" /\ result' = result
        \/ /\ phase' = "idle"
           /\ \E o \in {"failed", "mismatch", "saved", "unpublished"} :
                 result' = [result EXCEPT ![round] = o]
    BY <1>4 DEF GiveUp, Save, Reject, Publish, PublishFails, Settle
  <2>3. holders' \subseteq Peers
    BY <1>1, <1>4, DownloadAssumption
       DEF GiveUp, Save, Reject, Publish, PublishFails, world, Shape
  <2>4. listing' \in Seq(Peers)
    <3>1. listing' = listing \/ Enlist(Self)
      BY <1>4 DEF GiveUp, Save, Reject, Publish, PublishFails, world
    <3> QED BY <1>1, <3>1, ListingKeeps, DownloadAssumption DEF Shape
  <2>5. UNCHANGED <<block_size, names, host, round, plan, task, counter, refused, shown>>
    BY <1>4 DEF GiveUp, Save, Reject, Publish, PublishFails, world
  <2>6. /\ result' \in [Rounds -> {"none", "failed", "mismatch", "saved", "unpublished"}]
        /\ \A d \in Rounds : d > round => result'[d] = result[d]
    <3>1. CASE result' = result
      BY <1>1, <3>1 DEF Shape
    <3>2. ASSUME NEW o \in {"failed", "mismatch", "saved", "unpublished"},
                 result' = [result EXCEPT ![round] = o]
          PROVE  /\ result' \in [Rounds -> {"none", "failed", "mismatch", "saved",
                                            "unpublished"}]
                 /\ \A d \in Rounds : d # round => result'[d] = result[d]
      BY <1>1, <2>1, <3>2 DEF Shape
    <3>3. \A d \in Rounds : d > round => d # round
      BY <2>1
    <3> QED BY <2>2, <3>1, <3>2, <3>3
  <2>7. Shape'
    BY <1>1, <2>1, <2>2, <2>3, <2>4, <2>5, <2>6 DEF Shape
  <2> QED BY <2>5, <2>6, <2>7, IdleKeeps DEF Idle
<1>5. ASSUME NEW p \in Peers, Announces(p) \/ Expires(p) \/ Fails(p) \/ Hangs(p) \/ Deletes(p)
      PROVE  Basics'
  <2>1. UNCHANGED <<block_size, names, round, phase, plan, task, counter, refused, result, shown>>
    BY <1>5 DEF Announces, Expires, Fails, Hangs, Deletes, others
  <2>2. listing' \in Seq(Peers)
    <3>1. \/ listing' = listing \/ Enlist(p)
          \/ listing' = Only(listing, Peers \ {p})
      BY <1>5 DEF Announces, Expires, Fails, Hangs, Deletes
    <3> QED BY <1>1, <3>1, ListingKeeps DEF Shape
  <2>3. host' \in [Peers -> {"up", "down", "hung"}] /\ holders' \subseteq Peers
    BY <1>1, <1>5 DEF Announces, Expires, Fails, Hangs, Deletes, Shape
  <2>4. Shape'
    BY <1>1, <2>1, <2>2, <2>3 DEF Shape
  <2> QED BY <2>1, <2>4, IdleKeeps DEF Idle
<1>6. CASE UNCHANGED vars
  <2>1. Shape'
    BY <1>1, <1>6 DEF vars, Shape
  <2> QED BY <1>6, <2>1, IdleKeeps DEF Idle, vars
<1> QED BY <1>2, <1>3, <1>4, <1>5, <1>6 DEF Next, Worker

-----------------------------------------------------------------------------
(* Counting.                                                                  *)

\* A task that has no block has no number.
ValueInv ==
    \A d \in Rounds : \A b \in Blocks :
        task[d][b].st \notin {"counted", "done"} => task[d][b].value = 0

\* The counter of a download, and the numbers its tasks hold, are at most the number
\* of blocks.
LEMMA CountsBound ==
    ASSUME Shape, CountsAreExact, NEW d \in Rounds
    PROVE  /\ counter[d] =< FileSize
           /\ \A b \in Counting(d) : task[d][b].value =< FileSize
<1> DEFINE f == [b \in Counting(d) |-> task[d][b].value]
           V == {task[d][b].value : b \in Counting(d)}
<1>1. FileSize \in Nat \ {0} /\ counter[d] \in Nat
  BY DownloadAssumption DEF Shape
<1>2. IsFiniteSet(Blocks) /\ Cardinality(Blocks) = FileSize
  <2>1. 0 \in Int /\ FileSize - 1 \in Int /\ ~(0 > FileSize - 1) /\ (FileSize - 1) - 0 + 1 = FileSize
    BY <1>1
  <2> QED BY <2>1, FS_Interval DEF Blocks
<1>3. IsFiniteSet(Counting(d)) /\ Cardinality(Counting(d)) =< FileSize
  <2>1. Counting(d) \subseteq Blocks
    BY DEF Counting
  <2> QED BY <1>2, <2>1, FS_Subset
<1>4. V = 1..counter[d]
  BY DEF CountsAreExact
<1>5. Cardinality(V) =< Cardinality(Counting(d))
  <2>1. f \in Surjection(Counting(d), V)
    BY DEF Surjection
  <2> HIDE DEF f, V
  <2> QED BY <1>3, <2>1, FS_Surjection
<1> HIDE DEF V
<1>6. Cardinality(V) = counter[d]
  <2>1. 1 \in Int /\ counter[d] \in Int
    BY <1>1
  <2>2. Cardinality(1..counter[d]) = IF 1 > counter[d] THEN 0 ELSE counter[d] - 1 + 1
    BY <2>1, FS_Interval
  <2> QED BY <1>1, <1>4, <2>2
<1>7. Cardinality(Counting(d)) \in Nat
  BY <1>3, FS_CardinalityType
<1>8. counter[d] =< FileSize
  BY <1>1, <1>3, <1>5, <1>6, <1>7
<1>9. \A b \in Counting(d) : task[d][b].value \in 1..counter[d]
  BY <1>4 DEF V
<1> QED BY <1>1, <1>8, <1>9

\* What TypeOK adds to Basics, and what it follows from.
CountInv == CountsAreExact /\ ValueInv /\ shown.blocks =< FileSize

\* Counting a block gives its task the next number.
LEMMA CountNext ==
    ASSUME Basics, CountsAreExact, NEW d \in Rounds, NEW b \in Blocks, Fetched(d, b)
    PROVE  CountsAreExact' /\ (ValueInv => ValueInv')
<1> DEFINE n == counter[d] + 1
<1>1. PICK p \in Peers : task' = [task EXCEPT ![d][b] = Got(task[d][b], n, p)]
  BY FetchedReads
<1>2. task[d][b].st = "asking" /\ counter' = [counter EXCEPT ![d] = n]
  BY DEF Fetched
<1>3. task[d][b] \in PlainTask /\ counter[d] \in Nat /\ n \in Nat /\ d \in DOMAIN counter
  BY DEF Basics, Shape
<1> HIDE DEF n
<1>4. Got(task[d][b], n, p).st = "counted" /\ Got(task[d][b], n, p).value = n
  BY <1>3, GotMade
<1>5. /\ task'[d][b].st = "counted" /\ task'[d][b].value = n /\ counter'[d] = n
      /\ \A e \in Rounds, c \in Blocks : (e # d \/ c # b) => task'[e][c] = task[e][c]
      /\ \A e \in Rounds : e # d => counter'[e] = counter[e]
  BY <1>1, <1>2, <1>3, <1>4 DEF Basics, Shape
<1>6. Counting(d)' = Counting(d) \cup {b} /\ b \notin Counting(d)
  BY <1>2, <1>5 DEF Counting
<1>7. \A c \in Counting(d) : task'[d][c] = task[d][c] /\ task[d][c].value \in 1..counter[d]
  <2>1. Counting(d) \subseteq Blocks
    BY DEF Counting
  <2>2. \A c \in Counting(d) : c # b
    BY <1>6
  <2> QED BY <1>5, <2>1, <2>2 DEF CountsAreExact
<1>8. \A x, y \in Counting(d)' : x # y => task'[d][x].value # task'[d][y].value
  <2>1. n \notin 1..counter[d]
    BY <1>3 DEF n
  <2> QED BY <1>5, <1>6, <1>7, <2>1 DEF CountsAreExact
<1>9. {task'[d][x].value : x \in Counting(d)'} = 1..counter'[d]
  <2>1. {task'[d][x].value : x \in Counting(d)'} = {task[d][x].value : x \in Counting(d)} \cup {n}
    BY <1>5, <1>6, <1>7
  <2>2. (1..counter[d]) \cup {n} = 1..n
    BY <1>3 DEF n
  <2>3. {task[d][x].value : x \in Counting(d)} = 1..counter[d]
    BY DEF CountsAreExact
  <2> QED BY <1>5, <2>1, <2>2, <2>3
<1>10. ASSUME NEW e \in Rounds, e # d
       PROVE  Counting(e)' = Counting(e) /\ \A c \in Counting(e) : task'[e][c] = task[e][c]
  BY <1>5, <1>10 DEF Counting
<1>11. ASSUME NEW e \in Rounds
       PROVE  /\ \A x, y \in Counting(e)' : x # y => task'[e][x].value # task'[e][y].value
              /\ {task'[e][x].value : x \in Counting(e)'} = 1..counter'[e]
  <2>1. CASE e = d
    BY <1>8, <1>9, <2>1
  <2>2. CASE e # d
    <3>1. /\ \A x, y \in Counting(e) : x # y => task[e][x].value # task[e][y].value
          /\ {task[e][x].value : x \in Counting(e)} = 1..counter[e]
      BY DEF CountsAreExact
    <3> QED BY <1>5, <1>10, <2>2, <3>1
  <2> QED BY <2>1, <2>2
<1>12. ValueInv => ValueInv'
  BY <1>5 DEF ValueInv
<1> QED BY <1>11, <1>12 DEF CountsAreExact

\* Steps that neither count nor give a task another number, but may start a download
\* or move a task that has none, keep the counts.
LEMMA CountsStay ==
    ASSUME CountsAreExact, ValueInv,
           \A d \in Rounds : Counting(d)' = Counting(d) /\ counter'[d] = counter[d],
           \A d \in Rounds, b \in Blocks : task'[d][b].value = task[d][b].value
    PROVE  CountsAreExact' /\ ValueInv'
<1>1. \A d \in Rounds, b \in Blocks :
          b \in Counting(d) <=> task[d][b].st \in {"counted", "done"}
  BY DEF Counting
<1>2. \A d \in Rounds, b \in Blocks :
          b \in Counting(d)' <=> task'[d][b].st \in {"counted", "done"}
  BY DEF Counting
<1>3. ValueInv'
  BY <1>1, <1>2 DEF ValueInv
<1>4. ASSUME NEW e \in Rounds
      PROVE  /\ \A x, y \in Counting(e)' : x # y => task'[e][x].value # task'[e][y].value
             /\ {task'[e][x].value : x \in Counting(e)'} = 1..counter'[e]
  <2>1. /\ \A x, y \in Counting(e) : x # y => task[e][x].value # task[e][y].value
        /\ {task[e][x].value : x \in Counting(e)} = 1..counter[e]
    BY DEF CountsAreExact
  <2>2. \A x \in Counting(e) : x \in Blocks
    BY DEF Counting
  <2>3. \A x \in Counting(e) : task'[e][x].value = task[e][x].value
    BY <2>2
  <2> QED BY <2>1, <2>3
<1> QED BY <1>3, <1>4 DEF CountsAreExact

\* Every step keeps the counts.
LEMMA CountStep == Basics /\ CountInv /\ [Next]_vars => CountInv'
<1> SUFFICES ASSUME Basics, CountInv, [Next]_vars
             PROVE  CountInv'
  OBVIOUS
<1>1. Shape /\ CountsAreExact /\ ValueInv /\ shown.blocks =< FileSize
  BY DEF Basics, CountInv
<1>2. CASE Resolve
  <2> DEFINE n == round + 1
  <2>1. /\ n \in Rounds /\ \A e \in Rounds : e # n => task'[e] = task[e]
        /\ \A b \in Blocks : task'[n][b] = IF b \in Offered(listing) THEN Start ELSE NoTask
    BY <1>2, ResolveReads
  <2>2. counter' = counter /\ shown'.blocks = 0
    BY <1>2 DEF Resolve
  <2>3. n > round
    BY <1>1, DownloadAssumption DEF Shape
  <2> HIDE DEF n
  <2>4. /\ Start.st = "asking" /\ NoTask.st = "none" /\ Start.value = 0 /\ NoTask.value = 0
    BY DEF Start, NoTask
  <2>5. \A b \in Blocks : task[n][b].st = "none" /\ task[n][b].value = 0
    BY <1>1, <2>1, <2>3 DEF Basics, FreshInv, ValueInv
  <2>6. \A b \in Blocks : task'[n][b].st \in {"asking", "none"} /\ task'[n][b].value = 0
    BY <2>1, <2>4
  <2>7. \A d \in Rounds : Counting(d)' = Counting(d)
    <3> SUFFICES ASSUME NEW d \in Rounds
                 PROVE  Counting(d)' = Counting(d)
      OBVIOUS
    <3>1. CASE d = n
      BY <2>5, <2>6, <3>1 DEF Counting
    <3>2. CASE d # n
      BY <2>1, <3>2 DEF Counting
    <3> QED BY <3>1, <3>2
  <2>8. \A d \in Rounds, b \in Blocks : task'[d][b].value = task[d][b].value
    BY <2>1, <2>5, <2>6
  <2>9. CountsAreExact' /\ ValueInv'
    BY <1>1, <2>2, <2>7, <2>8, CountsStay
  <2>10. 0 =< FileSize
    BY DownloadAssumption
  <2> QED BY <2>2, <2>9, <2>10 DEF CountInv
<1>3. ASSUME NEW d \in Rounds, NEW b \in Blocks, Fetched(d, b)
      PROVE  CountInv'
  <2>1. shown' = shown
    BY <1>3 DEF Fetched
  <2> QED BY <1>1, <1>3, <2>1, CountNext DEF CountInv
<1>4. ASSUME NEW d \in Rounds, NEW b \in Blocks, Refused(d, b)
      PROVE  CountInv'
  <2> DEFINE t == task[d][b]
  <2>1. /\ t.st = "asking"
        /\ \/ task' = [task EXCEPT ![d][b] = Moved(t)]
           \/ task' = [task EXCEPT ![d][b] = Failed(t)]
    BY <1>4, RefusedReads
  <2>2. Moved(t).st = t.st /\ Failed(t).st = "failed" /\ Moved(t).value = t.value
        /\ Failed(t).value = t.value
    BY <1>1 DEF Shape, PlainTask, Moved, Failed
  <2>3. /\ task'[d][b].st \in {"asking", "failed"} /\ task'[d][b].value = t.value
        /\ \A e \in Rounds, c \in Blocks : (e # d \/ c # b) => task'[e][c] = task[e][c]
    BY <1>1, <2>1, <2>2 DEF Shape
  <2>4. counter' = counter /\ shown' = shown
    BY <1>4 DEF Refused
  <2>5. \A e \in Rounds : Counting(e)' = Counting(e)
    BY <2>1, <2>3 DEF Counting
  <2>6. \A e \in Rounds, c \in Blocks : task'[e][c].value = task[e][c].value
    BY <2>3
  <2>7. CountsAreExact' /\ ValueInv'
    BY <1>1, <2>4, <2>5, <2>6, CountsStay
  <2> QED BY <1>1, <2>4, <2>7 DEF CountInv
<1>5. ASSUME NEW d \in Rounds, NEW b \in Blocks, Report(d, b)
      PROVE  CountInv'
  <2> DEFINE t == task[d][b]
  <2>1. t.st = "counted" /\ task' = [task EXCEPT ![d][b] = Reported(t)]
    BY <1>5, ReportReads
  <2>2. Reported(t).st = "done" /\ Reported(t).value = t.value
    BY <1>1, TasksMade DEF Shape
  <2>3. /\ task'[d][b].st = "done" /\ task'[d][b].value = t.value
        /\ \A e \in Rounds, c \in Blocks : (e # d \/ c # b) => task'[e][c] = task[e][c]
    BY <1>1, <2>1, <2>2 DEF Shape
  <2>4. counter' = counter /\ shown'.blocks = t.value
    BY <1>5 DEF Report
  <2>5. \A e \in Rounds : Counting(e)' = Counting(e)
    BY <2>1, <2>3 DEF Counting
  <2>6. \A e \in Rounds, c \in Blocks : task'[e][c].value = task[e][c].value
    BY <2>3
  <2>7. CountsAreExact' /\ ValueInv'
    BY <1>1, <2>4, <2>5, <2>6, CountsStay
  <2>8. b \in Counting(d)
    BY <2>1 DEF Counting
  <2>9. t.value =< FileSize
    BY <1>1, <2>8, CountsBound
  <2> QED BY <2>4, <2>7, <2>9 DEF CountInv
<1>6. ASSUME UNCHANGED <<task, counter, shown>>
      PROVE  CountInv'
  <2>1. \A e \in Rounds : Counting(e)' = Counting(e)
    BY <1>6 DEF Counting
  <2>2. CountsAreExact' /\ ValueInv'
    BY <1>1, <1>6, <2>1, CountsStay
  <2> QED BY <1>1, <1>6, <2>2 DEF CountInv
<1>7. CASE GiveUp \/ Save \/ Reject \/ Publish \/ PublishFails
  BY <1>6, <1>7 DEF GiveUp, Save, Reject, Publish, PublishFails
<1>8. ASSUME NEW p \in Peers, Announces(p) \/ Expires(p) \/ Fails(p) \/ Hangs(p) \/ Deletes(p)
      PROVE  CountInv'
  BY <1>6, <1>8 DEF Announces, Expires, Fails, Hangs, Deletes, others
<1>9. CASE UNCHANGED vars
  BY <1>6, <1>9 DEF vars
<1> QED BY <1>2, <1>3, <1>4, <1>5, <1>7, <1>8, <1>9 DEF Next, Worker, Step

\* No block is counted at the start.
LEMMA CountInit == Init => CountInv
<1> SUFFICES ASSUME Init
             PROVE  CountInv
  OBVIOUS
<1>1. \A d \in Rounds, b \in Blocks : task[d][b].st = "none" /\ task[d][b].value = 0
  BY DEF Init, NoTask
<1>2. \A d \in Rounds : Counting(d) = {} /\ counter[d] = 0
  BY <1>1 DEF Counting, Init
<1>3. CountsAreExact
  BY <1>2 DEF CountsAreExact
<1>4. ValueInv
  BY <1>1 DEF ValueInv
<1>5. shown.blocks =< FileSize
  BY DownloadAssumption DEF Init
<1> QED BY <1>3, <1>4, <1>5 DEF CountInv

\* Basics and CountInv make the type invariant.
LEMMA TypeOKFollows == Basics /\ CountInv => TypeOK
<1> SUFFICES ASSUME Basics, CountInv
             PROVE  TypeOK
  OBVIOUS
<1>1. Shape /\ CountsAreExact /\ ValueInv /\ shown.blocks =< FileSize
  BY DEF Basics, CountInv
<1>2. FileSize \in Nat
  BY DownloadAssumption
<1>3. \A d \in Rounds : counter[d] \in 0..FileSize
  BY <1>1, <1>2, CountsBound DEF Shape
<1>4. ASSUME NEW d \in Rounds, NEW b \in Blocks
      PROVE  task[d][b] \in Task
  <2>1. task[d][b] \in PlainTask
    BY <1>1 DEF Shape
  <2>2. task[d][b].value =< FileSize
    <3>1. CASE b \in Counting(d)
      BY <1>1, <3>1, CountsBound
    <3>2. CASE b \notin Counting(d)
      BY <1>1, <1>2, <3>2 DEF Counting, ValueInv
    <3> QED BY <3>1, <3>2
  <2> QED BY <1>2, <2>1, <2>2 DEF PlainTask, Task
<1>5. task \in [Rounds -> [Blocks -> Task]]
  <2>1. task = [d \in Rounds |-> [b \in Blocks |-> task[d][b]]]
    BY <1>1 DEF Shape
  <2>2. [d \in Rounds |-> [b \in Blocks |-> task[d][b]]] \in [Rounds -> [Blocks -> Task]]
    BY <1>4
  <2> QED BY <2>1, <2>2
<1>6. counter \in [Rounds -> 0..FileSize]
  BY <1>1, <1>3 DEF Shape
<1>7. shown \in [round : 0..Downloads, blocks : 0..FileSize, total : 0..FileSize]
  BY <1>1, <1>2 DEF Shape
<1> QED BY <1>1, <1>5, <1>6, <1>7 DEF Shape, TypeOK

\* Basics and the counts, at every state.
LEMMA CountsHold == Spec => [](Basics /\ CountInv)
<1>1. Init => Basics /\ CountInv
  BY BasicsInit, CountInit
<1>2. Basics /\ CountInv /\ [Next]_vars => Basics' /\ CountInv'
  BY BasicsStep, CountStep
<1> QED BY <1>1, <1>2, PTL DEF Spec

\* The state of the downloads and of the nodes is well formed: no counter passes the
\* number of blocks, whatever tasks of earlier downloads still run.
THEOREM TypeIsInvariant == Spec => []TypeOK
<1>1. Basics /\ CountInv => TypeOK
  BY TypeOKFollows
<1> QED BY <1>1, CountsHold, PTL

\* downloaded_count of every download gives each task that has its block a number of
\* its own, 1 up to the number of blocks there are.
THEOREM CountsAreAlwaysExact == Spec => []CountsAreExact
<1>1. CountInv => CountsAreExact
  BY DEF CountInv
<1> QED BY <1>1, CountsHold, PTL

-----------------------------------------------------------------------------
(* How downloads end.                                                         *)

\* No step touches the plan of a download that has started, a task that is not
\* running, or what has been refused.
LEMMA Frame ==
    ASSUME Basics, [Next]_vars
    PROVE  /\ block_size' = block_size /\ refused \subseteq refused'
           /\ \A d \in Rounds : d =< round => plan'[d] = plan[d]
           /\ \A d \in Rounds, b \in Blocks :
                 d =< round /\ task[d][b].st \in {"none", "done", "failed"} =>
                     task'[d][b] = task[d][b]
<1>1. Shape
  BY DEF Basics
<1>2. CASE Resolve
  <2>1. \A e \in Rounds : e # round + 1 => plan'[e] = plan[e] /\ task'[e] = task[e]
    BY <1>2, ResolveReads
  <2>2. \A e \in Rounds : e =< round => e # round + 1
    BY <1>1, DownloadAssumption DEF Shape, Rounds
  <2>3. block_size' = block_size /\ refused' = refused
    BY <1>2 DEF Resolve, world
  <2> QED BY <2>1, <2>2, <2>3
<1>3. ASSUME NEW e \in Rounds, NEW c \in Blocks, Step(e, c)
      PROVE  /\ block_size' = block_size /\ refused \subseteq refused' /\ plan' = plan
             /\ task[e][c].st \in {"asking", "counted"}
             /\ \A d \in Rounds, b \in Blocks :
                   (d # e \/ b # c) => task'[d][b] = task[d][b]
  <2>1. CASE Fetched(e, c)
    <3>1. PICK p \in Peers : task' = [task EXCEPT ![e][c] = Got(task[e][c], counter[e] + 1, p)]
      BY <2>1, FetchedReads
    <3>2. UNCHANGED <<block_size, names, plan, refused>> /\ task[e][c].st = "asking"
      BY <2>1 DEF Fetched, world
    <3> QED BY <1>1, <3>1, <3>2 DEF Shape
  <2>2. CASE Refused(e, c)
    <3>1. /\ task[e][c].st = "asking"
          /\ refused \subseteq refused'
          /\ \/ task' = [task EXCEPT ![e][c] = Moved(task[e][c])]
             \/ task' = [task EXCEPT ![e][c] = Failed(task[e][c])]
      BY <2>2, RefusedReads
    <3>2. UNCHANGED <<block_size, names, plan>>
      BY <2>2 DEF Refused, world
    <3> QED BY <1>1, <3>1, <3>2 DEF Shape
  <2>3. CASE Report(e, c)
    <3>1. /\ task[e][c].st = "counted"
          /\ task' = [task EXCEPT ![e][c] = Reported(task[e][c])]
      BY <2>3, ReportReads
    <3>2. UNCHANGED <<block_size, names, plan, refused>>
      BY <2>3 DEF Report, world
    <3> QED BY <1>1, <3>1, <3>2 DEF Shape
  <2> QED BY <1>3, <2>1, <2>2, <2>3 DEF Step
<1>4. \A e \in Rounds, c \in Blocks, d \in Rounds, b \in Blocks :
          /\ task[e][c].st \in {"asking", "counted"}
          /\ task[d][b].st \in {"none", "done", "failed"}
          => d # e \/ b # c
  OBVIOUS
<1>5. ASSUME NEW e \in Rounds, NEW c \in Blocks, Step(e, c)
      PROVE  /\ block_size' = block_size /\ refused \subseteq refused' /\ plan' = plan
             /\ \A d \in Rounds, b \in Blocks :
                   task[d][b].st \in {"none", "done", "failed"} => task'[d][b] = task[d][b]
  BY <1>3, <1>4, <1>5
<1>6. CASE GiveUp \/ Save \/ Reject \/ Publish \/ PublishFails
  <2>1. UNCHANGED <<block_size, names, plan, task, refused>>
    BY <1>6 DEF GiveUp, Save, Reject, Publish, PublishFails, world
  <2> QED BY <2>1
<1>7. ASSUME NEW p \in Peers, Announces(p) \/ Expires(p) \/ Fails(p) \/ Hangs(p) \/ Deletes(p)
      PROVE  UNCHANGED <<block_size, names, plan, task, refused>>
  BY <1>7 DEF Announces, Expires, Fails, Hangs, Deletes, others
<1>8. CASE UNCHANGED vars
  BY <1>8 DEF vars
<1> QED BY <1>2, <1>5, <1>6, <1>7, <1>8 DEF Next, Worker

\* The worker settles the latest download, and no other: how it may.
LEMMA Settles ==
    ASSUME Basics, [Next]_vars, NEW d \in Rounds
    PROVE  /\ result'[d] # result[d] =>
                /\ d = round
                /\ \/ /\ result'[d] = "failed"
                      /\ \E b \in Wanted(d) : task[d][b].st = "failed"
                   \/ /\ result'[d] = "mismatch" /\ Joined(d) /\ ~Whole(d)
                   \/ /\ result'[d] \in {"saved", "unpublished"} /\ phase = "publishing"
           /\ d = round' /\ phase' = "publishing" =>
                d = round /\ (phase = "publishing" \/ (Joined(d) /\ Whole(d)))
<1> DEFINE Settled == result'[d] # result[d] =>
                /\ d = round
                /\ \/ /\ result'[d] = "failed"
                      /\ \E b \in Wanted(d) : task[d][b].st = "failed"
                   \/ /\ result'[d] = "mismatch" /\ Joined(d) /\ ~Whole(d)
                   \/ /\ result'[d] \in {"saved", "unpublished"} /\ phase = "publishing"
           Saves == d = round' /\ phase' = "publishing" =>
                d = round /\ (phase = "publishing" \/ (Joined(d) /\ Whole(d)))
<1>1. result \in [Rounds -> {"none", "failed", "mismatch", "saved", "unpublished"}]
  BY DEF Basics, Shape
<1>2. ASSUME UNCHANGED <<round, phase, result>>
      PROVE  Settled /\ Saves
  BY <1>2
<1>3. ASSUME NEW o, Settle(o)
      PROVE  /\ phase' = "idle"
             /\ result'[d] # result[d] => d = round /\ result'[d] = o
  BY <1>1, <1>3 DEF Settle
<1>4. CASE Resolve
  BY <1>4 DEF Resolve
<1>5. ASSUME NEW e \in Rounds, NEW c \in Blocks, Step(e, c)
      PROVE  UNCHANGED <<round, phase, result>>
  BY <1>5 DEF Step, Fetched, Refused, Report
<1>6. CASE GiveUp
  <2>1. Settle("failed") /\ \E b \in Wanted(round) : task[round][b].st = "failed"
    BY <1>6 DEF GiveUp
  <2> QED BY <1>3, <2>1
<1>7. CASE Save
  <2>1. Joined(round) /\ Whole(round) /\ UNCHANGED <<round, result>>
    BY <1>7 DEF Save, HashMatches
  <2> QED BY <2>1
<1>8. CASE Reject
  <2>1. Joined(round) /\ ~Whole(round) /\ Settle("mismatch")
    BY <1>8 DEF Reject, HashMatches
  <2> QED BY <1>3, <2>1
<1>9. CASE Publish
  <2>1. phase = "publishing" /\ Settle("saved")
    BY <1>9 DEF Publish
  <2> QED BY <1>3, <2>1
<1>10. CASE PublishFails
  <2>1. phase = "publishing" /\ Settle("unpublished")
    BY <1>10 DEF PublishFails
  <2> QED BY <1>3, <2>1
<1>11. ASSUME NEW p \in Peers, Announces(p) \/ Expires(p) \/ Fails(p) \/ Hangs(p) \/ Deletes(p)
      PROVE  UNCHANGED <<round, phase, result>>
  BY <1>11 DEF Announces, Expires, Fails, Hangs, Deletes, others
<1>12. CASE UNCHANGED vars
  BY <1>2, <1>12 DEF vars
<1> HIDE DEF Settled, Saves
<1>13. CASE Worker
  BY <1>4, <1>6, <1>7, <1>8, <1>9, <1>10, <1>13 DEF Worker, Settled, Saves
<1>14. CASE \E e \in Rounds, c \in Blocks : Step(e, c)
  <2>1. UNCHANGED <<round, phase, result>>
    BY <1>5, <1>14
  <2> QED BY <1>2, <2>1
<1>15. CASE \E p \in Peers : \/ Announces(p) \/ Expires(p) \/ Fails(p) \/ Hangs(p)
                            \/ Deletes(p)
  <2>1. UNCHANGED <<round, phase, result>>
    BY <1>11, <1>15
  <2> QED BY <1>2, <2>1
<1> QED BY <1>12, <1>13, <1>14, <1>15 DEF Next

\* A download that has ended, or is the latest, has started.
LEMMA KeptIsStarted ==
    ASSUME Basics, NEW d \in Rounds, result[d] # "none" \/ d = round
    PROVE  d =< round
<1>1. d \in Nat /\ round \in Nat
  BY DownloadAssumption DEF Basics, Shape, Rounds
<1>2. CASE result[d] # "none"
  BY <1>1, <1>2 DEF Basics, FreshInv
<1>3. CASE d = round
  BY <1>1, <1>3
<1> QED BY <1>2, <1>3

-----------------------------------------------------------------------------
(* Giving up.                                                                 *)

\* The candidates before the one that is asked have refused; all of them, of a task
\* that has failed.
Exhausts(t, d, b) ==
    /\ t.st = "asking" =>
          \A i \in 1..(t.k - 1) : <<d, b, Candidates(plan[d], b)[i]>> \in refused
    /\ t.st = "failed" =>
          \A i \in 1..Len(Candidates(plan[d], b)) :
              <<d, b, Candidates(plan[d], b)[i]>> \in refused

RefuseInv ==
    /\ \A d \in Rounds, b \in Blocks : Exhausts(task[d][b], d, b)
    /\ \A d \in Rounds : result[d] = "failed" =>
          \E b \in Wanted(d) : task[d][b].st = "failed"

\* A task that has failed has been refused by every peer listed with its block.
LEMMA FailuresHaveCause == Basics /\ RefuseInv => FailsForCause
<1> SUFFICES ASSUME Basics, RefuseInv, NEW d \in Rounds, result[d] = "failed"
             PROVE  \E b \in Wanted(d) : \A i \in 1..Len(plan[d]) :
                       b < BlockCount(plan[d][i]) => <<d, b, plan[d][i]>> \in refused
  BY DEF FailsForCause
<1>1. PICK b \in Wanted(d) : task[d][b].st = "failed"
  BY DEF RefuseInv
<1>2. b \in Blocks /\ b \in Nat
  BY DownloadAssumption DEF Wanted, Offered, Blocks
<1>3. \A i \in 1..Len(Candidates(plan[d], b)) :
          <<d, b, Candidates(plan[d], b)[i]>> \in refused
  BY <1>1, <1>2 DEF RefuseInv, Exhausts
<1>4. Provide(Candidates(plan[d], b), plan[d], b)
  BY <1>2, CandidatesAreProviders DEF Basics, Shape
<1>5. ASSUME NEW i \in 1..Len(plan[d]), b < BlockCount(plan[d][i])
      PROVE  <<d, b, plan[d][i]>> \in refused
  <2>1. PICK j \in 1..Len(Candidates(plan[d], b)) : Candidates(plan[d], b)[j] = plan[d][i]
    BY <1>4, <1>5 DEF Provide
  <2> QED BY <1>3, <2>1
<1> QED BY <1>5

\* Every step keeps what is known of refusals.
LEMMA ExhaustsStep ==
    ASSUME Basics, RefuseInv, [Next]_vars, NEW d \in Rounds, NEW b \in Blocks
    PROVE  Exhausts(task[d][b], d, b)'
<1>1. Shape /\ Exhausts(task[d][b], d, b)
  BY DEF Basics, RefuseInv
<1>2. ASSUME block_size' = block_size, refused \subseteq refused', plan'[d] = plan[d],
             task'[d][b] = task[d][b]
      PROVE  Exhausts(task[d][b], d, b)'
  <2>1. Candidates(plan[d], b)' = Candidates(plan[d], b)
    BY <1>2, PlansDecide
  <2> QED BY <1>1, <1>2, <2>1 DEF Exhausts
<1>3. CASE Resolve
  <2>1. /\ \A e \in Rounds : e # round + 1 => plan'[e] = plan[e] /\ task'[e] = task[e]
        /\ \A c \in Blocks : task'[round + 1][c] = IF c \in Offered(listing) THEN Start ELSE NoTask
    BY <1>3, ResolveReads
  <2>2. block_size' = block_size /\ refused' = refused
    BY <1>3 DEF Resolve, world
  <2>3. CASE d # round + 1
    BY <1>2, <2>1, <2>2, <2>3
  <2>4. CASE d = round + 1
    <3>1. task'[d][b] = Start \/ task'[d][b] = NoTask
      BY <2>1, <2>4
    <3>2. task'[d][b].st # "failed" /\ (task'[d][b].st = "asking" => task'[d][b].k = 1)
      BY <3>1, TasksMade
    <3> QED BY <3>2 DEF Exhausts
  <2> QED BY <2>3, <2>4
<1>4. ASSUME NEW e \in Rounds, NEW c \in Blocks, Fetched(e, c) \/ Report(e, c)
      PROVE  Exhausts(task[d][b], d, b)'
  <2>1. UNCHANGED <<block_size, names, plan, refused>>
    BY <1>4 DEF Fetched, Report, world
  <2>2. /\ task'[e][c].st \in {"counted", "done"}
        /\ \A f \in Rounds, a \in Blocks : (f # e \/ a # c) => task'[f][a] = task[f][a]
    <3>1. CASE Fetched(e, c)
      <4>1. PICK p \in Peers : task' = [task EXCEPT ![e][c] = Got(task[e][c], counter[e] + 1, p)]
        BY <3>1, FetchedReads
      <4>2. Got(task[e][c], counter[e] + 1, p).st = "counted"
        <5>1. task[e][c] \in PlainTask /\ counter[e] + 1 \in Nat
          BY <1>1 DEF Shape
        <5> QED BY <5>1, GotMade
      <4> QED BY <1>1, <4>1, <4>2 DEF Shape
    <3>2. CASE Report(e, c)
      <4>1. task' = [task EXCEPT ![e][c] = Reported(task[e][c])]
        BY <3>2, ReportReads
      <4>2. Reported(task[e][c]).st = "done"
        BY <1>1, TasksMade DEF Shape
      <4> QED BY <1>1, <4>1, <4>2 DEF Shape
    <3> QED BY <1>4, <3>1, <3>2
  <2>3. CASE d = e /\ b = c
    BY <2>2, <2>3 DEF Exhausts
  <2>4. CASE ~(d = e /\ b = c)
    BY <1>2, <2>1, <2>2, <2>4
  <2> QED BY <2>3, <2>4
<1>5. ASSUME NEW e \in Rounds, NEW c \in Blocks, Refused(e, c)
      PROVE  Exhausts(task[d][b], d, b)'
  <2> DEFINE t == task[e][c]
             q == Candidates(plan[e], c)
  <2>1. /\ t.st = "asking" /\ t.k \in 1..Len(q) /\ q \in Seq(Peers)
        /\ refused' = refused \cup {<<e, c, q[t.k]>>}
        /\ \/ t.k < Len(q) /\ task' = [task EXCEPT ![e][c] = Moved(t)]
           \/ t.k = Len(q) /\ task' = [task EXCEPT ![e][c] = Failed(t)]
    BY <1>5, RefusedReads
  <2>2. UNCHANGED <<block_size, names, plan>>
    BY <1>5 DEF Refused, world
  <2>3. /\ Moved(t).st = t.st /\ Moved(t).k = t.k + 1 /\ Failed(t).st = "failed"
        /\ Len(q) \in Nat /\ t.k \in Nat
    <3>1. t \in PlainTask
      BY <1>1 DEF Shape
    <3>2. Len(q) \in Nat /\ t.k \in Nat
      BY <2>1
    <3> HIDE DEF t, q
    <3>3. /\ Moved(t).st = t.st /\ Moved(t).k = t.k + 1
          /\ Failed(t).st = "failed"
      BY <3>1, TasksMade
    <3> QED BY <3>2, <3>3
  <2>4. /\ \/ t.k < Len(q) /\ task'[e][c] = Moved(t)
           \/ t.k = Len(q) /\ task'[e][c] = Failed(t)
        /\ \A f \in Rounds, a \in Blocks : (f # e \/ a # c) => task'[f][a] = task[f][a]
    BY <1>1, <2>1 DEF Shape
  <2>5. CASE d = e /\ b = c
    <3>1. Candidates(plan[e], c)' = q
      BY <2>2, PlansDecide
    <3>2. \A i \in 1..(t.k - 1) : <<e, c, q[i]>> \in refused
      BY <1>1, <2>1, <2>5 DEF Exhausts
    <3>3. \A i \in 1..t.k : i = t.k \/ i \in 1..(t.k - 1)
      BY <2>3
    <3> HIDE DEF t, q
    <3>4. \A i \in 1..t.k : <<e, c, q[i]>> \in refused'
      BY <2>1, <3>2, <3>3
    <3>5. (t.k + 1) - 1 = t.k
      BY <2>3
    <3>6. CASE t.k < Len(q) /\ task'[e][c] = Moved(t)
      <4>1. task'[d][b].st = "asking" /\ task'[d][b].k - 1 = t.k
        BY <2>1, <2>3, <2>5, <3>5, <3>6
      <4> QED BY <2>5, <3>1, <3>4, <4>1 DEF Exhausts
    <3>7. CASE t.k = Len(q) /\ task'[e][c] = Failed(t)
      <4>1. task'[d][b].st = "failed"
        BY <2>3, <2>5, <3>7
      <4> QED BY <2>5, <3>1, <3>4, <3>7, <4>1 DEF Exhausts
    <3> QED BY <2>4, <3>6, <3>7
  <2>6. CASE ~(d = e /\ b = c)
    BY <1>2, <2>1, <2>2, <2>4, <2>6
  <2> QED BY <2>5, <2>6
<1>6. CASE GiveUp \/ Save \/ Reject \/ Publish \/ PublishFails
  <2>1. UNCHANGED <<block_size, names, plan, task, refused>>
    BY <1>6 DEF GiveUp, Save, Reject, Publish, PublishFails, world
  <2> QED BY <1>2, <2>1
<1>7. ASSUME NEW p \in Peers, Announces(p) \/ Expires(p) \/ Fails(p) \/ Hangs(p) \/ Deletes(p)
      PROVE  Exhausts(task[d][b], d, b)'
  <2>1. UNCHANGED <<block_size, names, plan, task, refused>>
    BY <1>7 DEF Announces, Expires, Fails, Hangs, Deletes, others
  <2> QED BY <1>2, <2>1
<1>8. CASE UNCHANGED vars
  BY <1>2, <1>8 DEF vars
<1> QED BY <1>3, <1>4, <1>5, <1>6, <1>7, <1>8 DEF Next, Worker, Step

\* Every step keeps RefuseInv.
LEMMA RefuseStep == Basics /\ RefuseInv /\ [Next]_vars => RefuseInv'
<1> SUFFICES ASSUME Basics, RefuseInv, [Next]_vars
             PROVE  RefuseInv'
  OBVIOUS
<1>1. \A d \in Rounds, b \in Blocks : Exhausts(task[d][b], d, b)'
  BY ExhaustsStep
<1>2. ASSUME NEW d \in Rounds, result'[d] = "failed"
      PROVE  \E b \in Wanted(d)' : task'[d][b].st = "failed"
  <2>1. result'[d] # result[d] => d = round /\ \E b \in Wanted(d) : task[d][b].st = "failed"
    BY <1>2, Settles
  <2>2. PICK b \in Wanted(d) : task[d][b].st = "failed"
    BY <1>2, <2>1 DEF RefuseInv
  <2>3. d =< round
    BY <1>2, <2>1, KeptIsStarted
  <2>4. b \in Blocks
    BY DEF Wanted, Offered
  <2>5. block_size' = block_size /\ plan'[d] = plan[d] /\ task'[d][b] = task[d][b]
    BY <2>2, <2>3, <2>4, Frame
  <2>6. Wanted(d)' = Wanted(d)
    BY <2>5, PlansDecide DEF Wanted
  <2> QED BY <2>2, <2>5, <2>6
<1> QED BY <1>1, <1>2 DEF RefuseInv

\* A download gives up only over a block that each peer of its listing that has it
\* was asked for and did not deliver.
THEOREM FailuresAreForCause == Spec => []FailsForCause
<1>1. Init => RefuseInv
  <2> SUFFICES ASSUME Init
               PROVE  RefuseInv
    OBVIOUS
  <2>1. \A d \in Rounds, b \in Blocks : task[d][b].st = "none"
    BY TasksMade DEF Init
  <2>2. \A d \in Rounds, b \in Blocks : Exhausts(task[d][b], d, b)
    BY <2>1 DEF Exhausts
  <2> QED BY <2>2 DEF Init, RefuseInv
<1>2. Init => Basics
  BY BasicsInit
<1>3. Basics /\ RefuseInv /\ [Next]_vars => Basics' /\ RefuseInv'
  BY BasicsStep, RefuseStep
<1>4. Basics /\ RefuseInv => FailsForCause
  BY FailuresHaveCause
<1> QED BY <1>1, <1>2, <1>3, <1>4, PTL DEF Spec

-----------------------------------------------------------------------------
(* False alarms.                                                              *)

\* A peer has the blocks that begin before the end of the file.
LEMMA BlockBegins ==
    ASSUME NEW z \in Nat \ {0}, NEW n \in Nat, NEW b \in Nat
    PROVE  b < (n + z - 1) \div z <=> b * z < n
<1> DEFINE q == (n + z - 1) \div z
           r == (n + z - 1) % z
<1>1. q \in Int /\ r \in 0..(z - 1) /\ n + z - 1 = z * q + r
  BY Z3
<1> HIDE DEF q, r
<1>2. CASE b < q
  <2>1. q - b >= 1 /\ q - b \in Int
    BY <1>1, <1>2
  <2>2. z * (q - b) >= z
    BY <2>1
  <2>3. z * (q - b) = z * q - b * z
    BY <1>1
  <2> QED BY <1>1, <1>2, <2>2, <2>3 DEF q
<1>3. CASE ~(b < q)
  <2>1. b - q >= 0 /\ b - q \in Int
    BY <1>1, <1>3
  <2>2. z * (b - q) >= 0
    BY <2>1
  <2>3. z * (b - q) = b * z - z * q
    BY <1>1
  <2> QED BY <1>1, <1>3, <2>2, <2>3 DEF q
<1> QED BY <1>2, <1>3

Alike(d) ==
    \A i, j \in 1..Len(plan[d]) : block_size[plan[d][i]] = block_size[plan[d][j]]

\* Blocks that are all there, cut alike, are the file from end to end.
LEMMA AlikeIsWhole ==
    ASSUME Basics, NEW d \in Rounds, \A b \in Wanted(d) : task[d][b].st = "done", Alike(d)
    PROVE  Whole(d)
<1>1. /\ Shape /\ FileSize \in Nat \ {0} /\ Wanted(d) \subseteq Blocks
      /\ Blocks = 0..(FileSize - 1)
  BY DownloadAssumption DEF Basics, Wanted, Offered, Blocks
<1>2. plan[d] \in Seq(Peers) /\ \A p \in Peers : block_size[p] \in Nat \ {0}
  <2>1. block_size \in [Peers -> Nat \ {0}]
    BY <1>1, DownloadAssumption DEF Shape
  <2> QED BY <1>1, <2>1 DEF Shape
<1>3. SUFFICES ASSUME NEW b \in Wanted(d)
               PROVE  /\ task[d][b].good
                      /\ From(d, b) = IF b = 0 THEN 0 ELSE Upto(d, b - 1)
                      /\ b + 1 \notin Wanted(d) => Upto(d, b) = FileSize
  BY DEF Whole
<1>4. \A c \in Wanted(d) : /\ task[d][c].good
                           /\ \E j \in 1..Len(plan[d]) : task[d][c].from = plan[d][j]
  BY <1>1 DEF Basics, TaskInv, Fits
<1>5. PICK n \in 1..Len(plan[d]) : b < BlockCount(plan[d][n])
  BY DEF Wanted, Offered
<1> DEFINE z == block_size[plan[d][n]]
<1>6. z \in Nat \ {0} /\ b \in Nat /\ b < FileSize
  BY <1>1, <1>2
<1>7. \A j \in 1..Len(plan[d]) : block_size[plan[d][j]] = z
  BY DEF Alike
<1>8. \A c \in Wanted(d) : block_size[task[d][c].from] = z
  BY <1>4, <1>7
<1>9. BlockCount(plan[d][n]) = (FileSize + z - 1) \div z
  BY DEF BlockCount
<1> HIDE DEF z
<1>10. \A c \in Wanted(d) :
          /\ From(d, c) = c * z
          /\ Upto(d, c) = IF c * z + z < FileSize THEN c * z + z ELSE FileSize
  BY <1>8 DEF From, Upto
<1>11. b * z < FileSize
  BY <1>1, <1>5, <1>6, <1>9, BlockBegins
<1>12. From(d, b) = IF b = 0 THEN 0 ELSE Upto(d, b - 1)
  <2>1. b = 0 => From(d, b) = 0
    BY <1>6, <1>10
  <2>2. b # 0 => From(d, b) = Upto(d, b - 1)
    <3> SUFFICES ASSUME b # 0
                 PROVE  From(d, b) = Upto(d, b - 1)
      OBVIOUS
    <3>1. b - 1 \in Blocks /\ b - 1 < BlockCount(plan[d][n])
      <4>1. (FileSize + z - 1) \div z \in Int
        BY <1>1, <1>6
      <4> QED BY <1>1, <1>5, <1>6, <1>9, <4>1
    <3>2. b - 1 \in Wanted(d)
      BY <3>1 DEF Wanted, Offered
    <3>3. (b - 1) * z + z = b * z
      BY <1>6
    <3> QED BY <1>10, <1>11, <3>2, <3>3
  <2> QED BY <2>1, <2>2
<1>13. ASSUME b + 1 \notin Wanted(d)
       PROVE  Upto(d, b) = FileSize
  <2>1. (b + 1) * z = b * z + z
    BY <1>6
  <2>2. ~((b + 1) * z < FileSize)
    <3>1. CASE b + 1 \in Blocks
      <4>1. ~(b + 1 < BlockCount(plan[d][n]))
        BY <1>13, <3>1 DEF Wanted, Offered
      <4>2. b + 1 \in Nat
        BY <1>6
      <4> QED BY <1>1, <1>6, <1>9, <4>1, <4>2, BlockBegins
    <3>2. CASE b + 1 \notin Blocks
      <4>1. b + 1 = FileSize
        BY <1>1, <1>6, <3>2
      <4>2. FileSize * z >= FileSize
        BY <1>1, <1>6
      <4>3. FileSize * z \in Int
        BY <1>1, <1>6
      <4> QED BY <1>1, <4>1, <4>2, <4>3
    <3> QED BY <3>1, <3>2
  <2> QED BY <1>10, <2>1, <2>2
<1> QED BY <1>4, <1>12, <1>13

\* Every step keeps NoFalseAlarm.
LEMMA AlarmStep == Basics /\ NoFalseAlarm /\ [Next]_vars => NoFalseAlarm'
<1> SUFFICES ASSUME Basics, NoFalseAlarm, [Next]_vars, NEW d \in Rounds,
                    result'[d] = "mismatch"
             PROVE  \E i, j \in 1..Len(plan'[d]) :
                       block_size'[plan'[d][i]] # block_size'[plan'[d][j]]
  BY DEF NoFalseAlarm
<1>1. result'[d] # result[d] => d = round /\ Joined(d) /\ ~Whole(d)
  BY Settles
<1>2. ~Alike(d)
  <2>1. CASE result[d] = "mismatch"
    BY <2>1 DEF NoFalseAlarm, Alike
  <2>2. CASE result[d] # "mismatch"
    BY <1>1, <2>2, AlikeIsWhole DEF Joined
  <2> QED BY <2>1, <2>2
<1>3. d =< round
  BY <1>1, KeptIsStarted
<1>4. block_size' = block_size /\ plan'[d] = plan[d]
  BY <1>3, Frame
<1> QED BY <1>2, <1>4 DEF Alike

\* When the peers of its listing cut the file alike, a download that got all its
\* blocks does not reject them.
THEOREM NoFalseAlarms == Spec => []NoFalseAlarm
<1>1. Init => Basics /\ NoFalseAlarm
  BY BasicsInit DEF Init, NoFalseAlarm
<1>2. Basics /\ NoFalseAlarm /\ [Next]_vars => Basics' /\ NoFalseAlarm'
  BY BasicsStep, AlarmStep
<1> QED BY <1>1, <1>2, PTL DEF Spec

-----------------------------------------------------------------------------
(* Fair shares.                                                               *)

\* The numbers of W that lead to a place in X, of n places.
Residue(W, n, X) == {b \in W : (b % n) + 1 \in X}

\* Shifting a set of numbers makes it no larger.
LEMMA Shifted ==
    ASSUME NEW S, S \subseteq Int, IsFiniteSet(S), NEW k \in Int
    PROVE  LET T == {b + k : b \in S}
           IN IsFiniteSet(T) /\ Cardinality(T) =< Cardinality(S)
<1> DEFINE T == {b + k : b \in S}
           f == [c \in T |-> c - k]
<1>1. f \in Injection(T, S)
  <2>1. f \in [T -> S]
    OBVIOUS
  <2>2. \A c, e \in T : f[c] = f[e] => c = e
    OBVIOUS
  <2> HIDE DEF f, T
  <2> QED BY <2>1, <2>2 DEF Injection, IsInjective
<1> HIDE DEF f, T
<1> QED BY <1>1, FS_Injection DEF T

\* A number is known by its quotient and its remainder.
LEMMA Quotient ==
    ASSUME NEW n \in Nat \ {0}, NEW b \in Nat
    PROVE  /\ b \div n \in Nat /\ b % n \in 0..(n - 1) /\ n * (b \div n) \in Nat
           /\ b = n * (b \div n) + (b % n)
<1> DEFINE q == b \div n
           m == b % n
<1>1. q \in Int /\ m \in 0..(n - 1) /\ b = n * q + m
  BY Z3
<1> HIDE DEF q, m
<1>2. q >= 0
  <2>1. q =< -1 => n * q =< -n
    BY <1>1
  <2> QED BY <1>1, <2>1
<1>3. n * q \in Nat
  BY <1>1, <1>2
<1> QED BY <1>1, <1>2, <1>3 DEF q, m

\* Of the naturals up to a bound, a set of places gets as many per place as another,
\* give or take one.
LEMMA ResiduesAreFair ==
    ASSUME NEW W, W \subseteq Nat, IsFiniteSet(W),
           \A b \in W : \A c \in Nat : c =< b => c \in W,
           NEW n \in Nat \ {0}, NEW X, X \subseteq 1..n, NEW Y, Y \subseteq 1..n
    PROVE  Cardinality(Residue(W, n, X)) * Cardinality(Y)
              =< (Cardinality(Residue(W, n, Y)) + Cardinality(Y)) * Cardinality(X)
<1> DEFINE S == Residue(W, n, X)
           T == Residue(W, n, Y)
           T1 == {b + n : b \in T}
           Y1 == {y + (-1) : y \in Y}
           U == T1 \cup Y1
           F(z) == <<n * (z[1] \div n) + (z[2] - 1), (z[1] % n) + 1>>
           f == [z \in S \X Y |-> F(z)]
<1>1. IsFiniteSet(S) /\ IsFiniteSet(T) /\ IsFiniteSet(X) /\ IsFiniteSet(Y)
  <2>1. IsFiniteSet(1..n)
    BY FS_Interval
  <2> QED BY <2>1, FS_Subset DEF Residue
<1>2. S \subseteq Nat /\ T \subseteq Nat
  BY DEF Residue
<1>3. ASSUME NEW b \in S, NEW y \in Y
      PROVE  n * (b \div n) + (y - 1) \in U /\ (b % n) + 1 \in X
  <2>1. b \in W /\ b \in Nat /\ (b % n) + 1 \in X /\ y \in 1..n
    BY DEF Residue
  <2>2. PICK q \in Nat : q = b \div n /\ n * q \in Nat /\ n * q =< b
    <3>1. b % n \in Nat
      BY <2>1
    <3> DEFINE m == b % n
    <3>2. m \in Nat /\ b \div n \in Nat /\ n * (b \div n) \in Nat /\ b = n * (b \div n) + m
      BY <2>1, <3>1, Quotient
    <3> HIDE DEF m
    <3> QED BY <3>2
  <2>3. CASE q = 0
    <3>1. n * (b \div n) + (y - 1) = y + (-1)
      BY <2>1, <2>2, <2>3
    <3> QED BY <2>1, <3>1
  <2>4. CASE q # 0
    <3> DEFINE c == n * (q - 1) + (y - 1)
    <3>1. q - 1 \in Nat /\ n * (q - 1) = n * q - n /\ n * (q - 1) >= 0
      BY <2>2, <2>4
    <3>2. c \in Nat /\ c =< b /\ c + n = n * q + (y - 1)
      BY <2>1, <2>2, <3>1
    <3>3. c % n = y - 1
      <4>1. y - 1 \in 0..(n - 1) /\ q - 1 \in Int
        BY <2>1, <3>1
      <4> QED BY <4>1, Remainder
    <3> HIDE DEF c
    <3>4. c \in T
      BY <2>1, <3>2, <3>3 DEF Residue
    <3> QED BY <2>1, <2>2, <3>2, <3>4
  <2> QED BY <2>1, <2>3, <2>4
<1>4. ASSUME NEW b \in S, NEW y \in Y, NEW c \in S, NEW x \in Y,
             n * (b \div n) + (y - 1) = n * (c \div n) + (x - 1), (b % n) + 1 = (c % n) + 1
      PROVE  b = c /\ y = x
  <2>1. b \in Nat /\ c \in Nat /\ y - 1 \in 0..(n - 1) /\ x - 1 \in 0..(n - 1)
    BY <1>2
  <2>2. PICK q \in Nat, m \in 0..(n - 1) : q = b \div n /\ m = b % n /\ b = n * q + m
    BY <2>1, Quotient
  <2>3. PICK r \in Nat, l \in 0..(n - 1) : r = c \div n /\ l = c % n /\ c = n * r + l
    BY <2>1, Quotient
  <2>4. m = l
    BY <1>4, <2>2, <2>3
  <2>5. n * q + (y - 1) = n * r + (x - 1)
    BY <1>4, <2>2, <2>3
  <2>6. (n * q + (y - 1)) % n = y - 1 /\ (n * r + (x - 1)) % n = x - 1
    <3>1. q \in Int /\ r \in Int
      OBVIOUS
    <3> QED BY <2>1, <3>1, Remainder
  <2>7. y - 1 = x - 1
    BY <2>5, <2>6
  <2>8. y = x
    BY <2>7
  <2>9. n * q = n * r
    BY <2>1, <2>5, <2>7
  <2> QED BY <2>2, <2>3, <2>4, <2>8, <2>9
<1>5. f \in Injection(S \X Y, U \X X)
  <2> HIDE DEF S, U
  <2>1. \A z \in S \X Y : f[z] = F(z) /\ z[1] \in S /\ z[2] \in Y /\ z = <<z[1], z[2]>>
    OBVIOUS
  <2>2. \A z \in S \X Y : F(z) \in U \X X
    BY <1>3, <2>1
  <2>3. f \in [S \X Y -> U \X X]
    BY <2>1, <2>2
  <2>4. ASSUME NEW z \in S \X Y, NEW w \in S \X Y, f[z] = f[w]
        PROVE  z = w
    <3> DEFINE b == z[1]
               y == z[2]
               c == w[1]
               x == w[2]
    <3>1. b \in S /\ y \in Y /\ c \in S /\ x \in Y
      BY <2>1
    <3>2. F(z) = F(w)
      BY <2>1, <2>4
    <3>3. n * (b \div n) + (y - 1) = n * (c \div n) + (x - 1) /\ (b % n) + 1 = (c % n) + 1
      BY <3>2
    <3> HIDE DEF b, y, c, x
    <3>4. b = c /\ y = x
      BY <1>4, <3>1, <3>3
    <3>5. z[1] = w[1] /\ z[2] = w[2]
      BY <3>4 DEF b, y, c, x
    <3> QED BY <2>1, <3>5
  <2> HIDE DEF f
  <2> QED BY <2>3, <2>4 DEF Injection, IsInjective
<1>6. /\ IsFiniteSet(T1) /\ Cardinality(T1) =< Cardinality(T)
      /\ IsFiniteSet(Y1) /\ Cardinality(Y1) =< Cardinality(Y)
  <2>1. T \subseteq Int /\ Y \subseteq Int
    BY <1>2
  <2> HIDE DEF T
  <2>2. -1 \in Int /\ n \in Int
    OBVIOUS
  <2>3. IsFiniteSet(T1) /\ Cardinality(T1) =< Cardinality(T)
    BY <1>1, <2>1, <2>2, Shifted
  <2>4. IsFiniteSet(Y1) /\ Cardinality(Y1) =< Cardinality(Y)
    BY <1>1, <2>1, <2>2, Shifted
  <2> QED BY <2>3, <2>4
<1> HIDE DEF S, T, T1, Y1, f
<1>7. IsFiniteSet(U) /\ Cardinality(U) =< Cardinality(T) + Cardinality(Y)
  <2>1. IsFiniteSet(T1 \cap Y1)
    BY <1>6, FS_Subset
  <2>2. /\ Cardinality(T1 \cap Y1) \in Nat /\ Cardinality(T1) \in Nat
        /\ Cardinality(Y1) \in Nat /\ Cardinality(T) \in Nat /\ Cardinality(Y) \in Nat
    BY <1>1, <1>6, <2>1, FS_CardinalityType
  <2>3. /\ IsFiniteSet(U)
        /\ Cardinality(U) = Cardinality(T1) + Cardinality(Y1) - Cardinality(T1 \cap Y1)
    BY <1>6, FS_Union
  <2> QED BY <1>6, <2>2, <2>3
<1> HIDE DEF U
<1>8. Cardinality(S \X Y) =< Cardinality(U \X X)
  <2>1. IsFiniteSet(U \X X)
    BY <1>1, <1>7, FS_Product
  <2> QED BY <1>5, <2>1, FS_Injection
<1>9. /\ Cardinality(S \X Y) = Cardinality(S) * Cardinality(Y)
      /\ Cardinality(U \X X) = Cardinality(U) * Cardinality(X)
  BY <1>1, <1>7, FS_Product
<1>10. /\ Cardinality(S) \in Nat /\ Cardinality(T) \in Nat /\ Cardinality(U) \in Nat
       /\ Cardinality(X) \in Nat /\ Cardinality(Y) \in Nat
  BY <1>1, <1>7, FS_CardinalityType
<1>11. Cardinality(U) * Cardinality(X) =< (Cardinality(T) + Cardinality(Y)) * Cardinality(X)
  <2>1. \A k, l, m \in Nat : k =< l => k * m =< l * m
    OBVIOUS
  <2>2. Cardinality(T) + Cardinality(Y) \in Nat
    BY <1>10
  <2> QED BY <1>7, <1>10, <2>1, <2>2
<1> QED BY <1>8, <1>9, <1>10, <1>11 DEF S, T

\* What goes before and after: the list with Self last names the same peers, each as
\* often.
LEMMA SelfLastKeeps ==
    ASSUME NEW s \in Seq(Peers)
    PROVE  /\ SelfLast(s) \in Seq(Peers)
           /\ \A p \in Peers : Times(SelfLast(s), p) = Times(s, p)
<1> DEFINE u == Only(s, Peers \ {Self})
           v == Only(s, {Self})
           w == u \o v
<1>1. u \in Seq(Peers) /\ Keeps(u, s, Peers \ {Self}, Len(s))
  BY OnlyKeeps
<1>2. v \in Seq(Peers) /\ Keeps(v, s, {Self}, Len(s))
  BY OnlyKeeps
<1>3. SelfLast(s) = w
  BY DEF SelfLast
<1> HIDE DEF u, v
<1>4. /\ w \in Seq(Peers) /\ Len(w) = Len(u) + Len(v) /\ Len(u) \in Nat /\ Len(v) \in Nat
      /\ \A i \in 1..Len(u) : w[i] = u[i]
      /\ \A i \in 1..Len(v) : w[Len(u) + i] = v[i]
  BY <1>1, <1>2
<1> HIDE DEF w
<1>5. (\A i \in 1..Len(u) : u[i] # Self) /\ (\A i \in 1..Len(v) : v[i] = Self)
  BY <1>1, <1>2 DEF Keeps
<1>6. ASSUME NEW i \in 1..Len(w), i \notin 1..Len(u)
      PROVE  w[i] = Self
  <2>1. i - Len(u) \in 1..Len(v) /\ i = Len(u) + (i - Len(u))
    BY <1>4, <1>6
  <2> QED BY <1>4, <1>5, <2>1
<1>7. ASSUME NEW p \in Peers, p # Self
      PROVE  Times(w, p) = Times(s, p)
  <2>1. Places(w, Len(w), p) = Places(u, Len(u), p)
    BY <1>4, <1>6, <1>7 DEF Places
  <2>2. Cardinality(Places(u, Len(u), p)) = Cardinality(Places(s, Len(s), p))
    BY <1>1, <1>7 DEF Keeps
  <2> QED BY <2>1, <2>2 DEF Times, Places
<1>8. Times(w, Self) = Times(s, Self)
  <2>1. Places(w, Len(w), Self) = (Len(u) + 1)..(Len(u) + Len(v))
    <3>1. \A i \in 1..Len(w) : w[i] = Self <=> i \notin 1..Len(u)
      BY <1>4, <1>5, <1>6
    <3> QED BY <1>4, <3>1 DEF Places
  <2>2. Places(v, Len(v), Self) = 1..Len(v)
    BY <1>5 DEF Places
  <2>3. /\ Cardinality((Len(u) + 1)..(Len(u) + Len(v))) = Len(v)
        /\ Cardinality(1..Len(v)) = Len(v)
    <3> DEFINE a == Len(u) + 1
               b == Len(u) + Len(v)
    <3>1. /\ a \in Int /\ b \in Int /\ 1 \in Int /\ Len(v) \in Int
          /\ (IF a > b THEN 0 ELSE b - a + 1) = Len(v)
          /\ (IF 1 > Len(v) THEN 0 ELSE Len(v) - 1 + 1) = Len(v)
      BY <1>4
    <3> HIDE DEF a, b
    <3>2. Cardinality(a..b) = Len(v)
      BY <3>1, FS_Interval
    <3>3. Cardinality(1..Len(v)) = Len(v)
      BY <3>1, FS_Interval
    <3> QED BY <3>2, <3>3 DEF a, b
  <2>4. Cardinality(Places(v, Len(v), Self)) = Cardinality(Places(s, Len(s), Self))
    BY <1>2 DEF Keeps
  <2> QED BY <2>1, <2>2, <2>3, <2>4 DEF Times, Places
<1> QED BY <1>3, <1>4, <1>7, <1>8

\* The first candidate for block b, when all peers listed have it.
LEMMA FirstChoice ==
    ASSUME NEW s \in Seq(Peers), NEW b \in Nat, \A j \in 1..Len(s) : b < BlockCount(s[j]),
           Len(SelfLast(s)) \in Nat \ {0}
    PROVE  Candidates(s, b)[1] = SelfLast(s)[(b % Len(SelfLast(s))) + 1]
<1> DEFINE P == {q \in Peers : b < BlockCount(q)}
<1>1. Only(s, P) \in Seq(Peers) /\ Keeps(Only(s, P), s, P, Len(s))
  BY OnlyKeeps
<1>2. Only(s, P) = s
  <2>1. \A j \in 1..Len(s) : s[j] \in P
    OBVIOUS
  <2> HIDE DEF P
  <2>2. Len(Only(s, P)) = Len(s) /\ \A j \in 1..Len(s) : Only(s, P)[j] = s[j]
    BY <1>1, <2>1 DEF Keeps
  <2> QED BY <1>1, <2>2
<1>3. Candidates(s, b) = Rotate(SelfLast(s), b)
  BY <1>2 DEF Candidates, Providers
<1>4. 1 \in 1..Len(SelfLast(s)) /\ (1 - 1) + b = b
  OBVIOUS
<1> QED BY <1>3, <1>4 DEF Rotate

\* Among peers that cut the file alike, shares per name differ by one at most.
LEMMA SharesFollow ==
    ASSUME Shape, NEW d \in Rounds, NEW p \in Peers, NEW q \in Peers, plan[d] # <<>>,
           \A n \in 1..Len(plan[d]) : block_size[plan[d][n]] = block_size[plan[d][1]]
    PROVE  Cardinality(Share(d, p)) * Times(plan[d], q)
              =< (Cardinality(Share(d, q)) + Times(plan[d], q)) * Times(plan[d], p)
<1> DEFINE s == plan[d]
           L == SelfLast(s)
           n == Len(L)
           W == Wanted(d)
<1>1. s \in Seq(Peers) /\ Blocks \subseteq Nat /\ IsFiniteSet(Blocks)
  <2>1. FileSize - 1 \in Int /\ 0 \in Int /\ FileSize \in Nat
    BY DownloadAssumption
  <2>2. IsFiniteSet(0..(FileSize - 1))
    BY <2>1, FS_Interval
  <2> QED BY <2>1, <2>2 DEF Shape, Blocks
<1>2. L \in Seq(Peers) /\ \A r \in Peers : Times(L, r) = Times(s, r)
  BY <1>1, SelfLastKeeps
<1>3. \A m \in 1..Len(s) : BlockCount(s[m]) = BlockCount(s[1])
  BY DEF BlockCount
<1>4. W \subseteq Blocks /\ \A b \in W : \A m \in 1..Len(s) : b < BlockCount(s[m])
  BY <1>3 DEF Wanted, Offered
<1>5. 1 \in 1..Len(s) /\ s[1] \in Peers
  BY <1>1
<1>6. n \in Nat \ {0}
  <2>1. n \in Nat
    BY <1>2
  <2>2. 1 \in Places(s, Len(s), s[1]) /\ Len(s) \in Nat
    BY <1>1, <1>5 DEF Places
  <2>3. IsFiniteSet(Places(s, Len(s), s[1]))
    BY <2>2, PlacesGrow
  <2>4. Cardinality(Places(s, Len(s), s[1])) # 0
    BY <2>2, <2>3, FS_EmptySet
  <2>5. n = 0 => Places(L, n, s[1]) = {}
    BY DEF Places
  <2>6. Cardinality(Places(L, n, s[1])) = Cardinality(Places(s, Len(s), s[1]))
    BY <1>2, <1>5 DEF Times, Places
  <2> QED BY <2>1, <2>4, <2>5, <2>6, FS_EmptySet
<1>7. \A b \in W : Candidates(s, b)[1] = L[(b % n) + 1]
  <2> SUFFICES ASSUME NEW b \in W
               PROVE  Candidates(s, b)[1] = L[(b % n) + 1]
    OBVIOUS
  <2>1. b \in Nat /\ \A m \in 1..Len(s) : b < BlockCount(s[m])
    BY <1>1, <1>4
  <2>2. Len(SelfLast(s)) \in Nat \ {0}
    BY <1>6
  <2> HIDE DEF s
  <2> QED BY <1>1, <2>1, <2>2, FirstChoice
<1>8. \A b \in W : \A c \in Nat : c =< b => c \in W
  <2> SUFFICES ASSUME NEW b \in W, NEW c \in Nat, c =< b
               PROVE  c \in W
    OBVIOUS
  <2>1. b \in Nat /\ b < BlockCount(s[1]) /\ b \in 0..(FileSize - 1)
    BY <1>1, <1>4, <1>5 DEF Blocks
  <2>2. BlockCount(s[1]) \in Int
    <3>1. block_size[s[1]] \in Nat \ {0}
      BY <1>5, DownloadAssumption DEF Shape
    <3>2. FileSize \in Nat
      BY DownloadAssumption
    <3> QED BY <3>1, <3>2 DEF BlockCount
  <2>3. c < BlockCount(s[1]) /\ c \in Blocks
    BY <2>1, <2>2, DownloadAssumption DEF Blocks
  <2> QED BY <1>5, <2>3 DEF Wanted, Offered
<1>9. W \subseteq Nat /\ IsFiniteSet(W)
  BY <1>1, <1>4, FS_Subset
<1> HIDE DEF n, L, W
<1>10. ASSUME NEW r \in Peers
       PROVE  Share(d, r) = Residue(W, n, Places(L, n, r))
  <2>1. ASSUME NEW b \in W
        PROVE  Candidates(s, b)[1] = r <=> (b % n) + 1 \in Places(L, n, r)
    <3>1. (b % n) + 1 \in 1..n
      <4>1. b \in Nat
        BY <1>9
      <4> QED BY <1>6, <4>1
    <3> QED BY <1>7, <3>1 DEF Places
  <2> QED BY <2>1 DEF Share, W, Residue
<1>11. \A r \in Peers : Times(s, r) = Cardinality(Places(L, n, r)) /\ Places(L, n, r) \subseteq 1..n
  BY <1>2 DEF Times, Places, n
<1>12. LET X == Places(L, n, p)
           Y == Places(L, n, q)
       IN Cardinality(Residue(W, n, X)) * Cardinality(Y)
             =< (Cardinality(Residue(W, n, Y)) + Cardinality(Y)) * Cardinality(X)
  BY <1>6, <1>8, <1>9, <1>11, ResiduesAreFair
<1> QED BY <1>10, <1>11, <1>12

\* Peers that cut the file alike are asked first for equally many blocks per name
\* they have it under, give or take one, however many they are.
THEOREM SharesAreAlwaysFair == Spec => []SharesAreFair
<1>1. Basics => SharesAreFair
  <2> SUFFICES ASSUME Basics, NEW d \in Rounds, NEW i \in 1..Len(plan[d]),
                      NEW j \in 1..Len(plan[d]),
                      \A n \in 1..Len(plan[d]) : block_size[plan[d][n]] = block_size[plan[d][1]]
               PROVE  LET p == plan[d][i]
                          q == plan[d][j]
                      IN Cardinality(Share(d, p)) * Times(plan[d], q) =<
                            (Cardinality(Share(d, q)) + Times(plan[d], q)) * Times(plan[d], p)
    BY DEF SharesAreFair
  <2>1. plan[d] \in Seq(Peers)
    BY DEF Basics, Shape
  <2>2. plan[d][i] \in Peers /\ plan[d][j] \in Peers /\ plan[d] # <<>>
    BY <2>1
  <2> QED BY <2>2, SharesFollow DEF Basics
<1>2. Basics /\ CountInv => SharesAreFair
  BY <1>1
<1> QED BY <1>2, CountsHold, PTL

-----------------------------------------------------------------------------
(* The downloads as Transfer sees them.                                       *)

\* The blocks got and lost, when one task becomes x.
Sees(d, b, x) ==
    /\ \A e \in Rounds : e # d => Counting(e)' = Counting(e) /\ Lost(e)' = Lost(e)
    /\ x.st \in {"counted", "done"} => Counting(d)' = Counting(d) \cup {b}
    /\ x.st \notin {"counted", "done"} => Counting(d)' = Counting(d) \ {b}
    /\ x.st = "failed" => Lost(d)' = Lost(d) \cup {b}
    /\ x.st # "failed" => Lost(d)' = Lost(d) \ {b}

LEMMA TaskSeen ==
    ASSUME Basics, NEW d \in Rounds, NEW b \in Blocks, NEW x \in PlainTask,
           task' = [task EXCEPT ![d][b] = x]
    PROVE  Sees(d, b, x)
<1>1. /\ task'[d][b] = x
      /\ \A e \in Rounds, c \in Blocks : (e # d \/ c # b) => task'[e][c] = task[e][c]
  BY DEF Basics, Shape
<1>2. \A e \in Rounds : e # d => Counting(e)' = Counting(e) /\ Lost(e)' = Lost(e)
  BY <1>1 DEF Counting, Lost
<1>3. /\ x.st \in {"counted", "done"} => Counting(d)' = Counting(d) \cup {b}
      /\ x.st \notin {"counted", "done"} => Counting(d)' = Counting(d) \ {b}
  BY <1>1 DEF Counting
<1>4. /\ x.st = "failed" => Lost(d)' = Lost(d) \cup {b}
      /\ x.st # "failed" => Lost(d)' = Lost(d) \ {b}
  BY <1>1 DEF Lost
<1> QED BY <1>2, <1>3, <1>4 DEF Sees

\* A block that a task asks for has neither come nor been lost.
LEMMA AskedIsExpected ==
    ASSUME Basics, NEW d \in Rounds, NEW b \in Blocks, task[d][b].st = "asking"
    PROVE  b \in Promise!Expected(d) /\ b \notin Counting(d) /\ b \notin Lost(d)
<1>1. b \in Wanted(d)
  BY StepsAreStarted
<1>2. b \notin Counting(d) /\ b \notin Lost(d)
  BY DEF Counting, Lost
<1> QED BY <1>1, <1>2 DEF Promise!Expected

\* A step of a task is the arrival or the loss of its block, or is not seen.
LEMMA TaskTransfers ==
    ASSUME Basics, NEW d \in Rounds, NEW b \in Blocks, Step(d, b)
    PROVE  Promise!Arrive(d, b) \/ Promise!Lose(d, b) \/ UNCHANGED Promise!vars
<1>1. UNCHANGED <<block_size, names, holders, round, phase, plan, result>>
  BY DEF Step, Fetched, Refused, Report, world
<1>2. \A e \in Rounds : Wanted(e)' = Wanted(e) /\ Outcome(e)' = Outcome(e)
  BY <1>1, PlansDecide DEF Wanted, Outcome
<1>3. /\ (Self \in holders)' = (Self \in holders)
      /\ [e \in Rounds |-> Wanted(e)]' = [e \in Rounds |-> Wanted(e)]
      /\ [e \in Rounds |-> Outcome(e)]' = [e \in Rounds |-> Outcome(e)]
  BY <1>1, <1>2
<1>4. task[d][b] \in PlainTask
  BY DEF Basics, Shape
<1>5. CASE Fetched(d, b)
  <2>1. PICK p \in Peers : task' = [task EXCEPT ![d][b] = Got(task[d][b], counter[d] + 1, p)]
    BY <1>5, FetchedReads
  <2>2. task[d][b].st = "asking" /\ counter' = [counter EXCEPT ![d] = @ + 1]
    BY <1>5 DEF Fetched
  <2>3. counter[d] + 1 \in Nat
    BY DEF Basics, Shape
  <2>4. /\ Got(task[d][b], counter[d] + 1, p) \in PlainTask
        /\ Got(task[d][b], counter[d] + 1, p).st = "counted"
    BY <1>4, <2>3, GotMade
  <2>5. /\ \A e \in Rounds : e # d => Counting(e)' = Counting(e) /\ Lost(e)' = Lost(e)
        /\ Counting(d)' = Counting(d) \cup {b}
        /\ Lost(d)' = Lost(d)
    <3>1. Sees(d, b, Got(task[d][b], counter[d] + 1, p))
      BY <2>1, <2>4, TaskSeen
    <3>2. b \notin Counting(d) /\ b \notin Lost(d)
      BY <2>2, AskedIsExpected
    <3> QED BY <2>4, <3>1, <3>2 DEF Sees
  <2>6. /\ [e \in Rounds |-> Counting(e)]' =
              [[e \in Rounds |-> Counting(e)] EXCEPT ![d] = @ \cup {b}]
        /\ [e \in Rounds |-> Lost(e)]' = [e \in Rounds |-> Lost(e)]
    BY <2>5
  <2>7. b \in Promise!Expected(d)
    BY <2>2, AskedIsExpected
  <2>8. Promise!Arrive(d, b)
    BY <1>1, <1>3, <2>2, <2>6, <2>7 DEF Promise!Arrive
  <2> QED BY <2>8
<1>6. CASE Refused(d, b)
  <2>1. task[d][b].st = "asking" /\ UNCHANGED counter
    BY <1>6 DEF Refused
  <2>2. CASE task' = [task EXCEPT ![d][b] = Moved(task[d][b])]
    <3>1. Moved(task[d][b]) \in PlainTask /\ Moved(task[d][b]).st = "asking"
      BY <1>4, <2>1, TasksMade
    <3>2. \A e \in Rounds : Counting(e)' = Counting(e) /\ Lost(e)' = Lost(e)
      <4>1. Sees(d, b, Moved(task[d][b]))
        BY <2>2, <3>1, TaskSeen
      <4>2. b \notin Counting(d) /\ b \notin Lost(d)
        BY <2>1, AskedIsExpected
      <4> QED BY <3>1, <4>1, <4>2 DEF Sees
    <3> QED BY <1>1, <1>3, <2>1, <3>2 DEF Promise!vars
  <2>3. CASE task' = [task EXCEPT ![d][b] = Failed(task[d][b])]
    <3>1. Failed(task[d][b]) \in PlainTask /\ Failed(task[d][b]).st = "failed"
      BY <1>4, TasksMade
    <3>2. /\ \A e \in Rounds : e # d => Counting(e)' = Counting(e) /\ Lost(e)' = Lost(e)
          /\ Counting(d)' = Counting(d)
          /\ Lost(d)' = Lost(d) \cup {b}
      <4>1. Sees(d, b, Failed(task[d][b]))
        BY <2>3, <3>1, TaskSeen
      <4>2. b \notin Counting(d) /\ b \notin Lost(d)
        BY <2>1, AskedIsExpected
      <4> QED BY <3>1, <4>1, <4>2 DEF Sees
    <3>3. /\ [e \in Rounds |-> Lost(e)]' = [[e \in Rounds |-> Lost(e)] EXCEPT ![d] = @ \cup {b}]
          /\ [e \in Rounds |-> Counting(e)]' = [e \in Rounds |-> Counting(e)]
      BY <3>2
    <3>4. b \in Promise!Expected(d)
      BY <2>1, AskedIsExpected
    <3>5. Promise!Lose(d, b)
      BY <1>1, <1>3, <2>1, <3>3, <3>4 DEF Promise!Lose
    <3> QED BY <3>5
  <2> QED BY <1>6, <2>2, <2>3, RefusedReads
<1>7. CASE Report(d, b)
  <2>1. /\ task[d][b].st = "counted" /\ UNCHANGED counter
        /\ task' = [task EXCEPT ![d][b] = Reported(task[d][b])]
    BY <1>7, ReportReads DEF Report
  <2>2. Reported(task[d][b]) \in PlainTask /\ Reported(task[d][b]).st = "done"
    BY <1>4, TasksMade
  <2>3. b \in Counting(d) /\ b \notin Lost(d)
    BY <2>1 DEF Counting, Lost
  <2>4. \A e \in Rounds : Counting(e)' = Counting(e) /\ Lost(e)' = Lost(e)
    <3>1. Sees(d, b, Reported(task[d][b]))
      BY <2>1, <2>2, TaskSeen
    <3> QED BY <2>2, <2>3, <3>1 DEF Sees
  <2> QED BY <1>1, <1>3, <2>1, <2>4 DEF Promise!vars
<1> QED BY <1>5, <1>6, <1>7 DEF Step

\* A list that is not empty offers a block: every peer cuts the file into at least one.
LEMMA SomethingOffered ==
    ASSUME Basics, NEW s \in Seq(Peers), s # <<>>
    PROVE  Offered(s) # {} /\ Offered(s) \subseteq Blocks
<1> DEFINE p == s[1]
           n == block_size[p]
           a == FileSize + n - 1
           d == a \div n
           m == a % n
<1>1. 1 \in 1..Len(s) /\ p \in Peers
  BY DEF Basics
<1>2. FileSize \in Nat \ {0} /\ n \in Nat \ {0}
  BY <1>1, DownloadAssumption DEF Basics, Shape
<1> HIDE DEF n
<1>3. a \in Nat /\ a >= n /\ d \in Int /\ m \in 0..(n - 1) /\ a = n * d + m
  BY <1>2
<1> HIDE DEF d, m, a
<1>4. d >= 1
  <2>1. d =< 0 => n * d =< 0
    BY <1>2, <1>3
  <2>2. ~(n * d =< 0)
    BY <1>2, <1>3
  <2> QED BY <1>3, <2>1, <2>2
<1>5. 0 < BlockCount(p)
  BY <1>3, <1>4 DEF BlockCount, d, a, n
<1>6. 0 \in Blocks
  BY <1>2 DEF Blocks
<1> QED BY <1>1, <1>5, <1>6 DEF Offered

\* A new download is one of Transfer's.
LEMMA ResolveBegins ==
    ASSUME Basics, Resolve
    PROVE  Promise!Next
<1> PICK n \in Rounds : n = round + 1
  BY ResolveReads
<1> PICK W : W = Offered(listing)
  OBVIOUS
<1>1. /\ n > round /\ n # round
      /\ round' = n /\ phase = "idle" /\ phase' = "fetching"
      /\ UNCHANGED <<block_size, names, holders, counter, result>>
      /\ listing # <<>> /\ listing \in Seq(Peers)
  BY DownloadAssumption DEF Resolve, world, Basics, Shape
<1>2. /\ plan'[n] = listing
      /\ \A e \in Rounds : e # n => plan'[e] = plan[e] /\ task'[e] = task[e]
      /\ \A b \in Blocks : task'[n][b] = IF b \in W THEN Start ELSE NoTask
  BY ResolveReads
<1>3. W # {} /\ W \in SUBSET Blocks
  BY <1>1, SomethingOffered
<1>4. /\ Wanted(n)' = W
      /\ \A e \in Rounds : e # n => Wanted(e)' = Wanted(e)
  <2>1. Wanted(n)' = W
    BY <1>1, <1>2, PlansDecide
  <2>2. ASSUME NEW e \in Rounds, e # n
        PROVE  Wanted(e)' = Wanted(e)
    <3>1. plan'[e] = plan[e]
      BY <1>2, <2>2
    <3> QED BY <1>1, <3>1, PlansDecide DEF Wanted
  <2> QED BY <2>1, <2>2
<1>5. \A e \in Rounds : Counting(e)' = Counting(e) /\ Lost(e)' = Lost(e)
  <2>1. \A b \in Blocks : task[n][b].st = "none"
    BY <1>1 DEF Basics, FreshInv
  <2>2. \A b \in Blocks : task'[n][b].st \in {"asking", "none"}
    BY <1>2, TasksMade
  <2>3. Counting(n) = {} /\ Lost(n) = {}
    BY <2>1 DEF Counting, Lost
  <2>4. Counting(n)' = {} /\ Lost(n)' = {}
    BY <2>2 DEF Counting, Lost
  <2>5. ASSUME NEW e \in Rounds, e # n
        PROVE  Counting(e)' = Counting(e) /\ Lost(e)' = Lost(e)
    <3>1. task'[e] = task[e]
      BY <1>2, <2>5
    <3> QED BY <3>1 DEF Counting, Lost
  <2> QED BY <2>3, <2>4, <2>5
<1>6. /\ Outcome(n)' = "running"
      /\ \A e \in Rounds : Outcome(e) = result[e]
      /\ \A e \in Rounds : e # n => Outcome(e)' = Outcome(e)
  <2>1. Outcome(n)' = "running"
    BY <1>1 DEF Outcome
  <2>2. \A e \in Rounds : Outcome(e) = result[e]
    BY <1>1 DEF Outcome
  <2>3. ASSUME NEW e \in Rounds, e # n
        PROVE  Outcome(e)' = result[e]
    BY <1>1, <2>3 DEF Outcome
  <2> QED BY <2>1, <2>2, <2>3
<1>7. [e \in Rounds |-> Outcome(e)]' = [[e \in Rounds |-> Outcome(e)] EXCEPT ![round'] = "running"]
  BY <1>1, <1>6
<1>8. [e \in Rounds |-> Wanted(e)]' = [[e \in Rounds |-> Wanted(e)] EXCEPT ![round'] = W]
  BY <1>1, <1>4
<1>9. /\ [e \in Rounds |-> Counting(e)]' = [e \in Rounds |-> Counting(e)]
      /\ [e \in Rounds |-> Lost(e)]' = [e \in Rounds |-> Lost(e)]
  BY <1>5
<1>10. ~Promise!Is("running") /\ ~Promise!Is("kept")
  <2>1. \A e \in Rounds : result[e] \notin {"running", "kept"}
    BY DEF Basics, Shape
  <2> QED BY <1>6, <2>1 DEF Promise!Is, Promise!Rounds, Rounds
<1>11. Promise!Becomes("running")
  BY <1>7 DEF Promise!Becomes
<1>12. round' = round + 1 /\ (Self \in holders)' = (Self \in holders)
  BY <1>1
<1>13. Promise!Begin(W)
  BY <1>1, <1>3, <1>8, <1>9, <1>10, <1>11, <1>12 DEF Promise!Begin, Promise!Rounds, Rounds
<1> QED BY <1>3, <1>13 DEF Promise!Next

\* What the worker does with a download it has is done to its outcome.
LEMMA WorkerBecomes ==
    ASSUME Basics, phase # "idle", NEW o,
           UNCHANGED <<block_size, names, round, plan, task, counter>>,
           \/ Settle(o)
           \/ phase' = "publishing" /\ o = "kept" /\ UNCHANGED result
    PROVE  Promise!Becomes(o) /\ Promise!Unmoved
<1>1. round \in Rounds /\ result \in [Rounds -> {"none", "failed", "mismatch", "saved", "unpublished"}]
  BY DEF Basics, Shape
<1>2. /\ Outcome(round)' = o
      /\ \A e \in Rounds : e # round => Outcome(e)' = Outcome(e)
  BY <1>1 DEF Outcome, Settle
<1>3. [e \in Rounds |-> Outcome(e)]' = [[e \in Rounds |-> Outcome(e)] EXCEPT ![round'] = o]
  BY <1>1, <1>2
<1>4. /\ \A e \in Rounds : Wanted(e)' = Wanted(e)
      /\ \A e \in Rounds : Counting(e)' = Counting(e) /\ Lost(e)' = Lost(e)
  BY PlansDecide DEF Wanted, Counting, Lost
<1> QED BY <1>3, <1>4 DEF Promise!Becomes, Promise!Unmoved

\* What stage the latest download is at.
LEMMA WorkerIs ==
    ASSUME Basics
    PROVE  /\ phase = "fetching" => Promise!Is("running")
           /\ phase = "publishing" => Promise!Is("kept")
<1>1. phase # "idle" => round \in Rounds
  BY DEF Basics, Shape
<1> QED BY <1>1 DEF Promise!Is, Promise!Rounds, Rounds, Outcome

\* When all tasks are done, what was wanted has come.
LEMMA JoinedIsWanted ==
    ASSUME Basics, Joined(round)
    PROVE  round \in Rounds /\ Counting(round) = Wanted(round)
<1>1. round \in Rounds
  BY DEF Joined, Basics, Shape
<1>2. Wanted(round) \subseteq Blocks
  BY DEF Wanted, Offered
<1> QED BY <1>1, <1>2 DEF Joined, Counting, Basics, TaskInv, Fits

\* Every step is one of Transfer's, or is not seen.
LEMMA TransferStep == Basics /\ [Next]_vars => [Promise!Next]_(Promise!vars)
<1> SUFFICES ASSUME Basics, [Next]_vars PROVE Promise!Next \/ UNCHANGED Promise!vars
  OBVIOUS
<1>1. CASE Resolve
  BY <1>1, ResolveBegins
<1>2. CASE GiveUp
  <2>1. /\ phase = "fetching" /\ Settle("failed")
        /\ UNCHANGED <<block_size, names, holders, round, plan, task, counter>>
    BY <1>2 DEF GiveUp, world
  <2>2. round \in Rounds /\ Lost(round) # {}
    <3>1. PICK b \in Wanted(round) : task[round][b].st = "failed"
      BY <1>2 DEF GiveUp
    <3>2. b \in Blocks
      BY DEF Wanted, Offered
    <3> QED BY <2>1, <3>1, <3>2 DEF Lost, Basics, Shape
  <2>3. Promise!Fail
    BY <2>1, <2>2, WorkerBecomes, WorkerIs DEF Promise!Fail
  <2> QED BY <2>3 DEF Promise!Next
<1>3. CASE Save
  <2>1. /\ Joined(round) /\ phase' = "publishing" /\ holders' = holders \cup {Self}
        /\ UNCHANGED <<block_size, names, round, plan, task, counter, result>>
    BY <1>3 DEF Save
  <2>2. (Self \in holders)' = TRUE
    BY <2>1
  <2>3. Promise!Join
    BY <2>1, <2>2, WorkerBecomes, WorkerIs, JoinedIsWanted DEF Promise!Join, Joined
  <2> QED BY <2>3 DEF Promise!Next
<1>4. CASE Reject
  <2>1. /\ Joined(round) /\ Settle("mismatch")
        /\ UNCHANGED <<block_size, names, holders, round, plan, task, counter>>
    BY <1>4 DEF Reject, world
  <2>2. Promise!Join
    BY <2>1, WorkerBecomes, WorkerIs, JoinedIsWanted DEF Promise!Join, Joined
  <2> QED BY <2>2 DEF Promise!Next
<1>5. CASE Publish \/ PublishFails
  <2>1. PICK o \in {"saved", "unpublished"} : Settle(o)
    BY <1>5 DEF Publish, PublishFails
  <2>2. /\ phase = "publishing"
        /\ UNCHANGED <<block_size, names, holders, round, plan, task, counter>>
    BY <1>5 DEF Publish, PublishFails, world
  <2>3. Promise!Announce
    BY <2>1, <2>2, WorkerBecomes, WorkerIs DEF Promise!Announce
  <2> QED BY <2>3 DEF Promise!Next
<1>6. ASSUME NEW d \in Rounds, NEW b \in Blocks, Step(d, b)
      PROVE  Promise!Next \/ UNCHANGED Promise!vars
  BY <1>6, TaskTransfers DEF Promise!Next, Promise!Rounds, Rounds
<1>7. ASSUME UNCHANGED <<block_size, names, round, phase, plan, task, counter, result>>
      PROVE  Promise!Unmoved /\ UNCHANGED [e \in Rounds |-> Outcome(e)]
  <2>1. \A e \in Rounds : /\ Wanted(e)' = Wanted(e) /\ Outcome(e)' = Outcome(e)
                          /\ Counting(e)' = Counting(e) /\ Lost(e)' = Lost(e)
    BY <1>7, PlansDecide DEF Wanted, Counting, Lost, Outcome
  <2> QED BY <1>7, <2>1 DEF Promise!Unmoved
<1>8. CASE \E p \in Peers : Deletes(p)
  <2>1. PICK p \in Peers : Deletes(p)
    BY <1>8
  <2>2. /\ UNCHANGED <<block_size, names, round, phase, plan, task, counter, result>>
        /\ (Self \in holders)' = FALSE \/ (Self \in holders)' = (Self \in holders)
    BY <2>1 DEF Deletes, others
  <2>3. CASE (Self \in holders)' = FALSE
    BY <1>7, <2>2, <2>3 DEF Promise!Delete, Promise!Next
  <2>4. CASE (Self \in holders)' = (Self \in holders)
    BY <1>7, <2>2, <2>4 DEF Promise!vars, Promise!Unmoved
  <2> QED BY <2>2, <2>3, <2>4
<1>9. CASE \/ \E p \in Peers : Announces(p) \/ Expires(p) \/ Fails(p) \/ Hangs(p)
           \/ UNCHANGED vars
  <2>1. UNCHANGED <<block_size, names, holders, round, phase, plan, task, counter, result>>
    BY <1>9 DEF Announces, Expires, Fails, Hangs, others, vars
  <2>2. (Self \in holders)' = (Self \in holders)
    BY <2>1
  <2> QED BY <1>7, <2>1, <2>2 DEF Promise!vars, Promise!Unmoved
<1> QED BY <1>1, <1>2, <1>3, <1>4, <1>5, <1>6, <1>8, <1>9 DEF Next, Worker

\* The tasks, attached and detached, the retries and the worker together make the
\* downloads of Transfer, for any number of peers, blocks and downloads.
THEOREM ImplementsTransfer == Spec => TransferSpec
<1>1. Init => Promise!Init
  <2> SUFFICES ASSUME Init PROVE Promise!Init
    OBVIOUS
  <2>1. \A e \in Rounds : Wanted(e) = {} /\ Counting(e) = {} /\ Lost(e) = {} /\ Outcome(e) = "none"
    <3>1. \A e \in Rounds : Counting(e) = {} /\ Lost(e) = {}
      BY DEF Init, Counting, Lost, NoTask
    <3>2. \A e \in Rounds : plan[e] = <<>> /\ Outcome(e) = "none"
      BY DEF Init, Outcome
    <3>3. Offered(<<>>) = {}
      BY DEF Offered
    <3> QED BY <3>1, <3>2, <3>3 DEF Wanted
  <2>2. (Self \in holders) = FALSE
    BY DEF Init
  <2> QED BY <2>1, <2>2 DEF Init, Promise!Init, Promise!Rounds, Rounds
<1>2. Init => Basics
  BY BasicsInit
<1>3. Basics /\ [Next]_vars => Basics'
  BY BasicsStep
<1> QED BY <1>1, <1>2, <1>3, TransferStep, PTL DEF Spec, TransferSpec, Promise!Spec
=============================================================================
