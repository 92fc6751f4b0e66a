----------------------------- MODULE CatalogProofs ----------------------------
(* What the loops of build_file_index compute, for any table of records.      *)
EXTENDS Catalog, NaturalInduction, FiniteSetTheorems, TLAPS

USE CatalogAssumption

-----------------------------------------------------------------------------
(* The recursive definitions define functions.                                *)

\* One turn of the inner loop, and the function that the loop is.
RecordTurn(f, index, record, n) ==
    IF n = 0 THEN index
    ELSE IF record.files[n] = None THEN f[n - 1]
    ELSE AddResource(f[n - 1], record.id, n, record.files[n])
RecordLoop(f, index, record, n) ==
    f = [k \in 0..n |-> RecordTurn(f, index, record, k)]

LEMMA RecordLoopExists ==
    ASSUME NEW index, NEW record
    PROVE  \E f : /\ RecordLoop(f, index, record, NameCount)
                  /\ AddRecord(index, record) = f[NameCount]
<1> DEFINE T == {n \in Nat : \E f : RecordLoop(f, index, record, n)}
<1>1. 0 \in T
  <2> DEFINE f == [k \in 0..0 |-> index]
  <2>1. \A k \in 0..0 : k = 0
    OBVIOUS
  <2>2. RecordLoop(f, index, record, 0)
    BY <2>1 DEF RecordLoop, RecordTurn
  <2> QED BY <2>2
<1>2. ASSUME NEW n \in Nat, n \in T
      PROVE  n + 1 \in T
  <2>1. PICK f : RecordLoop(f, index, record, n)
    BY <1>2
  <2> DEFINE g == [k \in 0..(n + 1) |->
                     IF k = n + 1 THEN RecordTurn(f, index, record, k) ELSE f[k]]
  <2>2. \A k \in 0..n : g[k] = f[k] /\ f[k] = RecordTurn(f, index, record, k)
    BY <2>1 DEF RecordLoop
  <2>3. g[n + 1] = RecordTurn(f, index, record, n + 1)
    OBVIOUS
  <2>4. g = [k \in 0..(n + 1) |-> g[k]]
    OBVIOUS
  <2> HIDE DEF g
  <2>5. ASSUME NEW k \in 0..(n + 1)
        PROVE  g[k] = RecordTurn(g, index, record, k)
    <3>1. RecordTurn(g, index, record, k) = RecordTurn(f, index, record, k)
      <4>1. CASE k = 0
        BY <4>1 DEF RecordTurn
      <4>2. CASE k # 0
        <5>1. k - 1 \in 0..n
          BY <4>2
        <5> QED BY <2>2, <4>2, <5>1 DEF RecordTurn
      <4> QED BY <4>1, <4>2
    <3>2. k = n + 1 \/ k \in 0..n
      OBVIOUS
    <3> QED BY <2>2, <2>3, <3>1, <3>2
  <2> QED BY <2>4, <2>5 DEF RecordLoop
<1>3. NameCount \in T
  <2> HIDE DEF T
  <2> QED BY <1>1, <1>2, Induction
<1> DEFINE loop == CHOOSE f : RecordLoop(f, index, record, NameCount)
<1>4. RecordLoop(loop, index, record, NameCount)
  BY <1>3
<1>5. AddRecord(index, record) = loop[NameCount]
  BY DEF AddRecord, RecordLoop, RecordTurn
<1> HIDE DEF loop
<1> QED BY <1>4, <1>5

\* The same of the outer loop.
TableTurn(f, table, i) == IF i = 0 THEN <<>> ELSE AddRecord(f[i - 1], table[i])
TableLoop(f, table, n) == f = [i \in 0..n |-> TableTurn(f, table, i)]

LEMMA TableLoopExists ==
    ASSUME NEW table, Len(table) \in Nat
    PROVE  \E f : TableLoop(f, table, Len(table)) /\ FileIndex(table) = f[Len(table)]
<1> DEFINE T == {n \in Nat : \E f : TableLoop(f, table, n)}
<1>1. 0 \in T
  <2> DEFINE f == [i \in 0..0 |-> <<>>]
  <2>1. \A i \in 0..0 : i = 0
    OBVIOUS
  <2>2. TableLoop(f, table, 0)
    BY <2>1 DEF TableLoop, TableTurn
  <2> QED BY <2>2
<1>2. ASSUME NEW n \in Nat, n \in T
      PROVE  n + 1 \in T
  <2>1. PICK f : TableLoop(f, table, n)
    BY <1>2
  <2> DEFINE g == [i \in 0..(n + 1) |-> IF i = n + 1 THEN TableTurn(f, table, i) ELSE f[i]]
  <2>2. \A i \in 0..n : g[i] = f[i] /\ f[i] = TableTurn(f, table, i)
    BY <2>1 DEF TableLoop
  <2>3. g[n + 1] = TableTurn(f, table, n + 1)
    OBVIOUS
  <2>4. g = [i \in 0..(n + 1) |-> g[i]]
    OBVIOUS
  <2> HIDE DEF g
  <2>5. ASSUME NEW i \in 0..(n + 1)
        PROVE  g[i] = TableTurn(g, table, i)
    <3>1. TableTurn(g, table, i) = TableTurn(f, table, i)
      <4>1. CASE i = 0
        BY <4>1 DEF TableTurn
      <4>2. CASE i # 0
        <5>1. i - 1 \in 0..n
          BY <4>2
        <5> QED BY <2>2, <4>2, <5>1 DEF TableTurn
      <4> QED BY <4>1, <4>2
    <3>2. i = n + 1 \/ i \in 0..n
      OBVIOUS
    <3> QED BY <2>2, <2>3, <3>1, <3>2
  <2> QED BY <2>4, <2>5 DEF TableLoop
<1>3. Len(table) \in T
  <2> HIDE DEF T
  <2> QED BY <1>1, <1>2, Induction
<1> DEFINE loop == CHOOSE f : TableLoop(f, table, Len(table))
<1>4. TableLoop(loop, table, Len(table))
  BY <1>3
<1>5. FileIndex(table) = loop[Len(table)]
  BY DEF FileIndex, TableLoop, TableTurn
<1> HIDE DEF loop
<1> QED BY <1>4, <1>5

-----------------------------------------------------------------------------
(* What they have computed when they are at name n of record i.               *)

\* A table as build_file_index gets it: a record for each id, once.
IsTable(table, A, S) ==
    /\ table \in Seq([id : A, files : [Names -> S \cup {None}]])
    /\ \A i, j \in 1..Len(table) : table[i].id = table[j].id => i = j

\* The loops have been at name m of record k, and found file f there.
Seen(table, i, n, k, m, f) == (k < i \/ m =< n) /\ table[k].files[m] = f

SeenUnder(table, i, n, k, f) == {m \in Names : Seen(table, i, n, k, m, f)}
SeenAt(table, i, n, f) == {k \in 1..i : SeenUnder(table, i, n, k, f) # {}}

\* The positions at which a list of peers names an id.
Places(peers, id) == {p \in 1..Len(peers) : peers[p] = id}

\* The entry of file f has the name seen first, and a peer for each record and name.
EntryOf(entry, table, A, i, n, f) ==
    /\ \E name \in Names, peers \in Seq(A) :
         entry = [name |-> name, peers |-> peers, available |-> BlockIndexes(f)]
    /\ \E k \in SeenAt(table, i, n, f) :
         /\ \A j \in SeenAt(table, i, n, f) : k =< j
         /\ entry.name \in SeenUnder(table, i, n, k, f)
         /\ \A m \in SeenUnder(table, i, n, k, f) : entry.name =< m
    /\ \A p \in 1..Len(entry.peers) :
         \E k \in SeenAt(table, i, n, f) : entry.peers[p] = table[k].id
    /\ \A k \in 1..i :
         Cardinality(Places(entry.peers, table[k].id))
             = Cardinality(SeenUnder(table, i, n, k, f))

IndexOf(index, table, A, i, n) ==
    /\ index = [f \in DOMAIN index |-> index[f]]
    /\ \A f : f \in DOMAIN index <=> f # None /\ SeenAt(table, i, n, f) # {}
    /\ \A f \in DOMAIN index : EntryOf(index[f], table, A, i, n, f)

\* The next name adds itself to what has been seen of the file it has.
Adds(table, i, n, f) ==
    /\ \A k \in 1..i : k # i =>
         SeenUnder(table, i, n, k, f) = SeenUnder(table, i, n - 1, k, f)
    /\ SeenUnder(table, i, n, i, f) = SeenUnder(table, i, n - 1, i, f) \cup {n}
    /\ n \notin SeenUnder(table, i, n - 1, i, f)
    /\ \A m \in SeenUnder(table, i, n - 1, i, f) : m < n
    /\ SeenAt(table, i, n, f) = SeenAt(table, i, n - 1, f) \cup {i}

LEMMA SeeingTheFile ==
    ASSUME NEW table, NEW i \in Nat, i > 0, NEW n \in Names
    PROVE  Adds(table, i, n, table[i].files[n])
<1> DEFINE f == table[i].files[n]
<1>1. \A k \in 1..i, m \in Names :
        Seen(table, i, n, k, m, f) <=> Seen(table, i, n - 1, k, m, f) \/ (k = i /\ m = n)
  BY DEF Seen, Names
<1>2. ~Seen(table, i, n - 1, i, n, f) /\ \A m \in Names : Seen(table, i, n - 1, i, m, f) => m < n
  BY DEF Seen, Names
<1>3. \A k \in 1..i : k # i => SeenUnder(table, i, n, k, f) = SeenUnder(table, i, n - 1, k, f)
  BY <1>1 DEF SeenUnder
<1>4. i \in 1..i
  OBVIOUS
<1>5. SeenUnder(table, i, n, i, f) = SeenUnder(table, i, n - 1, i, f) \cup {n}
  BY <1>1, <1>4 DEF SeenUnder
<1>6. SeenAt(table, i, n, f) = SeenAt(table, i, n - 1, f) \cup {i}
  BY <1>3, <1>4, <1>5 DEF SeenAt
<1>7. n \notin SeenUnder(table, i, n - 1, i, f)
      /\ \A m \in SeenUnder(table, i, n - 1, i, f) : m < n
  BY <1>2 DEF SeenUnder
<1> QED BY <1>3, <1>5, <1>6, <1>7 DEF Adds

\* It adds nothing to what has been seen of another file.
LEMMA SeeingAnother ==
    ASSUME NEW table, NEW i \in Nat, i > 0, NEW n \in Names, NEW f, table[i].files[n] # f
    PROVE  /\ \A k \in 1..i :
                SeenUnder(table, i, n, k, f) = SeenUnder(table, i, n - 1, k, f)
           /\ SeenAt(table, i, n, f) = SeenAt(table, i, n - 1, f)
<1>1. \A k \in 1..i, m \in Names :
        Seen(table, i, n, k, m, f) <=> Seen(table, i, n - 1, k, m, f)
  BY DEF Seen, Names
<1>2. \A k \in 1..i : SeenUnder(table, i, n, k, f) = SeenUnder(table, i, n - 1, k, f)
  BY <1>1 DEF SeenUnder
<1> QED BY <1>2 DEF SeenAt

\* Appending an id adds one place for it, and none for another.
LEMMA AppendPlaces ==
    ASSUME NEW A, NEW peers \in Seq(A), NEW a \in A, NEW b \in A
    PROVE  /\ IsFiniteSet(Places(peers, b))
           /\ Cardinality(Places(Append(peers, a), b))
                = Cardinality(Places(peers, b)) + (IF a = b THEN 1 ELSE 0)
<1> DEFINE P == Places(peers, b)
           end == Len(peers) + 1
<1>1. IsFiniteSet(P) /\ end \notin P
  <2>1. IsFiniteSet(1..Len(peers)) /\ P \subseteq 1..Len(peers)
    BY FS_Interval DEF Places
  <2> QED BY <2>1, FS_Subset
<1>2. Len(Append(peers, a)) = end
  OBVIOUS
<1>3. \A p \in 1..Len(peers) : Append(peers, a)[p] = peers[p]
  OBVIOUS
<1>4. Append(peers, a)[end] = a
  OBVIOUS
<1>5. CASE a = b
  <2>1. Places(Append(peers, a), b) = P \cup {end}
    BY <1>2, <1>3, <1>4, <1>5 DEF Places
  <2>2. Cardinality(P \cup {end}) = Cardinality(P) + 1
    BY <1>1, FS_AddElement
  <2> QED BY <1>1, <1>5, <2>1, <2>2
<1>6. CASE a # b
  <2>1. Places(Append(peers, a), b) = P
    BY <1>2, <1>3, <1>4, <1>6 DEF Places
  <2>2. Cardinality(P) \in Nat
    BY <1>1, FS_CardinalityType
  <2> QED BY <1>1, <1>6, <2>1, <2>2
<1> QED BY <1>5, <1>6

LEMMA TableReads ==
    ASSUME NEW A, NEW S, NEW table, IsTable(table, A, S)
    PROVE  /\ Len(table) \in Nat
           /\ \A k \in 1..Len(table) : /\ table[k].id \in A
                                      /\ table[k].files \in [Names -> S \cup {None}]
           /\ \A k, j \in 1..Len(table) : table[k].id = table[j].id => k = j
<1> DEFINE R == [id : A, files : [Names -> S \cup {None}]]
<1>1. table \in Seq(R)
  BY DEF IsTable
<1>2. \A r \in R : r.id \in A /\ r.files \in [Names -> S \cup {None}]
  OBVIOUS
<1> HIDE DEF R
<1>3. Len(table) \in Nat /\ \A k \in 1..Len(table) : table[k] \in R
  BY <1>1
<1>4. \A k, j \in 1..Len(table) : table[k].id = table[j].id => k = j
  BY DEF IsTable
<1> QED BY <1>2, <1>3, <1>4

LEMMA SeenIsFinite ==
    ASSUME NEW table, NEW i, NEW n, NEW k, NEW f
    PROVE  /\ IsFiniteSet(SeenUnder(table, i, n, k, f))
           /\ Cardinality(SeenUnder(table, i, n, k, f)) \in Nat
<1>1. 1 \in Int /\ NameCount \in Int
  OBVIOUS
<1>2. IsFiniteSet(Names)
  BY <1>1, FS_Interval DEF Names
<1>3. SeenUnder(table, i, n, k, f) \subseteq Names
  BY DEF SeenUnder
<1> QED BY <1>2, <1>3, FS_Subset, FS_CardinalityType

\* The body of the loops at name n of record i, when the record has a file there.
LEMMA IndexGrows ==
    ASSUME NEW A, NEW S, NEW table, IsTable(table, A, S),
           NEW i \in 1..Len(table), NEW n \in Names,
           table[i].files[n] # None,
           NEW index, IndexOf(index, table, A, i, n - 1)
    PROVE  IndexOf(AddResource(index, table[i].id, n, table[i].files[n]), table, A, i, n)
<1> DEFINE file == table[i].files[n]
           id == table[i].id
           next == AddResource(index, id, n, file)
           old == IF file \in DOMAIN index THEN index[file] ELSE NewEntry(n)
<1>1. /\ i \in Nat /\ i > 0 /\ i \in 1..i /\ n \in Nat
      /\ id \in A /\ table[i].id = id /\ table[i].files[n] = file /\ file # None
  <2>1. Len(table) \in Nat /\ table[i].id \in A
    BY TableReads
  <2>2. n \in Nat
    BY DEF Names
  <2> QED BY <2>1, <2>2
<1>2. /\ DOMAIN next = DOMAIN index \cup {file}
      /\ next = [f \in DOMAIN next |-> next[f]]
      /\ \A f \in DOMAIN index : f # file => next[f] = index[f]
      /\ next[file] = [old EXCEPT !.peers = Append(@, id),
                                 !.available = @ \cup BlockIndexes(file)]
  BY DEF AddResource
<1>3. /\ file \in DOMAIN index => old = index[file]
      /\ file \notin DOMAIN index => old = NewEntry(n)
  OBVIOUS
<1>4. Adds(table, i, n, table[i].files[n])
  BY <1>1, SeeingTheFile
<1> HIDE DEF next, old, file, id
<1>5. Adds(table, i, n, file)
  BY <1>1, <1>4
<1>6. \A f : f \in DOMAIN next <=> f # None /\ SeenAt(table, i, n, f) # {}
  <2> SUFFICES ASSUME NEW f
               PROVE  f \in DOMAIN next <=> f # None /\ SeenAt(table, i, n, f) # {}
    OBVIOUS
  <2>1. CASE f = file
    <3>1. SeenAt(table, i, n, f) = SeenAt(table, i, n - 1, f) \cup {i}
      BY <1>5, <2>1 DEF Adds
    <3> QED BY <1>1, <1>2, <2>1, <3>1
  <2>2. CASE f # file
    <3>1. SeenAt(table, i, n, f) = SeenAt(table, i, n - 1, f)
      BY <1>1, <2>2, SeeingAnother
    <3> QED BY <1>2, <2>2, <3>1 DEF IndexOf
  <2> QED BY <2>1, <2>2
<1>7. ASSUME NEW f \in DOMAIN next, f # file
      PROVE  EntryOf(next[f], table, A, i, n, f)
  <2>1. f \in DOMAIN index /\ next[f] = index[f]
    BY <1>2, <1>7
  <2>2. SeenAt(table, i, n, f) = SeenAt(table, i, n - 1, f)
    BY <1>1, <1>7, SeeingAnother
  <2>3. \A k \in 1..i : SeenUnder(table, i, n, k, f) = SeenUnder(table, i, n - 1, k, f)
    BY <1>1, <1>7, SeeingAnother
  <2>4. EntryOf(index[f], table, A, i, n - 1, f)
    BY <2>1 DEF IndexOf
  <2>5. \A k \in SeenAt(table, i, n, f) : k \in 1..i
    BY DEF SeenAt
  <2> QED BY <2>1, <2>2, <2>3, <2>4, <2>5 DEF EntryOf
<1>8. EntryOf(next[file], table, A, i, n, file)
  <2>1. PICK name \in Names, peers \in Seq(A), blocks \in {{}, BlockIndexes(file)} :
          old = [name |-> name, peers |-> peers, available |-> blocks]
    <3>1. CASE file \in DOMAIN index
      BY <1>3, <3>1 DEF IndexOf, EntryOf
    <3>2. CASE file \notin DOMAIN index
      <4>1. <<>> \in Seq(A)
        OBVIOUS
      <4> QED BY <1>3, <3>2, <4>1 DEF NewEntry
    <3> QED BY <3>1, <3>2
  <2>2. next[file] = [name |-> name, peers |-> Append(peers, id),
                      available |-> BlockIndexes(file)]
    <3>1. blocks \cup BlockIndexes(file) = BlockIndexes(file)
      OBVIOUS
    <3>2. next[file] = [name |-> name, peers |-> Append(peers, id),
                        available |-> blocks \cup BlockIndexes(file)]
      BY <1>2, <2>1
    <3> QED BY <3>1, <3>2
  <2>3. /\ SeenAt(table, i, n, file) = SeenAt(table, i, n - 1, file) \cup {i}
        /\ SeenUnder(table, i, n, i, file) = SeenUnder(table, i, n - 1, i, file) \cup {n}
        /\ n \notin SeenUnder(table, i, n - 1, i, file)
        /\ \A m \in SeenUnder(table, i, n - 1, i, file) : m < n
        /\ \A k \in 1..i : k # i =>
             SeenUnder(table, i, n, k, file) = SeenUnder(table, i, n - 1, k, file)
    BY <1>5 DEF Adds
  <2>4. Append(peers, id) \in Seq(A)
    BY <1>1
  <2>5. \E k \in SeenAt(table, i, n, file) :
         /\ \A j \in SeenAt(table, i, n, file) : k =< j
         /\ name \in SeenUnder(table, i, n, k, file)
         /\ \A m \in SeenUnder(table, i, n, k, file) : name =< m
    <3>1. CASE file \in DOMAIN index
      <4>1. EntryOf(index[file], table, A, i, n - 1, file) /\ index[file].name = name
        BY <1>3, <2>1, <3>1 DEF IndexOf
      <4>2. PICK k \in SeenAt(table, i, n - 1, file) :
              /\ \A j \in SeenAt(table, i, n - 1, file) : k =< j
              /\ name \in SeenUnder(table, i, n - 1, k, file)
              /\ \A m \in SeenUnder(table, i, n - 1, k, file) : name =< m
        BY <4>1 DEF EntryOf
      <4>3. k \in 1..i /\ k =< i
        BY <1>1 DEF SeenAt
      <4>4. \A m \in SeenUnder(table, i, n, k, file) : name =< m
        <5>1. CASE k = i
          <6>1. name < n /\ name \in Nat
            BY <2>3, <4>2, <5>1 DEF Names
          <6> QED BY <1>1, <2>3, <4>2, <5>1, <6>1
        <5>2. CASE k # i
          BY <2>3, <4>2, <4>3, <5>2
        <5> QED BY <5>1, <5>2
      <4>5. name \in SeenUnder(table, i, n, k, file)
        BY <2>3, <4>2, <4>3
      <4> QED BY <2>3, <4>2, <4>3, <4>4, <4>5
    <3>2. CASE file \notin DOMAIN index
      <4>1. SeenAt(table, i, n - 1, file) = {} /\ name = n
        BY <1>1, <1>3, <2>1, <3>2 DEF IndexOf, NewEntry
      <4>2. SeenUnder(table, i, n - 1, i, file) = {}
        BY <1>1, <4>1 DEF SeenAt
      <4> QED BY <1>1, <2>3, <4>1, <4>2
    <3> QED BY <3>1, <3>2
  <2>6. \A p \in 1..Len(peers) :
          \E k \in SeenAt(table, i, n - 1, file) : peers[p] = table[k].id
    <3>1. CASE file \in DOMAIN index
      BY <1>3, <2>1, <3>1 DEF IndexOf, EntryOf
    <3>2. CASE file \notin DOMAIN index
      BY <1>3, <2>1, <3>2 DEF NewEntry
    <3> QED BY <3>1, <3>2
  <2>7. \A p \in 1..Len(Append(peers, id)) :
          \E k \in SeenAt(table, i, n, file) : Append(peers, id)[p] = table[k].id
    <3>1. /\ Len(Append(peers, id)) = Len(peers) + 1
          /\ Append(peers, id)[Len(peers) + 1] = id
          /\ \A p \in 1..Len(peers) : Append(peers, id)[p] = peers[p]
      BY <1>1
    <3> SUFFICES ASSUME NEW p \in 1..Len(Append(peers, id))
                 PROVE  \E k \in SeenAt(table, i, n, file) : Append(peers, id)[p] = table[k].id
      OBVIOUS
    <3>2. CASE p = Len(peers) + 1
      BY <1>1, <2>3, <3>1, <3>2
    <3>3. CASE p \in 1..Len(peers)
      BY <2>3, <2>6, <3>1, <3>3
    <3> QED BY <3>1, <3>2, <3>3
  <2>8. \A k \in 1..i : Cardinality(Places(peers, table[k].id))
                         = Cardinality(SeenUnder(table, i, n - 1, k, file))
    <3>1. CASE file \in DOMAIN index
      BY <1>3, <2>1, <3>1 DEF IndexOf, EntryOf
    <3>2. CASE file \notin DOMAIN index
      <4>1. peers = <<>> /\ SeenAt(table, i, n - 1, file) = {}
        BY <1>1, <1>3, <2>1, <3>2 DEF IndexOf, NewEntry
      <4>2. \A k \in 1..i : SeenUnder(table, i, n - 1, k, file) = {}
        BY <4>1 DEF SeenAt
      <4>3. \A k \in 1..i : Places(peers, table[k].id) = {}
        BY <4>1 DEF Places
      <4> QED BY <4>2, <4>3
    <3> QED BY <3>1, <3>2
  <2>9. ASSUME NEW k \in 1..i
        PROVE  Cardinality(Places(Append(peers, id), table[k].id))
                 = Cardinality(SeenUnder(table, i, n, k, file))
    <3>1. table[k].id \in A /\ k \in 1..Len(table) /\ (id = table[k].id => k = i)
      <4>1. k \in 1..Len(table)
        BY <1>1, TableReads
      <4> QED BY <1>1, <4>1, TableReads
    <3>2. Cardinality(Places(Append(peers, id), table[k].id))
            = Cardinality(Places(peers, table[k].id))
                + (IF id = table[k].id THEN 1 ELSE 0)
      BY <1>1, <3>1, AppendPlaces
    <3>3. IsFiniteSet(SeenUnder(table, i, n - 1, k, file))
      BY SeenIsFinite
    <3>4. Cardinality(SeenUnder(table, i, n - 1, k, file)) \in Nat
      BY SeenIsFinite
    <3>5. CASE k = i
      <4>1. Cardinality(SeenUnder(table, i, n, k, file))
              = Cardinality(SeenUnder(table, i, n - 1, k, file)) + 1
        BY <2>3, <3>3, <3>5, FS_AddElement
      <4> QED BY <1>1, <2>8, <3>2, <3>5, <4>1
    <3>6. CASE k # i
      <4>1. id # table[k].id
        BY <3>1, <3>6
      <4> QED BY <2>3, <2>8, <3>2, <3>4, <3>6, <4>1
    <3> QED BY <3>5, <3>6
  <2>10. next[file].name = name /\ next[file].peers = Append(peers, id)
    BY <2>2
  <2> QED BY <2>2, <2>4, <2>5, <2>7, <2>9, <2>10 DEF EntryOf
<1>9. IndexOf(next, table, A, i, n)
  BY <1>2, <1>6, <1>7, <1>8 DEF IndexOf
<1> QED BY <1>9 DEF next, file, id

\* At the start of a record nothing of it has been seen.
LEMMA IndexGoesOn ==
    ASSUME NEW A, NEW S, NEW table, IsTable(table, A, S), NEW i \in 1..Len(table),
           NEW index, IndexOf(index, table, A, i - 1, NameCount)
    PROVE  IndexOf(index, table, A, i, 0)
<1>1. i \in Nat /\ i > 0 /\ i \in 1..i /\ Len(table) \in Nat
  BY TableReads
<1>2. \A k \in 1..(i - 1) : k \in 1..i /\ k < i /\ k # i
  BY <1>1
<1>3. \A k \in 1..i : k = i \/ k \in 1..(i - 1)
  BY <1>1
<1>4. ASSUME NEW f
      PROVE  /\ \A k \in 1..(i - 1) :
                  SeenUnder(table, i, 0, k, f) = SeenUnder(table, i - 1, NameCount, k, f)
             /\ SeenUnder(table, i, 0, i, f) = {}
             /\ SeenAt(table, i, 0, f) = SeenAt(table, i - 1, NameCount, f)
  <2>1. \A k \in 1..(i - 1), m \in Names :
          Seen(table, i, 0, k, m, f) <=> Seen(table, i - 1, NameCount, k, m, f)
    BY <1>2 DEF Seen, Names
  <2>2. \A k \in 1..(i - 1) :
          SeenUnder(table, i, 0, k, f) = SeenUnder(table, i - 1, NameCount, k, f)
    BY <2>1 DEF SeenUnder
  <2>3. SeenUnder(table, i, 0, i, f) = {}
    BY <1>1 DEF Seen, SeenUnder, Names
  <2>4. SeenAt(table, i, 0, f) = SeenAt(table, i - 1, NameCount, f)
    BY <1>2, <1>3, <2>2, <2>3 DEF SeenAt
  <2> QED BY <2>2, <2>3, <2>4
<1>5. ASSUME NEW f \in DOMAIN index
      PROVE  EntryOf(index[f], table, A, i, 0, f)
  <2>1. EntryOf(index[f], table, A, i - 1, NameCount, f)
    BY DEF IndexOf
  <2>2. SeenAt(table, i, 0, f) \subseteq 1..(i - 1)
    BY <1>4 DEF SeenAt
  <2>3. ASSUME NEW p \in 1..Len(index[f].peers)
        PROVE  index[f].peers[p] # table[i].id
    <3>1. PICK k \in SeenAt(table, i - 1, NameCount, f) : index[f].peers[p] = table[k].id
      BY <2>1 DEF EntryOf
    <3>2. k \in 1..(i - 1) /\ k \in 1..Len(table)
      BY <1>1, <3>1 DEF SeenAt
    <3> QED BY <1>2, <3>1, <3>2, TableReads
  <2>4. Places(index[f].peers, table[i].id) = {}
    BY <2>3 DEF Places
  <2>5. ASSUME NEW k \in 1..i
        PROVE  Cardinality(Places(index[f].peers, table[k].id))
                 = Cardinality(SeenUnder(table, i, 0, k, f))
    <3>1. CASE k = i
      BY <1>4, <2>4, <3>1
    <3>2. CASE k \in 1..(i - 1)
      BY <1>4, <2>1, <3>2 DEF EntryOf
    <3> QED BY <1>3, <3>1, <3>2
  <2>6. \E k \in SeenAt(table, i, 0, f) :
         /\ \A j \in SeenAt(table, i, 0, f) : k =< j
         /\ index[f].name \in SeenUnder(table, i, 0, k, f)
         /\ \A m \in SeenUnder(table, i, 0, k, f) : index[f].name =< m
    <3>1. PICK k \in SeenAt(table, i - 1, NameCount, f) :
           /\ \A j \in SeenAt(table, i - 1, NameCount, f) : k =< j
           /\ index[f].name \in SeenUnder(table, i - 1, NameCount, k, f)
           /\ \A m \in SeenUnder(table, i - 1, NameCount, k, f) : index[f].name =< m
      BY <2>1 DEF EntryOf
    <3>2. k \in 1..(i - 1) /\ k \in SeenAt(table, i, 0, f)
      BY <1>4, <2>2
    <3>3. SeenUnder(table, i, 0, k, f) = SeenUnder(table, i - 1, NameCount, k, f)
      BY <1>4, <3>2
    <3> QED BY <1>4, <3>1, <3>2, <3>3
  <2>7. \A p \in 1..Len(index[f].peers) :
          \E k \in SeenAt(table, i, 0, f) : index[f].peers[p] = table[k].id
    BY <1>4, <2>1 DEF EntryOf
  <2>8. \E name \in Names, peers \in Seq(A) :
          index[f] = [name |-> name, peers |-> peers, available |-> BlockIndexes(f)]
    BY <2>1 DEF EntryOf
  <2> QED BY <2>5, <2>6, <2>7, <2>8 DEF EntryOf
<1>6. \A f : f \in DOMAIN index <=> f # None /\ SeenAt(table, i, 0, f) # {}
  BY <1>4 DEF IndexOf
<1> QED BY <1>5, <1>6 DEF IndexOf

\* A name under which the record has no file adds nothing.
LEMMA IndexStays ==
    ASSUME NEW A, NEW table, NEW i \in Nat, i > 0, NEW n \in Names,
           table[i].files[n] = None,
           NEW index, IndexOf(index, table, A, i, n - 1)
    PROVE  IndexOf(index, table, A, i, n)
<1>1. ASSUME NEW f, f # None
      PROVE  /\ \A k \in 1..i :
                  SeenUnder(table, i, n, k, f) = SeenUnder(table, i, n - 1, k, f)
             /\ SeenAt(table, i, n, f) = SeenAt(table, i, n - 1, f)
  BY <1>1, SeeingAnother
<1>2. \A f : f \in DOMAIN index <=> f # None /\ SeenAt(table, i, n, f) # {}
  BY <1>1 DEF IndexOf
<1>3. ASSUME NEW f \in DOMAIN index
      PROVE  EntryOf(index[f], table, A, i, n, f)
  <2>1. EntryOf(index[f], table, A, i, n - 1, f) /\ f # None
    BY DEF IndexOf
  <2>2. \A k \in SeenAt(table, i, n, f) : k \in 1..i
    BY DEF SeenAt
  <2> QED BY <1>1, <2>1, <2>2 DEF EntryOf
<1> QED BY <1>2, <1>3 DEF IndexOf

LEMMA RecordIsAdded ==
    ASSUME NEW A, NEW S, NEW table, IsTable(table, A, S), NEW i \in 1..Len(table),
           NEW index, IndexOf(index, table, A, i - 1, NameCount)
    PROVE  IndexOf(AddRecord(index, table[i]), table, A, i, NameCount)
<1>1. PICK f : /\ RecordLoop(f, index, table[i], NameCount)
               /\ AddRecord(index, table[i]) = f[NameCount]
  BY RecordLoopExists
<1>2. \A n \in 0..NameCount : f[n] = RecordTurn(f, index, table[i], n)
  BY <1>1 DEF RecordLoop
<1> DEFINE T == {n \in Nat : n =< NameCount => IndexOf(f[n], table, A, i, n)}
<1>3. 0 \in T
  <2>1. f[0] = index
    BY <1>2 DEF RecordTurn
  <2> QED BY <2>1, IndexGoesOn
<1>4. ASSUME NEW n \in Nat, n \in T
      PROVE  n + 1 \in T
  <2> SUFFICES ASSUME n + 1 =< NameCount
               PROVE  IndexOf(f[n + 1], table, A, i, n + 1)
    OBVIOUS
  <2>1. n + 1 \in Names /\ n + 1 \in 0..NameCount /\ n + 1 # 0 /\ (n + 1) - 1 = n
    BY DEF Names
  <2>2. IndexOf(f[n], table, A, i, n) /\ i \in Nat /\ i > 0
    BY <1>4, TableReads
  <2>3. f[n + 1] = RecordTurn(f, index, table[i], n + 1)
    BY <1>2, <2>1
  <2>4. CASE table[i].files[n + 1] = None
    <3>1. f[n + 1] = f[n]
      BY <2>1, <2>3, <2>4 DEF RecordTurn
    <3>2. IndexOf(f[n + 1], table, A, i, (n + 1) - 1)
      BY <2>1, <2>2, <3>1
    <3> HIDE DEF T
    <3> QED BY <2>1, <2>2, <2>4, <3>2, IndexStays
  <2>5. CASE table[i].files[n + 1] # None
    <3>1. f[n + 1] = AddResource(f[n], table[i].id, n + 1, table[i].files[n + 1])
      BY <2>1, <2>3, <2>5 DEF RecordTurn
    <3> QED BY <2>1, <2>2, <2>5, <3>1, IndexGrows
  <2> QED BY <2>4, <2>5
<1>5. NameCount \in T
  <2> HIDE DEF T
  <2> QED BY <1>3, <1>4, Induction
<1> QED BY <1>1, <1>5

LEMMA TableIsIndexed ==
    ASSUME NEW A, NEW S, NEW table, IsTable(table, A, S)
    PROVE  IndexOf(FileIndex(table), table, A, Len(table), NameCount)
<1>1. Len(table) \in Nat
  BY TableReads
<1>2. PICK f : TableLoop(f, table, Len(table)) /\ FileIndex(table) = f[Len(table)]
  BY <1>1, TableLoopExists
<1>3. \A i \in 0..Len(table) : f[i] = TableTurn(f, table, i)
  BY <1>2 DEF TableLoop
<1> DEFINE T == {i \in Nat : i =< Len(table) => IndexOf(f[i], table, A, i, NameCount)}
<1>4. 0 \in T
  <2>1. f[0] = <<>> /\ DOMAIN <<>> = {} /\ <<>> = [x \in {} |-> f[x]]
    BY <1>1, <1>3 DEF TableTurn
  <2>2. \A g : SeenAt(table, 0, NameCount, g) = {}
    BY DEF SeenAt
  <2> QED BY <2>1, <2>2 DEF IndexOf
<1>5. ASSUME NEW i \in Nat, i \in T
      PROVE  i + 1 \in T
  <2> SUFFICES ASSUME i + 1 =< Len(table)
               PROVE  IndexOf(f[i + 1], table, A, i + 1, NameCount)
    OBVIOUS
  <2>1. i + 1 \in 1..Len(table) /\ i + 1 \in 0..Len(table) /\ i + 1 # 0 /\ (i + 1) - 1 = i
    BY <1>1
  <2>2. f[i + 1] = AddRecord(f[i], table[i + 1])
    BY <1>3, <2>1 DEF TableTurn
  <2>3. IndexOf(f[i], table, A, (i + 1) - 1, NameCount)
    BY <1>1, <1>5, <2>1
  <2> HIDE DEF T
  <2> QED BY <2>1, <2>2, <2>3, RecordIsAdded
<1>6. Len(table) \in T
  <2> HIDE DEF T
  <2> QED BY <1>1, <1>4, <1>5, Induction
<1> QED BY <1>1, <1>2, <1>6

-----------------------------------------------------------------------------
(* The index is what it should be.                                            *)

\* At the end of the table everything has been seen.
LEMMA AllIsSeen ==
    ASSUME NEW A, NEW S, NEW table, IsTable(table, A, S), NEW f, f # None
    PROVE  /\ \A k \in 1..Len(table) :
                SeenUnder(table, Len(table), NameCount, k, f)
                  = {m \in Names : table[k].files[m] = f}
           /\ SeenAt(table, Len(table), NameCount, f) = Holding(table, f)
<1>1. \A k \in 1..Len(table) :
        SeenUnder(table, Len(table), NameCount, k, f) = {m \in Names : table[k].files[m] = f}
  BY DEF SeenUnder, Seen, Names
<1>2. \A k \in 1..Len(table) :
        {m \in Names : table[k].files[m] = f} # {} <=> f \in FilesIn(table[k].files)
  BY DEF FilesIn, NamesIn
<1>3. DOMAIN table = 1..Len(table)
  BY DEF IsTable
<1> QED BY <1>1, <1>2, <1>3 DEF SeenAt, Holding

\* The index has the files of the records and no others, each with all its blocks and
\* with holders for peers.
LEMMA IndexHasTheFiles ==
    ASSUME NEW A, NEW S, NEW table, IsTable(table, A, S), NEW f
    PROVE  /\ f \in DOMAIN FileIndex(table) <=> \E k \in 1..Len(table) : f \in FilesIn(table[k].files)
           /\ f \in DOMAIN FileIndex(table) =>
                /\ FileIndex(table)[f].available = BlockIndexes(f)
                /\ \A p \in 1..Len(FileIndex(table)[f].peers) :
                     \E k \in 1..Len(table) :
                       /\ FileIndex(table)[f].peers[p] = table[k].id
                       /\ f \in FilesIn(table[k].files)
<1> DEFINE index == FileIndex(table)
<1>1. IndexOf(index, table, A, Len(table), NameCount)
  BY TableIsIndexed
<1>2. DOMAIN table = 1..Len(table)
  BY DEF IsTable
<1>3. \A k \in 1..Len(table) : f \in FilesIn(table[k].files) => f # None
  BY DEF FilesIn, NamesIn
<1>4. f # None => SeenAt(table, Len(table), NameCount, f) = Holding(table, f)
  BY AllIsSeen
<1>5. \A k : k \in Holding(table, f) <=> k \in 1..Len(table) /\ f \in FilesIn(table[k].files)
  BY <1>2 DEF Holding
<1> HIDE DEF index
<1>6. f \in DOMAIN index <=> f # None /\ Holding(table, f) # {}
  BY <1>1, <1>4 DEF IndexOf
<1>7. f \in DOMAIN index => EntryOf(index[f], table, A, Len(table), NameCount, f)
  BY <1>1 DEF IndexOf
<1>8. f \in DOMAIN index => index[f].available = BlockIndexes(f)
  BY <1>7 DEF EntryOf
<1>9. ASSUME f \in DOMAIN index, NEW p \in 1..Len(index[f].peers)
      PROVE  \E k \in Holding(table, f) : index[f].peers[p] = table[k].id
  BY <1>4, <1>6, <1>7, <1>9 DEF EntryOf
<1>10. f \in DOMAIN index <=> \E k \in 1..Len(table) : f \in FilesIn(table[k].files)
  BY <1>3, <1>5, <1>6
<1> QED BY <1>5, <1>8, <1>9, <1>10 DEF index

\* A file of the index has the name it goes by, and no other.
LEMMA IndexHasTheNames ==
    ASSUME NEW A, NEW S, NEW table, IsTable(table, A, S),
           NEW f \in DOMAIN FileIndex(table), NEW name \in Names
    PROVE  FileIndex(table)[f].name = name <=> GoesBy(table, f, name)
<1> DEFINE entry == FileIndex(table)[f]
<1>1. EntryOf(entry, table, A, Len(table), NameCount, f) /\ f # None
  BY TableIsIndexed DEF IndexOf
<1>2. PICK k \in Holding(table, f) :
        /\ \A j \in Holding(table, f) : k =< j
        /\ entry.name \in SeenUnder(table, Len(table), NameCount, k, f)
        /\ \A m \in SeenUnder(table, Len(table), NameCount, k, f) : entry.name =< m
  <2>1. SeenAt(table, Len(table), NameCount, f) = Holding(table, f)
    BY <1>1, AllIsSeen
  <2> HIDE DEF entry
  <2> QED BY <1>1, <2>1 DEF EntryOf
<1>3. DOMAIN table = 1..Len(table) /\ Len(table) \in Nat
  BY DEF IsTable
<1>4. \A j \in Holding(table, f) : j \in Nat
  BY <1>3 DEF Holding
<1>5. SeenUnder(table, Len(table), NameCount, k, f) = {m \in Names : table[k].files[m] = f}
  <2>1. k \in 1..Len(table)
    BY <1>3 DEF Holding
  <2> QED BY <1>1, <2>1, AllIsSeen
<1> HIDE DEF entry
<1>6. /\ entry.name \in Names /\ table[k].files[entry.name] = f
      /\ \A m \in Names : table[k].files[m] = f => entry.name =< m
  BY <1>2, <1>5
<1>7. ASSUME entry.name = name
      PROVE  GoesBy(table, f, name)
  BY <1>2, <1>6, <1>7 DEF GoesBy
<1>8. ASSUME GoesBy(table, f, name)
      PROVE  entry.name = name
  <2>1. PICK j \in Holding(table, f) :
          /\ \A i \in Holding(table, f) : j =< i
          /\ table[j].files[name] = f
          /\ \A m \in Names : table[j].files[m] = f => name =< m
    BY <1>8 DEF GoesBy
  <2>2. j = k
    BY <1>2, <1>4, <2>1
  <2>3. entry.name \in Nat /\ name \in Nat /\ entry.name =< name /\ name =< entry.name
    BY <1>6, <2>1, <2>2 DEF Names
  <2> QED BY <2>3
<1> QED BY <1>7, <1>8 DEF entry

\* A record counts among the peers of a file once for each name it has the file under.
LEMMA IndexHasTheCopies ==
    ASSUME NEW A, NEW S, NEW table, IsTable(table, A, S),
           NEW f \in DOMAIN FileIndex(table), NEW k \in 1..Len(table)
    PROVE  /\ FileIndex(table)[f].peers \in Seq(A)
           /\ Cardinality(Places(FileIndex(table)[f].peers, table[k].id))
                = Cardinality({m \in Names : table[k].files[m] = f})
<1>1. EntryOf(FileIndex(table)[f], table, A, Len(table), NameCount, f) /\ f # None
  BY TableIsIndexed DEF IndexOf
<1>2. SeenUnder(table, Len(table), NameCount, k, f) = {m \in Names : table[k].files[m] = f}
  BY DEF SeenUnder, Seen, Names
<1> DEFINE entry == FileIndex(table)[f]
<1> HIDE DEF entry
<1>3. EntryOf(entry, table, A, Len(table), NameCount, f)
  BY <1>1 DEF entry
<1>4. Cardinality(Places(entry.peers, table[k].id))
        = Cardinality({m \in Names : table[k].files[m] = f})
  BY <1>2, <1>3 DEF EntryOf
<1>5. entry.peers \in Seq(A)
  BY <1>3 DEF EntryOf
<1> QED BY <1>4, <1>5 DEF entry

\* The peers of a file are the nodes whose records have it.
LEMMA IndexHasTheHolders ==
    ASSUME NEW A, NEW S, NEW table, IsTable(table, A, S),
           NEW f \in DOMAIN FileIndex(table)
    PROVE  /\ \A p \in DOMAIN FileIndex(table)[f].peers :
                \E k \in Holding(table, f) : FileIndex(table)[f].peers[p] = table[k].id
           /\ \A k \in Holding(table, f) :
                \E p \in DOMAIN FileIndex(table)[f].peers :
                    FileIndex(table)[f].peers[p] = table[k].id
<1> DEFINE peers == FileIndex(table)[f].peers
<1>1. DOMAIN table = 1..Len(table) /\ Len(table) \in Nat
  BY DEF IsTable
<1>2. /\ \A k \in 1..Len(table) :
            Cardinality(Places(peers, table[k].id))
                = Cardinality({m \in Names : table[k].files[m] = f})
      /\ \A p \in 1..Len(peers) :
            \E k \in 1..Len(table) : peers[p] = table[k].id /\ f \in FilesIn(table[k].files)
  BY IndexHasTheCopies, IndexHasTheFiles
<1>3. DOMAIN peers = 1..Len(peers)
  <2>1. PICK k \in 1..Len(table) : f \in FilesIn(table[k].files)
    BY IndexHasTheFiles
  <2>2. peers \in Seq(A)
    BY IndexHasTheCopies
  <2> HIDE DEF peers
  <2> QED BY <2>2
<1> HIDE DEF peers
<1>4. ASSUME NEW p \in DOMAIN peers
      PROVE  \E k \in Holding(table, f) : peers[p] = table[k].id
  BY <1>1, <1>2, <1>3 DEF Holding
<1>5. ASSUME NEW k \in Holding(table, f)
      PROVE  \E p \in DOMAIN peers : peers[p] = table[k].id
  <2>1. k \in 1..Len(table) /\ f \in FilesIn(table[k].files)
    BY <1>1 DEF Holding
  <2>2. PICK n \in Names : table[k].files[n] = f
    BY <2>1 DEF FilesIn, NamesIn
  <2> DEFINE under == {m \in Names : table[k].files[m] = f}
  <2>3. IsFiniteSet(under) /\ under # {}
    <3>1. IsFiniteSet(Names)
      BY FS_Interval DEF Names
    <3> QED BY <2>2, <3>1, FS_Subset
  <2>4. Cardinality(under) # 0
    BY <2>3, FS_EmptySet
  <2>5. Cardinality(Places(peers, table[k].id)) # Cardinality({})
    <3>1. Cardinality(Places(peers, table[k].id)) = Cardinality(under)
      BY <1>2, <2>1
    <3> QED BY <2>4, <3>1, FS_EmptySet
  <2>6. Places(peers, table[k].id) # {}
    BY <2>5
  <2> QED BY <1>3, <2>6 DEF Places
<1> QED BY <1>4, <1>5 DEF peers
===============================================================================
