-------------------------- MODULE BlockIndexerProofs --------------------------
(***************************************************************************)
(* For every buffer capacity, block size and file length: the blocks tile    *)
(* the file; and a node serves under each index the bytes it announced just  *)
(* when its block size divides the capacity or is no smaller than it, or the *)
(* whole file fits into the buffer.                                          *)
(***************************************************************************)
EXTENDS BlockIndexer, NaturalInduction, TLAPS

\* Where the next block starts.
Position == taken - left

\* The block indexed last ends where the next one starts.
TileInv ==
    /\ BlocksTileFile
    /\ Len(blocks) = 0 => Position = 0
    /\ Len(blocks) > 0 => blocks[Len(blocks)].at + blocks[Len(blocks)].size = Position
    /\ done => Position = file_size

\* Up to the end of the file every block is full, because the buffer holds a
\* whole number of blocks until the last bytes of the file are in it.
FullInv ==
    /\ ServesWhatItIndexed
    /\ Position < file_size => Position = Len(blocks) * block_size
    /\ block_size >= Cap => left = 0
    /\ block_size < Cap /\ taken < file_size => \E m \in Nat : left = m * block_size

\* A full buffer of the file does not end with a block: some block begins behind it,
\* at an offset that is no multiple of the block size.
ShortInv ==
    ~Aligned =>
        /\ taken = 0 => left = 0
        /\ taken > 0 => taken >= Cap
        /\ taken > Cap => \E i \in 1..Len(blocks) : blocks[i].at = Cap
        /\ done => taken = file_size

\* The parameters, as the proofs use them.
LEMMA Parameters ==
    ASSUME TypeOK
    PROVE  /\ Cap \in Nat /\ Cap > 0
           /\ block_size \in Nat /\ block_size > 0 /\ file_size \in Nat
           /\ taken \in Nat /\ left \in Nat /\ left =< taken /\ taken =< file_size
  BY IndexerAssumption DEF TypeOK

\* A read of n bytes appends one block that starts at the current position and
\* is no longer than a block may be.
Reading(n) ==
    /\ 0 < n /\ n =< block_size
    /\ blocks' = Append(blocks, [at |-> Position, size |-> n])
    /\ Position' = Position + n /\ Position' =< file_size
    /\ taken' \in 0..file_size /\ left' \in 0..taken'
    /\ ~done /\ UNCHANGED <<block_size, file_size, done>>

\* That is what a read does, whichever way the bytes come.
LEMMA Reads ==
    ASSUME TypeOK, ReadBuffered \/ ReadDirect \/ ReadFilling
    PROVE  \E n \in Nat : Reading(n)
<1> USE Parameters
<1>1. CASE ReadBuffered
  <2>1. Chunk(left) \in Nat
    BY DEF Chunk, Least
  <2>2. Reading(Chunk(left))
    BY <1>1 DEF ReadBuffered, Reading, Index, Chunk, Least, Position
  <2> QED BY <2>1, <2>2
<1>2. CASE ReadDirect
  <2>1. Chunk(file_size - taken) \in Nat
    BY DEF Chunk, Least
  <2>2. Reading(Chunk(file_size - taken))
    BY <1>2 DEF ReadDirect, Reading, Index, Chunk, Least, Position
  <2> QED BY <2>1, <2>2
<1>3. CASE ReadFilling
  <2> DEFINE fill == Least(Cap, file_size - taken)
  <2>1. /\ left = 0 /\ taken < file_size /\ taken' = taken + fill
        /\ left' = fill - Chunk(fill) /\ blocks' = Index(Chunk(fill))
        /\ ~done /\ UNCHANGED <<block_size, file_size, done>>
    BY <1>3 DEF ReadFilling
  <2>2. fill \in Nat /\ 0 < fill /\ fill =< file_size - taken
    BY <2>1 DEF Least
  <2> HIDE DEF fill
  <2>3. Chunk(fill) \in Nat /\ 0 < Chunk(fill) /\ Chunk(fill) =< block_size /\ Chunk(fill) =< fill
    BY <2>2 DEF Chunk, Least
  <2>4. Reading(Chunk(fill))
    BY <2>1, <2>2, <2>3 DEF Reading, Index, Position
  <2> QED BY <2>3, <2>4
<1> QED BY <1>1, <1>2, <1>3

\* What appending a block does to the sequence of blocks.
LEMMA Appended ==
    ASSUME TypeOK, NEW n \in Nat, Reading(n)
    PROVE  /\ blocks' \in Seq([at : Nat, size : Nat])
           /\ Len(blocks') = Len(blocks) + 1 /\ Len(blocks) \in Nat
           /\ \A i \in 1..Len(blocks) : blocks'[i] = blocks[i]
           /\ blocks'[Len(blocks) + 1].at = Position
           /\ blocks'[Len(blocks) + 1].size = n
<1>1. Position \in Nat /\ [at |-> Position, size |-> n] \in [at : Nat, size : Nat]
  BY Parameters DEF Position
<1> QED BY <1>1 DEF TypeOK, Reading

\* Types and the tiling are preserved by every step.
LEMMA TileStep ==
    ASSUME TypeOK, TileInv, [Next]_vars
    PROVE  TypeOK' /\ TileInv'
<1> USE Parameters
<1>1. CASE ReadBuffered \/ ReadDirect \/ ReadFilling
  <2>1. PICK n \in Nat : Reading(n)
    BY <1>1, Reads
  <2>2. TypeOK'
    BY <2>1, Appended DEF TypeOK, Reading
  <2>3. \A i \in 1..Len(blocks') :
            i > 1 => blocks'[i].at = blocks'[i-1].at + blocks'[i-1].size
    <3> SUFFICES ASSUME NEW i \in 1..Len(blocks'), i > 1
                 PROVE  blocks'[i].at = blocks'[i-1].at + blocks'[i-1].size
      OBVIOUS
    <3>1. /\ Len(blocks') = Len(blocks) + 1 /\ Len(blocks) \in Nat
          /\ \A j \in 1..Len(blocks) : blocks'[j] = blocks[j]
      BY <2>1, Appended
    <3>2. i - 1 \in 1..Len(blocks)
      BY <3>1
    <3>3. CASE i \in 1..Len(blocks)
      BY <3>1, <3>2, <3>3 DEF TileInv, BlocksTileFile
    <3>4. CASE i = Len(blocks) + 1
      BY <2>1, <3>1, <3>2, <3>4, Appended DEF TileInv
    <3> QED BY <3>1, <3>3, <3>4
  <2>4. blocks'[1].at = 0
    <3>1. CASE Len(blocks) = 0
      BY <2>1, <3>1, Appended DEF TileInv
    <3>2. CASE Len(blocks) > 0
      <4>1. 1 \in 1..Len(blocks)
        BY <2>1, <3>2, Appended
      <4> QED BY <2>1, <3>2, <4>1, Appended DEF TileInv, BlocksTileFile
    <3> QED BY <2>1, <3>1, <3>2, Appended
  <2> QED BY <2>1, <2>2, <2>3, <2>4, Appended DEF TileInv, BlocksTileFile, Reading
<1>2. CASE EndOfFile
  BY <1>2 DEF EndOfFile, TypeOK, TileInv, BlocksTileFile, Position
<1>3. CASE UNCHANGED vars
  BY <1>3 DEF vars, TypeOK, TileInv, BlocksTileFile, Position
<1> QED BY <1>1, <1>2, <1>3 DEF Next

\* Nothing is indexed at the start.
LEMMA TileInit == Init => TypeOK /\ TileInv
<1> SUFFICES ASSUME Init PROVE TypeOK /\ TileInv
  OBVIOUS
<1>1. file_size \in Nat /\ <<>> \in Seq([at : Nat, size : Nat])
  BY IndexerAssumption DEF Init
<1>2. TypeOK
  <2>1. blocks \in Seq([at : Nat, size : Nat])
    BY <1>1 DEF Init
  <2>2. taken \in 0..file_size /\ left \in 0..taken
    BY <1>1 DEF Init
  <2> QED BY <2>1, <2>2 DEF Init, TypeOK
<1>3. Len(blocks) = 0 /\ Position = 0
  BY DEF Init, Position
<1> QED BY <1>2, <1>3 DEF Init, TileInv, BlocksTileFile

\* Indexing state has the declared types.
THEOREM IndexerTypes == Spec => []TypeOK
<1>1. TypeOK /\ TileInv /\ [Next]_vars => TypeOK' /\ TileInv'
  BY TileStep
<1> QED BY <1>1, TileInit, PTL DEF Spec

\* Whatever the block size, the blocks of a file are the file.
THEOREM BlocksAreTheFile == Spec => []BlocksTileFile
<1>1. TypeOK /\ TileInv /\ [Next]_vars => TypeOK' /\ TileInv'
  BY TileStep
<1>2. TileInv => BlocksTileFile
  BY DEF TileInv
<1> QED BY <1>1, <1>2, TileInit, PTL DEF Spec

\* Taking one block out of a buffer that holds m of them leaves m - 1.
LEMMA OneLess ==
    ASSUME NEW m \in Nat, NEW b \in Nat, m * b > 0
    PROVE  m - 1 \in Nat /\ m * b - b = (m - 1) * b /\ m * b >= b
  OBVIOUS

\* A number that leaves no remainder is a multiple, and a multiple leaves none.
LEMMA Multiples ==
    ASSUME NEW a \in Nat, NEW b \in Nat \ {0}
    PROVE  a % b = 0 <=> \E k \in Nat : a = k * b
<1> DEFINE d == a \div b
           m == a % b
<1>1. d \in Nat /\ m \in 0..(b - 1) /\ a = b * d + m
  OBVIOUS
<1>2. ASSUME m = 0 PROVE \E k \in Nat : a = k * b
  <2> HIDE DEF d, m
  <2>1. a = d * b
    BY <1>1, <1>2
  <2> QED BY <1>1, <2>1
<1>3. ASSUME NEW k \in Nat, a = k * b PROVE m = 0
  <2>1. a = b * k + 0 /\ 0 \in 0..(b - 1) /\ k \in Int
    BY <1>3
  <2>2. (b * k + 0) % b = 0
    BY <2>1, Remainder
  <2> QED BY <2>1, <2>2
<1> QED BY <1>2, <1>3

\* Full blocks up to the end of the file: preserved when sizes are aligned.
LEMMA FullStep ==
    ASSUME Aligned, TypeOK, FullInv, [Next]_vars
    PROVE  FullInv'
<1> USE Parameters
<1>1. CASE ReadBuffered \/ ReadDirect \/ ReadFilling
  <2>1. PICK n \in Nat : Reading(n)
    BY <1>1, Reads
  <2>2. Position \in Nat /\ Position < file_size
    BY <2>1 DEF Position, Reading
  <2>3. Position = Len(blocks) * block_size
    BY <2>2 DEF FullInv
  <2>4. ServesWhatItIndexed'
    <3> SUFFICES ASSUME NEW i \in 1..Len(blocks')
                 PROVE  blocks'[i].at = (i - 1) * block_size
      BY <2>1 DEF ServesWhatItIndexed, ServedFrom, Reading
    <3>1. CASE i \in 1..Len(blocks)
      BY <2>1, <3>1, Appended DEF FullInv, ServesWhatItIndexed, ServedFrom
    <3>2. CASE i = Len(blocks) + 1
      BY <2>1, <2>3, <3>2, Appended
    <3>3. Len(blocks') = Len(blocks) + 1 /\ Len(blocks) \in Nat
      BY <2>1, Appended
    <3> QED BY <3>1, <3>2, <3>3
  <2>5. /\ block_size' >= Cap => left' = 0
        /\ block_size' < Cap /\ taken' < file_size' =>
              n = block_size /\ \E m \in Nat : left' = m * block_size'
        /\ left' > 0 => n = block_size
        /\ block_size >= Cap /\ Position' < file_size' => n = block_size
    <3>1. CASE ReadBuffered
      <4>1. left > 0 /\ left' = left - Chunk(left) /\ taken' = taken
        BY <3>1 DEF ReadBuffered
      <4>2. block_size < Cap
        BY <4>1 DEF FullInv
      <4>3. ASSUME taken < file_size
            PROVE  Chunk(left) = block_size /\ \E m \in Nat : left' = m * block_size
        <5>1. PICK m \in Nat : left = m * block_size
          BY <4>2, <4>3 DEF FullInv
        <5>2. left >= block_size /\ left - block_size = (m - 1) * block_size /\ m - 1 \in Nat
          BY <4>1, <5>1, OneLess
        <5> QED BY <4>1, <5>2 DEF Chunk, Least
      <4>4. Position' = Position + Chunk(left)
        BY <3>1 DEF ReadBuffered, Position, Chunk, Least
      <4>5. n = Chunk(left) /\ Chunk(left) \in Nat
        BY <2>1, <2>2, <4>4 DEF Chunk, Least, Reading
      <4> QED BY <2>1, <4>1, <4>2, <4>3, <4>5 DEF Chunk, Least, Reading
    <3>2. CASE ReadDirect
      BY <2>1, <3>2 DEF ReadDirect, Reading, Position, Chunk, Least
    <3>3. CASE ReadFilling
      <4> DEFINE fill == Least(Cap, file_size - taken)
      <4>1. /\ left = 0 /\ taken' = taken + fill /\ left' = fill - Chunk(fill)
            /\ taken < file_size /\ block_size < Cap
        BY <3>3 DEF ReadFilling
      <4>2. ASSUME taken' < file_size
            PROVE  Chunk(fill) = block_size /\ \E m \in Nat : left' = m * block_size
        <5>1. fill = Cap /\ file_size > Cap
          BY <4>1, <4>2 DEF Least
        <5>2. block_size < Cap
          BY <4>1
        <5>3. PICK k \in Nat : Cap = k * block_size
          <6>1. Cap % block_size = 0
            BY <5>1, <5>2 DEF Aligned
          <6>2. Cap \in Nat /\ block_size \in Nat \ {0}
            OBVIOUS
          <6> QED BY <6>1, <6>2, Multiples, Zenon
        <5>4. Cap >= block_size /\ Cap - block_size = (k - 1) * block_size /\ k - 1 \in Nat
          BY <5>3, OneLess
        <5> QED BY <4>1, <5>1, <5>4 DEF Chunk, Least
      <4>3. Position' = Position + Chunk(fill)
        BY <4>1 DEF Position, Chunk, Least
      <4>4. Chunk(fill) \in Nat
        BY <4>1 DEF Chunk, Least
      <4>5. n = Chunk(fill)
        BY <2>1, <2>2, <4>3, <4>4 DEF Reading
      <4> QED BY <2>1, <4>1, <4>2, <4>4, <4>5 DEF Chunk, Least, Reading
    <3> QED BY <1>1, <3>1, <3>2, <3>3
  <2>6. Position' < file_size' => n = block_size
    BY <2>1, <2>5 DEF Position, Reading
  <2>7. (Len(blocks) + 1) * block_size = Len(blocks) * block_size + block_size
    BY <2>1, Appended
  <2>8. Position' < file_size' => Position' = Len(blocks') * block_size'
    BY <2>1, <2>3, <2>6, <2>7, Appended DEF Reading
  <2> QED BY <2>4, <2>5, <2>8 DEF FullInv
<1>2. CASE EndOfFile
  BY <1>2 DEF EndOfFile, FullInv, ServesWhatItIndexed, ServedFrom, Position
<1>3. CASE UNCHANGED vars
  BY <1>3 DEF vars, FullInv, ServesWhatItIndexed, ServedFrom, Position
<1> QED BY <1>1, <1>2, <1>3 DEF Next

\* A block begins at the end of the first full buffer, once a byte behind it has been
\* read: preserved, whatever the block size.
LEMMA ShortStep ==
    ASSUME TypeOK, ShortInv, [Next]_vars
    PROVE  ShortInv'
<1> USE Parameters
<1> SUFFICES ASSUME ~Aligned'
             PROVE  /\ taken' = 0 => left' = 0
                    /\ taken' > 0 => taken' >= Cap
                    /\ taken' > Cap => \E i \in 1..Len(blocks') : blocks'[i].at = Cap
                    /\ done' => taken' = file_size'
  BY DEF ShortInv
<1>1. UNCHANGED <<block_size, file_size>>
  BY DEF Next, ReadBuffered, ReadDirect, ReadFilling, EndOfFile, vars
<1>2. ~Aligned /\ block_size < Cap /\ file_size > Cap
  BY <1>1 DEF Aligned
<1>3. CASE ReadBuffered \/ ReadDirect \/ ReadFilling
  <2>1. PICK n \in Nat : Reading(n)
    BY <1>3, Reads
  <2>2. (\E i \in 1..Len(blocks) : blocks[i].at = Cap) =>
            \E i \in 1..Len(blocks') : blocks'[i].at = Cap
    <3>1. /\ \A i \in 1..Len(blocks) : blocks'[i] = blocks[i]
          /\ \A i \in 1..Len(blocks) : i \in 1..Len(blocks')
      BY <2>1, Appended
    <3> QED BY <3>1
  <2>3. CASE ReadBuffered
    BY <1>2, <2>1, <2>2, <2>3 DEF ReadBuffered, ShortInv, Reading
  <2>4. CASE ReadFilling
    <3>1. left = 0 /\ taken < file_size /\ taken' = taken + Least(Cap, file_size - taken)
      BY <2>4 DEF ReadFilling
    <3>2. CASE taken = 0
      BY <1>2, <2>1, <3>1, <3>2 DEF Least, Reading
    <3>3. CASE taken = Cap
      <4>1. Position = Cap
        BY <3>1, <3>3 DEF Position
      <4>2. Len(blocks) + 1 \in 1..Len(blocks') /\ blocks'[Len(blocks) + 1].at = Cap
        BY <2>1, <4>1, Appended
      <4>3. taken' > 0 /\ taken' >= Cap /\ ~done'
        BY <2>1, <3>1, <3>3 DEF Least, Reading
      <4> QED BY <4>2, <4>3
    <3>4. CASE taken > Cap
      BY <1>2, <2>1, <2>2, <3>1, <3>4 DEF Least, Reading, ShortInv
    <3> QED BY <1>2, <3>2, <3>3, <3>4 DEF ShortInv
  <2> QED BY <1>2, <1>3, <2>3, <2>4 DEF ReadDirect
<1>4. CASE EndOfFile
  BY <1>2, <1>4 DEF EndOfFile, ShortInv
<1>5. CASE UNCHANGED vars
  BY <1>2, <1>5 DEF vars, ShortInv
<1> QED BY <1>3, <1>4, <1>5 DEF Next

\* A block that begins at the end of a full buffer is looked for somewhere else.
LEMMA ShortMisses ==
    ASSUME TypeOK, ShortInv, done, ServesWhatItIndexed
    PROVE  Aligned
<1> USE Parameters
<1> SUFFICES ASSUME ~Aligned PROVE FALSE
  OBVIOUS
<1>1. taken > Cap
  BY DEF ShortInv, Aligned
<1>2. PICK i \in 1..Len(blocks) : blocks[i].at = Cap
  BY <1>1 DEF ShortInv
<1>3. Cap = (i - 1) * block_size /\ i - 1 \in Nat
  BY <1>2 DEF ServesWhatItIndexed, ServedFrom, TypeOK
<1>4. Cap % block_size = 0
  <2>1. Cap \in Nat /\ block_size \in Nat \ {0}
    OBVIOUS
  <2> QED BY <1>3, <2>1, Multiples, Zenon
<1> QED BY <1>4 DEF Aligned

\* For every buffer, block size and file: a node serves under each index the bytes it
\* announced there if, and once the file is indexed only if, its block size is aligned.
THEOREM ServesExactlyIfAligned == Spec => []ServesJustIfAligned
<1>1. Init => (Aligned => FullInv) /\ ShortInv
  BY IndexerAssumption DEF Init, FullInv, ServesWhatItIndexed, Position, ShortInv
<1>2. TypeOK /\ (Aligned => FullInv) /\ [Next]_vars => (Aligned => FullInv)'
  <2>1. [Next]_vars => UNCHANGED <<block_size, file_size>>
    BY DEF Next, ReadBuffered, ReadDirect, ReadFilling, EndOfFile, vars
  <2>2. [Next]_vars => (Aligned' <=> Aligned)
    BY <2>1 DEF Aligned
  <2> QED BY <2>2, FullStep
<1>3. TypeOK /\ ShortInv /\ [Next]_vars => ShortInv'
  BY ShortStep
<1>4. TypeOK /\ (Aligned => FullInv) /\ ShortInv => ServesJustIfAligned
  BY ShortMisses DEF FullInv, ServesJustIfAligned
<1> QED BY <1>1, <1>2, <1>3, <1>4, IndexerTypes, PTL DEF Spec

\* When each block size divides the buffer, as the default of 512 bytes does, or is no
\* smaller than it, every node serves what it announced.
COROLLARY AlignedSizesServe ==
    ASSUME \A b \in Sizes : b >= Cap \/ Cap % b = 0
    PROVE  Spec => []ServesWhatItIndexed
<1>1. TypeOK /\ ServesJustIfAligned => ServesWhatItIndexed
  BY DEF TypeOK, ServesJustIfAligned, Aligned
<1> QED BY <1>1, IndexerTypes, ServesExactlyIfAligned, PTL
=============================================================================
