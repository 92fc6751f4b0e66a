----------------------------- MODULE BlockIndexer -----------------------------
(***************************************************************************)
(* How a node cuts a file into blocks when it indexes it (index_file,        *)
(* node/src/local_files.rs) and where it looks for a block when a peer asks  *)
(* for one (read_block_by_hash).                                             *)
(*                                                                           *)
(* index_file makes one block of each BufReader::read, which returns as many *)
(* bytes as are left in the reader's buffer and never more.  The block is    *)
(* served from offset index * block_size.  The two agree only if no read     *)
(* comes back short before the end of the file.                              *)
(***************************************************************************)
EXTENDS Naturals, Sequences

CONSTANTS Cap,      \* capacity of the BufReader (8 KiB in the program)
          Sizes,    \* block sizes nodes are started with
          Lengths   \* lengths of the files they share

ASSUME IndexerAssumption ==
    /\ Cap \in Nat \ {0} /\ Sizes \subseteq Nat \ {0} /\ Lengths \subseteq Nat

VARIABLES block_size, file_size,  \* fixed at the start
          taken,                  \* bytes the reader has taken from the file
          left,                   \* of those, bytes still in its buffer
          blocks,                 \* blocks indexed: where each lies, how long it is
          done                    \* the loop has ended

vars == <<block_size, file_size, taken, left, blocks, done>>

Least(a, b) == IF a =< b THEN a ELSE b

Init ==
    /\ block_size \in Sizes /\ file_size \in Lengths
    /\ taken = 0 /\ left = 0
    /\ blocks = <<>> /\ done = FALSE

\* Mutant: a read always fills the caller's buffer.
Chunk_Whole(available) == block_size

\* A read never returns more than the caller's buffer holds.
Chunk(available) == Least(block_size, available)

\* blocks.push
Index(bytes_read) == Append(blocks, [at |-> taken - left, size |-> bytes_read])

\* The buffer is not empty: what is left of it, at most block_size bytes.
ReadBuffered ==
    /\ ~done /\ left > 0
    /\ blocks' = Index(Chunk(left))
    /\ left' = left - Chunk(left)
    /\ UNCHANGED <<block_size, file_size, taken, done>>

\* The buffer is empty and smaller than a block: the file is read directly.
ReadDirect ==
    /\ ~done /\ left = 0 /\ taken < file_size /\ block_size >= Cap
    /\ blocks' = Index(Chunk(file_size - taken))
    /\ taken' = taken + Chunk(file_size - taken)
    /\ UNCHANGED <<block_size, file_size, left, done>>

\* Mutant: each block has a reader of its own, and what that read ahead is lost.
ReadFilling_NewReader ==
    LET fill == Least(Cap, file_size - taken) IN
    /\ ~done /\ left = 0 /\ taken < file_size /\ block_size < Cap
    /\ blocks' = Index(Chunk(fill))
    /\ taken' = taken + fill
    /\ left' = 0
    /\ UNCHANGED <<block_size, file_size, done>>

\* The buffer is empty: it is filled, then read from.
ReadFilling ==
    LET fill == Least(Cap, file_size - taken) IN
    /\ ~done /\ left = 0 /\ taken < file_size /\ block_size < Cap
    /\ blocks' = Index(Chunk(fill))
    /\ taken' = taken + fill
    /\ left' = fill - Chunk(fill)
    /\ UNCHANGED <<block_size, file_size, done>>

\* bytes_read == 0
EndOfFile ==
    /\ ~done /\ left = 0 /\ taken = file_size
    /\ done' = TRUE
    /\ UNCHANGED <<block_size, file_size, taken, left, blocks>>

Next == ReadBuffered \/ ReadDirect \/ ReadFilling \/ EndOfFile

Spec == Init /\ [][Next]_vars

\* Mutant: indexes start at 1.
ServedFrom_One(i) == i * block_size

\* seek(SeekFrom::Start(block_index * block_size)); indexes start at 0
ServedFrom(i) == (i - 1) * block_size

-----------------------------------------------------------------------------
\* The reader is inside the file, and what it has indexed is a list of blocks.
TypeOK ==
    /\ block_size \in Sizes /\ file_size \in Lengths
    /\ taken \in 0..file_size /\ left \in 0..taken
    /\ blocks \in Seq([at : Nat, size : Nat])
    /\ done \in BOOLEAN

\* What a peer is sent for a block is what the node announced under its hash.
ServesWhatItIndexed == \A i \in 1..Len(blocks) : blocks[i].at = ServedFrom(i)

\* What the reader makes of the block size: whether no read before the end of the
\* file comes back short.
Aligned == block_size >= Cap \/ Cap % block_size = 0 \/ file_size =< Cap

\* A node serves what it announced just when its block size is aligned: with any other
\* size the last block that comes out of a full buffer is short, and the next one
\* is not where it is looked for.
ServesJustIfAligned ==
    /\ Aligned => ServesWhatItIndexed
    /\ done /\ ServesWhatItIndexed => Aligned

\* The blocks cover the file without a gap and without an overlap, so that the
\* peers' blocks joined in order hash to the file's hash.
BlocksTileFile ==
    /\ \A i \in 1..Len(blocks) : i > 1 => blocks[i].at = blocks[i-1].at + blocks[i-1].size
    /\ Len(blocks) > 0 => blocks[1].at = 0
    /\ done /\ Len(blocks) > 0 =>
          blocks[Len(blocks)].at + blocks[Len(blocks)].size = file_size
=============================================================================
