------------------------------- MODULE Catalog --------------------------------
(***************************************************************************)
(* What the tracker makes of reports: which it accepts (_normalize_resource   *)
(* and the limit on a request body), and the file index it builds from the    *)
(* accepted ones (build_file_index in tracker/tracker/registry.py).           *)
(*                                                                            *)
(* A file is the sequence of its blocks.  Its hash is modelled by the file    *)
(* itself: two files have one hash when they are equal.  Names are numbers,   *)
(* in the order of the paths, which is the order of a scan: files.sort() in   *)
(* local_files.rs.  A share directory, and the report made of it, gives each  *)
(* name the file it has there, or None.                            *)
(***************************************************************************)
EXTENDS Naturals, Sequences, FiniteSets
LOCAL INSTANCE FiniteSetsExt

CONSTANTS NameCount,  \* how many file names there are
          None,       \* no file of that name
          BodyLimit   \* blocks whose description fits the largest request body

ASSUME CatalogAssumption == NameCount \in Nat /\ BodyLimit \in Nat

Names == 1..NameCount

\* The names under which a directory or a report has a file, and its files.
NamesIn(files) == {n \in Names : files[n] # None}
FilesIn(files) == {files[n] : n \in NamesIn(files)}

\* `raw.get("blocks") or raw.get("block_indexes")' is None for an empty list, and
\* one resource without blocks fails the whole report.
Normalizes(files) == <<>> \notin FilesIn(files)

\* A body of more than a mebibyte is refused; almost all of it describes blocks.
Fits(files) == MapThenSumSet(LAMBDA n : Len(files[n]), NamesIn(files)) =< BodyLimit

Accepts(files) == Fits(files) /\ Normalizes(files)

-----------------------------------------------------------------------------
(* The index.  A table is a sequence of records [id, files], in the order of  *)
(* the dictionary.                                                            *)

BlockIndexes(file) == 0..(Len(file) - 1)

NewEntry(n) == [name |-> n, peers |-> <<>>, available |-> {}]

\* Mutant: the entry takes the name of each further holder.
AddResource_LastName(index, id, n, file) ==
    LET entry == IF file \in DOMAIN index THEN index[file] ELSE NewEntry(n)
        added == [name |-> n, peers |-> Append(entry.peers, id),
                  available |-> entry.available \cup BlockIndexes(file)]
    IN [f \in DOMAIN index \cup {file} |-> IF f = file THEN added ELSE index[f]]

\* The body of the inner loop: setdefault, the peer, the union of the blocks.
AddResource(index, id, n, file) ==
    LET entry == IF file \in DOMAIN index THEN index[file] ELSE NewEntry(n)
        added == [entry EXCEPT !.peers = Append(@, id),
                               !.available = @ \cup BlockIndexes(file)]
    IN [f \in DOMAIN index \cup {file} |-> IF f = file THEN added ELSE index[f]]

\* The inner loop: the resources of a record, in the order of the scan.
AddRecord(index, record) ==
    LET upTo[n \in 0..NameCount] ==
            IF n = 0 THEN index
            ELSE IF record.files[n] = None THEN upTo[n - 1]
            ELSE AddResource(upTo[n - 1], record.id, n, record.files[n])
    IN upTo[NameCount]

\* build_file_index
FileIndex(table) ==
    LET upTo[i \in 0..Len(table)] ==
            IF i = 0 THEN <<>> ELSE AddRecord(upTo[i - 1], table[i])
    IN upTo[Len(table)]

\* find_file_locations by name: by hash it is at most index[hash]
FindByName(index, n) == {f \in DOMAIN index : index[f].name = n}

-----------------------------------------------------------------------------
(* What the index should be.                                                 *)

Holding(table, file) == {i \in DOMAIN table : file \in FilesIn(table[i].files)}

\* A file goes by the name given first, in the order of the table and of the scan.
GoesBy(table, file, n) ==
    \E i \in Holding(table, file) :
        /\ \A k \in Holding(table, file) : i =< k
        /\ table[i].files[n] = file
        /\ \A m \in Names : table[i].files[m] = file => n =< m
=============================================================================
