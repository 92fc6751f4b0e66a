-------------------------------- MODULE Swarm ---------------------------------
(***************************************************************************)
(* Nodes and tracker together: what the tracker lists, against what the share *)
(* directories hold.  Users put and delete files, publish, download and take  *)
(* their node offline; nodes start under a new id each time                   *)
(* (node/src/random_id.rs) and stop at any point of a command                 *)
(* (transfer_worker.rs); their reports are refused, lost, or handled late,    *)
(* after the next one or after they have died; the tracker restarts and lets  *)
(* leases lapse (registry.py).                                                *)
(*                                                                            *)
(* How one download fetches its blocks is Download's subject, how the tracker *)
(* stores a report Registry's: here each is a few steps.                      *)
(***************************************************************************)
EXTENDS Catalog

CONSTANTS Nodes,       \* places a node runs at: an address and a share directory
          Ids,         \* node ids that may be drawn
          UserFiles,   \* files the users may put
          MaxChanges,  \* bound on the changes users make; a report counts as one while
                       \* it is late
          MaxCuts      \* bound on the writes that are cut short

ASSUME SwarmAssumption ==
    /\ MaxChanges \in Nat /\ MaxCuts \in Nat
    /\ UserFiles \subseteq Seq(Nat)
    /\ None \notin Nodes \cup Ids \cup Seq(Nat) \cup [Names -> Seq(Nat) \cup {None}]

VARIABLES dir,      \* the share directory of each node; it outlives the process
          changes,  \* how often users have changed one
          run,      \* the id of the node process at each place, or None
          drawn,    \* the ids drawn so far
          job,      \* what the worker of each node is doing
          rec,      \* the tracker's record of each id: its files, or None
          order,    \* the ids it has a record of, in the order of its dictionary
          late,     \* reports the tracker has read and not handled, whose connection
                    \* has broken
          put,      \* history: <<name, file>> that some user has put
          cuts,     \* how many files were cut short while written
          stale     \* history: what the last report of a node may not show

tracker == <<rec, order>>
vars == <<dir, changes, run, drawn, job, rec, order, late, put, cuts, stale>>

NoFiles == [n \in Names |-> None]
Idle == [st |-> "idle"]
Reporting(files) == [st |-> "reporting", files |-> files]
Fetching(f, n, got) == [st |-> "fetching", file |-> f, name |-> n, got |-> got]
Writing(f, n) == [st |-> "writing", file |-> f, name |-> n]
Saved == [st |-> "saved"]

Up(n) == run[n] # None
Ready(n) == Up(n) /\ job[n] = Idle
Writes(n, name) == job[n].st = "writing" /\ job[n].name = name

Init ==
    /\ dir = [n \in Nodes |-> NoFiles] /\ changes = 0
    /\ run = [n \in Nodes |-> None]
    /\ drawn = {}
    /\ job = [n \in Nodes |-> Idle]
    /\ rec = [id \in Ids |-> None] /\ order = <<>>
    /\ late = {}
    /\ put = {} /\ cuts = 0
    /\ stale = [n \in Nodes |-> FALSE]

\* The sequence s names each id that has a record in r, once.
Orders(s, r) ==
    /\ \A i, j \in 1..Len(s) : s[i] = s[j] => i = j
    /\ \A id \in Ids : r[id] # None <=> \E i \in 1..Len(s) : s[i] = id

-----------------------------------------------------------------------------
(* The tracker.                                                              *)

\* Mutant: an update moves a known id to the end without taking it out.
Takes_Appended(id, files) ==
    IF Accepts(files)
    THEN rec' = [rec EXCEPT ![id] = files] /\ order' = Append(order, id)
    ELSE UNCHANGED tracker

\* Mutant: an update takes a known id out and puts it in at the end.
Takes_Moved(id, files) ==
    IF Accepts(files)
    THEN /\ rec' = [rec EXCEPT ![id] = files]
         /\ order' = Append(SelectSeq(order, LAMBDA other : other # id), id)
    ELSE UNCHANGED tracker

\* update_node: an accepted report replaces the whole record and keeps its place;
\* a refused one changes nothing.
Takes(id, files) ==
    IF Accepts(files)
    THEN /\ rec' = [rec EXCEPT ![id] = files]
         /\ order' = IF rec[id] = None THEN Append(order, id) ELSE order
    ELSE UNCHANGED tracker

\* mark_node_offline, and cleanup_expired of one record
Drops(id) ==
    /\ rec' = [rec EXCEPT ![id] = None]
    /\ \E p \in 1..Len(order) :
         /\ order[p] = id
         /\ order' = [k \in 1..(Len(order) - 1) |-> order[IF k < p THEN k ELSE k + 1]]

\* A lease runs out: a node renews it only when its user says `update'.
Lapse(id) ==
    /\ rec[id] # None
    /\ Drops(id)
    /\ UNCHANGED <<dir, changes, run, drawn, job, late, put, cuts, stale>>

\* The tracker restarts.  Its file was saved with sort_keys=True: the records are
\* now in the order of the ids, which are hashes, so that this may be any order.
Reload ==
    /\ order' \in [1..Len(order) -> Ids]
    /\ Orders(order', rec)
    /\ UNCHANGED <<dir, changes, run, drawn, job, rec, late, put, cuts, stale>>

\* A handler thread gets to a report whose sender is gone, or has taken it for failed
\* and gone on.  One that the sender is just following up with the next is not the last.
LateArrives(m) ==
    /\ m \in late
    /\ late' = late \ {m}
    /\ Takes(m.id, m.files)
    /\ stale' = [n \in Nodes |->
          \/ stale[n]
          \/ run[n] = m.id /\ Accepts(m.files) /\ job[n].st # "reporting"]
    /\ UNCHANGED <<dir, changes, run, drawn, job, put, cuts>>

-----------------------------------------------------------------------------
(* Users and processes.                                                      *)

\* A user puts a file, replaces it or deletes it (None), but not while the node
\* is writing it.
UserChanges(n, name, f) ==
    /\ changes + Cardinality(late) < MaxChanges
    /\ ~Writes(n, name) /\ dir[n][name] # f
    /\ changes' = changes + 1
    /\ dir' = [dir EXCEPT ![n][name] = f]
    /\ put' = IF f = None THEN put ELSE put \cup {<<name, f>>}
    /\ stale' = [stale EXCEPT ![n] = Up(n)]
    /\ UNCHANGED <<run, drawn, job, tracker, late, cuts>>

\* Mutant: a new process may get the id of one that is gone.
Fresh_NotRunning(id) == \A n \in Nodes : run[n] # id

\* generate_node_id: a hash over address, time and a heap address
Fresh(id) == id \notin drawn

Start(n, id) ==
    /\ ~Up(n) /\ Fresh(id)
    /\ run' = [run EXCEPT ![n] = id]
    /\ drawn' = drawn \cup {id}
    /\ UNCHANGED <<dir, changes, job, tracker, late, put, cuts, stale>>

\* What an interrupted tokio::fs::write leaves: it truncates first.
Torn(f) == {SubSeq(f, 1, k) : k \in 0..(Len(f) - 1)}

\* Nothing of the write has survived but a part.
IsTorn(n) ==
    /\ cuts < MaxCuts
    /\ \E part \in Torn(job[n].file) : dir' = [dir EXCEPT ![n][job[n].name] = part]
    /\ cuts' = cuts + 1

\* The report on its way is among the late ones now.
LeavesReport(n) ==
    /\ job[n].st = "reporting" /\ changes + Cardinality(late) < MaxChanges
    /\ late' = late \cup {[id |-> run[n], files |-> job[n].files]}

\* The process stops, or is killed, wherever its worker is.  A report on its way is
\* lost or will still be handled.
Stop(n) ==
    /\ Up(n)
    /\ run' = [run EXCEPT ![n] = None]
    /\ job' = [job EXCEPT ![n] = Idle]
    /\ IF job[n].st = "writing" THEN IsTorn(n) ELSE UNCHANGED <<dir, cuts>>
    /\ UNCHANGED late \/ LeavesReport(n)
    /\ stale' = [stale EXCEPT ![n] = FALSE]
    /\ UNCHANGED <<changes, drawn, tracker, put>>

-----------------------------------------------------------------------------
(* The worker: publish and offline.                                          *)

\* publish_local_files, on `update' or after a download: the directory is scanned
\* and the request sent.
Scan(n) ==
    /\ Up(n) /\ job[n].st \in {"idle", "saved"}
    /\ job' = [job EXCEPT ![n] = Reporting(dir[n])]
    /\ stale' = [stale EXCEPT ![n] = FALSE]
    /\ UNCHANGED <<dir, changes, run, drawn, tracker, late, put, cuts>>

\* The tracker handles the report.
Arrive(n) ==
    /\ Up(n) /\ job[n].st = "reporting"
    /\ Takes(run[n], job[n].files)
    /\ job' = [job EXCEPT ![n] = Idle]
    /\ stale' = [stale EXCEPT ![n] = @ \/ ~Accepts(job[n].files)]
    /\ UNCHANGED <<dir, changes, run, drawn, late, put, cuts>>

\* The scan fails, the tracker is out of reach, or the connection breaks: before the
\* tracker has the report, after it has handled it, or in between, when a handler thread
\* will handle it whenever it gets there.
PublishFails(n) ==
    /\ \/ job[n].st \in {"reporting", "saved"} /\ UNCHANGED <<tracker, late>>
       \/ job[n].st = "reporting" /\ Takes(run[n], job[n].files) /\ UNCHANGED late
       \/ LeavesReport(n) /\ UNCHANGED tracker
    /\ job' = [job EXCEPT ![n] = Idle]
    /\ stale' = [stale EXCEPT ![n] = TRUE]
    /\ UNCHANGED <<dir, changes, run, drawn, put, cuts>>

\* mark_offline.  The process goes on running and serving.
Offline(n) ==
    /\ Ready(n) /\ rec[run[n]] # None
    /\ Drops(run[n])
    /\ UNCHANGED <<dir, changes, run, drawn, job, late, put, cuts, stale>>

-----------------------------------------------------------------------------
(* The worker: download.                                                     *)

Table == [i \in 1..Len(order) |-> [id |-> order[i], files |-> rec[order[i]]]]
Listed == UNION {FilesIn(rec[id]) : id \in {i \in Ids : rec[i] # None}}

\* resolve_download_target found one location.
Resolved(n, f, name) ==
    /\ job' = [job EXCEPT ![n] = Fetching(f, name, 0)]
    /\ UNCHANGED <<dir, changes, run, drawn, tracker, late, put, cuts, stale>>

AskByHash(n) ==
    /\ Ready(n)
    /\ \E f \in Listed, name \in Names : GoesBy(Table, f, name) /\ Resolved(n, f, name)

\* By name the answer must be unique; a file goes by the name of its first holder.
AskByName(n, name) ==
    /\ Ready(n)
    /\ \E f \in Listed :
         /\ {g \in Listed : GoesBy(Table, g, name)} = {f}
         /\ Resolved(n, f, name)

\* The block server at p scans its directory for the hash.
Serves(p, f) == Up(p) /\ f \in FilesIn(dir[p])

\* A block arrives from some node that has the file (which of them are asked, and
\* in which order, is Download's subject).
Fetch(n) ==
    LET j == job[n] IN
    /\ j.st = "fetching" /\ j.got < Len(j.file)
    /\ \E p \in Nodes : Serves(p, j.file)
    /\ job' = [job EXCEPT ![n] = Fetching(j.file, j.name, j.got + 1)]
    /\ UNCHANGED <<dir, changes, run, drawn, tracker, late, put, cuts, stale>>

\* Some block was refused by all its peers: they may be gone, or have replaced the
\* file, at any time.
FetchFails(n) ==
    /\ job[n].st = "fetching"
    /\ job' = [job EXCEPT ![n] = Idle]
    /\ UNCHANGED <<dir, changes, run, drawn, tracker, late, put, cuts, stale>>

\* Mutant: the joined blocks are not hashed.
Whole_Unchecked(j) == j.got > 0

\* join_blocks and the comparison with the file's hash
Whole(j) == j.got = Len(j.file)

\* The file is opened for writing under the name listed, which empties it,
\* whatever was there.
BeginWrite(n) ==
    LET j == job[n] IN
    /\ j.st = "fetching" /\ Whole(j)
    /\ dir' = [dir EXCEPT ![n][j.name] = <<>>]
    /\ job' = [job EXCEPT ![n] = Writing(SubSeq(j.file, 1, j.got), j.name)]
    /\ UNCHANGED <<changes, run, drawn, tracker, late, put, cuts, stale>>

EndWrite(n) ==
    /\ job[n].st = "writing"
    /\ dir' = [dir EXCEPT ![n][job[n].name] = job[n].file]
    /\ job' = [job EXCEPT ![n] = Saved]
    /\ UNCHANGED <<changes, run, drawn, tracker, late, put, cuts, stale>>

\* The write fails, the disk being full for example; nothing is cleaned up and
\* nothing published.
WriteFails(n) ==
    /\ job[n].st = "writing"
    /\ IsTorn(n)
    /\ job' = [job EXCEPT ![n] = Idle]
    /\ stale' = [stale EXCEPT ![n] = TRUE]
    /\ UNCHANGED <<changes, run, drawn, tracker, late, put>>

-----------------------------------------------------------------------------
Publish(n) == Scan(n) \/ Arrive(n) \/ PublishFails(n)
Fetches(n) == Fetch(n) \/ FetchFails(n) \/ BeginWrite(n) \/ EndWrite(n) \/ WriteFails(n)

Next ==
    \/ \E n \in Nodes :
         \/ \E name \in Names :
              AskByName(n, name) \/ \E f \in UserFiles \cup {None} : UserChanges(n, name, f)
         \/ \E id \in Ids : Start(n, id)
         \/ AskByHash(n) \/ Stop(n) \/ Publish(n) \/ Offline(n) \/ Fetches(n)
    \/ \E id \in Ids : Lapse(id)
    \/ \E m \in late : LateArrives(m)
    \/ Reload

Spec == Init /\ [][Next]_vars

-----------------------------------------------------------------------------
Files == UNION {Torn(f) \cup {f} : f \in UserFiles}
Dirs == [Names -> Files \cup {None}]
Jobs == {Idle, Saved} \cup [st : {"reporting"}, files : Dirs]
        \cup [st : {"fetching"}, file : Files, name : Names, got : Nat]
        \cup [st : {"writing"}, file : Files, name : Names]

NodesOK ==
    /\ dir \in [Nodes -> Dirs]
    /\ run \in [Nodes -> Ids \cup {None}] /\ drawn \subseteq Ids
    /\ \A n \in Nodes : Up(n) => run[n] \in drawn
    /\ \A m, n \in Nodes : Up(n) /\ run[m] = run[n] => m = n
    /\ job \in [Nodes -> Jobs]
    /\ \A n \in Nodes :
         /\ ~Up(n) => job[n] = Idle
         /\ job[n].st = "fetching" => job[n].got =< Len(job[n].file)

TrackerOK ==
    /\ rec \in [Ids -> Dirs \cup {None}]
    /\ order \in Seq(Ids) /\ Orders(order, rec)
    /\ \A m \in late : m.id \in Ids /\ m.files \in Dirs

HistoryOK ==
    /\ changes \in Nat /\ cuts \in 0..MaxCuts
    /\ put \subseteq Names \X UserFiles
    /\ stale \in [Nodes -> BOOLEAN]

\* Nodes, requests and table are well formed; no two processes have one id, and the
\* order of the tracker's dictionary names each id that has a record once.
TypeOK == NodesOK /\ TrackerOK /\ HistoryOK

WasPut(name, f) == IF cuts > 0 THEN \E p \in put : p[1] = name /\ f \in Torn(p[2]) \cup {p[2]}
                   ELSE <<name, f>> \in put

\* Whatever the tracker lists, over any number of downloads from downloads, some
\* user put under that name; after a write was cut short it may be the beginning
\* of such a file, and nothing else.
ListedWasPut ==
    \A id \in Ids : rec[id] # None =>
        \A name \in NamesIn(rec[id]) : WasPut(name, rec[id][name])

\* The tracker's record of a running node is its share directory, unless since the scan
\* a user has changed that, an attempt to publish has failed, or the tracker has come to
\* handle a report of this process whose connection broke: no record of an earlier
\* process stands in for it, and what a download saved, and what it overwrote, shows
\* in it.
RecordIsDirectory ==
    \A n \in Nodes : Ready(n) /\ ~stale[n] =>
        rec[run[n]] \in {None, dir[n]}

\* Who reports a file later than others does not rename it for those who ask for it:
\* unless the tracker restarts, a file changes its name only with the record of its
\* first holder or of a node reported before that.
NamesStay ==
    [][\/ UNCHANGED tracker \/ Reload
       \/ \A f \in Listed :
            \/ \E k \in 1..Len(order) : /\ rec'[order[k]] # rec[order[k]]
                                        /\ \A i \in Holding(Table, f) : k =< i
            \/ \A name \in Names : GoesBy(Table, f, name) => GoesBy(Table', f, name)]_vars

\* The loop over the records finds exactly the files reported, each under the name
\* given first, with those for peers whose records have it.  (A peer is there once for
\* each name it has the file under: tracker/README.md counts nodes, peer_count copies.)
IndexIsExact ==
    LET index == FileIndex(Table) IN
    /\ DOMAIN index = Listed
    /\ \A name \in Names :
         FindByName(index, name) = {f \in Listed : GoesBy(Table, f, name)}
    /\ \A f \in Listed :
         {index[f].peers[k] : k \in DOMAIN index[f].peers}
             = {order[i] : i \in Holding(Table, f)}
=============================================================================
