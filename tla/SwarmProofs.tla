------------------------------ MODULE SwarmProofs ------------------------------
(* What the tracker lists, against what the share directories hold, for any   *)
(* number of nodes, processes, files and changes.                             *)
EXTENDS Swarm, CatalogProofs, TLAPS

USE SwarmAssumption

\* What is left of a part of a file is a part of the file.
LEMMA PartOfPart ==
    ASSUME NEW f \in Seq(Nat), NEW part \in Torn(f) \cup {f}, NEW rest \in Torn(part)
    PROVE  rest \in Torn(f)
<1>1. PICK k \in 0..Len(f) : part = SubSeq(f, 1, k)
  <2>1. CASE part \in Torn(f)
    <3>1. PICK k \in 0..(Len(f) - 1) : part = SubSeq(f, 1, k)
      BY <2>1 DEF Torn
    <3>2. k \in 0..Len(f)
      OBVIOUS
    <3> QED BY <3>1, <3>2
  <2>2. CASE part = f
    <3>1. f = SubSeq(f, 1, Len(f)) /\ Len(f) \in 0..Len(f)
      OBVIOUS
    <3> QED BY <2>2, <3>1
  <2> QED BY <2>1, <2>2
<1>2. PICK m \in 0..(Len(part) - 1) : rest = SubSeq(part, 1, m)
  BY DEF Torn
<1>3. part \in Seq(Nat) /\ Len(part) = k
  BY <1>1
<1>4. /\ m \in 0..(Len(f) - 1) /\ m =< k
      /\ SubSeq(SubSeq(f, 1, k), 1, m) = SubSeq(f, 1, m)
  BY <1>1, <1>2, <1>3
<1> QED BY <1>1, <1>2, <1>4 DEF Torn

\* Files are sequences of blocks, and their parts are files.
LEMMA FilesAreSequences == Files \subseteq Seq(Nat) /\ None \notin Files
<1>1. ASSUME NEW f \in UserFiles, NEW part \in Torn(f)
      PROVE  part \in Seq(Nat)
  <2>1. f \in Seq(Nat)
    BY SwarmAssumption
  <2>2. PICK k \in 0..(Len(f) - 1) : part = SubSeq(f, 1, k)
    BY <1>1 DEF Torn
  <2> HIDE SwarmAssumption
  <2> QED BY <2>1, <2>2
<1>2. None \notin Seq(Nat)
  BY SwarmAssumption
<1> QED BY <1>1, <1>2, SwarmAssumption DEF Files

LEMMA PartsAreFiles ==
    ASSUME NEW f \in Files, NEW part \in Torn(f)
    PROVE  part \in Files
<1>1. PICK u \in UserFiles : f \in Torn(u) \cup {u}
  BY DEF Files
<1>2. part \in Torn(u)
  BY <1>1, PartOfPart
<1> QED BY <1>2 DEF Files

\* The beginning of a file, empty as it may be, is a file.
LEMMA EmptyIsAFile ==
    ASSUME NEW f \in Files
    PROVE  <<>> \in Files
<1>1. f \in Seq(Nat)
  BY FilesAreSequences
<1>2. CASE Len(f) = 0
  BY <1>1, <1>2
<1>3. CASE Len(f) > 0
  <2>1. SubSeq(f, 1, 0) = <<>> /\ 0 \in 0..(Len(f) - 1)
    BY <1>1, <1>3
  <2>2. <<>> \in Torn(f)
    BY <2>1 DEF Torn
  <2> QED BY <2>2, PartsAreFiles
<1> QED BY <1>1, <1>2, <1>3

-----------------------------------------------------------------------------
\* Taking a report keeps the table in order.
LEMMA TakesKeepsOrder ==
    ASSUME rec \in [Ids -> Dirs \cup {None}], order \in Seq(Ids), Orders(order, rec),
           NEW id \in Ids, NEW files \in Dirs, files # None, Takes(id, files)
    PROVE  /\ rec' \in [Ids -> Dirs \cup {None}]
           /\ order' \in Seq(Ids) /\ Orders(order', rec')
<1>1. CASE ~Accepts(files)
  BY <1>1 DEF Takes, tracker
<1>2. CASE Accepts(files) /\ rec[id] # None
  BY <1>2 DEF Takes, Orders
<1>3. CASE Accepts(files) /\ rec[id] = None
  <2>1. rec' = [rec EXCEPT ![id] = files] /\ order' = Append(order, id)
    BY <1>3 DEF Takes
  <2>2. /\ order' \in Seq(Ids) /\ Len(order') = Len(order) + 1
        /\ \A i \in 1..Len(order) : order'[i] = order[i]
        /\ order'[Len(order) + 1] = id
    BY <2>1
  <2>3. \A i \in 1..Len(order) : order[i] # id
    BY <1>3 DEF Orders
  <2>4. \A i, j \in 1..Len(order') : order'[i] = order'[j] => i = j
    BY <2>2, <2>3 DEF Orders
  <2>5. ASSUME NEW i \in Ids
        PROVE  rec'[i] # None <=> \E k \in 1..Len(order') : order'[k] = i
    BY <2>1, <2>2 DEF Orders
  <2> QED BY <2>1, <2>2, <2>4, <2>5 DEF Orders
<1> QED BY <1>1, <1>2, <1>3

\* So does taking a record out.
LEMMA DropsKeepsOrder ==
    ASSUME rec \in [Ids -> Dirs \cup {None}], order \in Seq(Ids), Orders(order, rec),
           NEW id \in Ids, Drops(id)
    PROVE  /\ rec' \in [Ids -> Dirs \cup {None}]
           /\ order' \in Seq(Ids) /\ Orders(order', rec')
<1>1. PICK p \in 1..Len(order) :
          /\ order[p] = id
          /\ order' = [k \in 1..(Len(order) - 1) |-> order[IF k < p THEN k ELSE k + 1]]
  BY DEF Drops
<1>2. Len(order) \in Nat /\ \A i \in 1..Len(order) : order[i] \in Ids
  OBVIOUS
<1>3. order' \in Seq(Ids) /\ Len(order') = Len(order) - 1
  BY <1>1, <1>2
<1>4. \A i, j \in 1..Len(order') : order'[i] = order'[j] => i = j
  BY <1>1, <1>2, <1>3 DEF Orders
<1>5. ASSUME NEW i \in Ids
      PROVE  rec'[i] # None <=> \E k \in 1..Len(order') : order'[k] = i
  <2>1. ASSUME NEW k \in 1..Len(order'), order'[k] = i
        PROVE  i # id /\ rec[i] # None
    <3> DEFINE q == IF k < p THEN k ELSE k + 1
    <3>1. q \in 1..Len(order) /\ q # p /\ order[q] = i
      BY <1>1, <1>2, <1>3, <2>1
    <3> QED BY <1>1, <3>1 DEF Orders
  <2>2. ASSUME i # id, rec[i] # None
        PROVE  \E k \in 1..Len(order') : order'[k] = i
    <3>1. PICK q \in 1..Len(order) : order[q] = i
      BY <2>2 DEF Orders
    <3>2. q # p
      BY <1>1, <2>2, <3>1
    <3> DEFINE k == IF q < p THEN q ELSE q - 1
    <3>3. k \in 1..Len(order') /\ order'[k] = order[q]
      BY <1>1, <1>2, <1>3, <3>2
    <3> QED BY <3>1, <3>3
  <2>3. rec'[i] # None <=> i # id /\ rec[i] # None
    BY DEF Drops
  <2> QED BY <2>1, <2>2, <2>3
<1>6. rec' \in [Ids -> Dirs \cup {None}]
  BY DEF Drops
<1> QED BY <1>3, <1>4, <1>5, <1>6 DEF Orders

-----------------------------------------------------------------------------
\* What the worker may be doing, and what it then knows.
LEMMA JobsRead ==
    ASSUME NEW j \in Jobs
    PROVE  /\ j.st \in {"idle", "saved", "reporting", "fetching", "writing"}
           /\ j.st = "idle" <=> j = Idle
           /\ j.st = "saved" <=> j = Saved
           /\ j.st = "reporting" => j.files \in Dirs /\ j = Reporting(j.files)
           /\ j.st = "fetching" => /\ j.file \in Files /\ j.name \in Names /\ j.got \in Nat
                                  /\ j = Fetching(j.file, j.name, j.got)
           /\ j.st = "writing" => /\ j.file \in Files /\ j.name \in Names
                                 /\ j = Writing(j.file, j.name)
BY DEF Jobs, Idle, Saved, Reporting, Fetching, Writing

LEMMA JobsMade ==
    /\ Idle \in Jobs /\ Idle.st = "idle"
    /\ Saved \in Jobs /\ Saved.st = "saved"
    /\ \A files \in Dirs : /\ Reporting(files) \in Jobs
                           /\ Reporting(files).st = "reporting"
                           /\ Reporting(files).files = files
    /\ \A f \in Files, name \in Names :
         /\ \A got \in Nat : /\ Fetching(f, name, got) \in Jobs
                             /\ Fetching(f, name, got).st = "fetching"
                             /\ Fetching(f, name, got).file = f
                             /\ Fetching(f, name, got).name = name
                             /\ Fetching(f, name, got).got = got
         /\ Writing(f, name) \in Jobs
         /\ Writing(f, name).st = "writing"
         /\ Writing(f, name).file = f
         /\ Writing(f, name).name = name
BY DEF Jobs, Idle, Saved, Reporting, Fetching, Writing

\* The parts of a directory.
LEMMA DirsRead ==
    ASSUME NEW files \in Dirs
    PROVE  /\ files # None
           /\ \A name \in Names : files[name] \in Files \cup {None}
           /\ \A f : f \in FilesIn(files) => f \in Files
<1>1. \A name \in Names : files[name] \in Files \cup {None}
  BY DEF Dirs
<1>2. files # None
  BY FilesAreSequences, SwarmAssumption DEF Dirs
<1> QED BY <1>1, <1>2 DEF FilesIn, NamesIn

-----------------------------------------------------------------------------
\* Places, processes and workers stay well formed in every step.
LEMMA NodesStep ==
    ASSUME TypeOK, [Next]_vars
    PROVE  NodesOK'
<1> USE DEF TypeOK, NodesOK, Up, Ready
<1>1. ASSUME NEW n \in Nodes, NEW name \in Names, AskByName(n, name)
      PROVE  NodesOK'
  <2>1. PICK f \in Listed : Resolved(n, f, name)
    BY <1>1 DEF AskByName
  <2>2. f \in Files
    BY DirsRead DEF Listed, TrackerOK
  <2>3. job' = [job EXCEPT ![n] = Fetching(f, name, 0)]
    BY <2>1 DEF Resolved
  <2> QED BY <1>1, <2>1, <2>2, <2>3, JobsMade, JobsRead, FilesAreSequences DEF AskByName, Resolved
<1>2. ASSUME NEW n \in Nodes, NEW name \in Names, NEW f \in UserFiles \cup {None},
             UserChanges(n, name, f)
      PROVE  NodesOK'
  <2>1. f \in Files \cup {None}
    BY DEF Files
  <2>2. dir' \in [Nodes -> Dirs]
    BY <1>2, <2>1 DEF UserChanges, Dirs
  <2> QED BY <1>2, <2>2 DEF UserChanges
<1>3. ASSUME NEW n \in Nodes, NEW id \in Ids, Start(n, id)
      PROVE  NodesOK'
  BY <1>3, SwarmAssumption DEF Start, Fresh
<1>4. ASSUME NEW n \in Nodes, AskByHash(n)
      PROVE  NodesOK'
  <2>1. PICK f \in Listed, name \in Names : Resolved(n, f, name)
    BY <1>4 DEF AskByHash
  <2>2. f \in Files
    BY DirsRead DEF Listed, TrackerOK
  <2>3. job' = [job EXCEPT ![n] = Fetching(f, name, 0)]
    BY <2>1 DEF Resolved
  <2> QED BY <1>4, <2>1, <2>2, <2>3, JobsMade, JobsRead, FilesAreSequences DEF AskByHash, Resolved
<1>5. ASSUME NEW n \in Nodes, IsTorn(n), job[n].st = "writing"
      PROVE  dir' \in [Nodes -> Dirs]
  <2>1. job[n].file \in Files /\ job[n].name \in Names
    BY <1>5, JobsRead
  <2>2. PICK part \in Torn(job[n].file) : dir' = [dir EXCEPT ![n][job[n].name] = part]
    BY <1>5 DEF IsTorn
  <2>3. part \in Files
    BY <2>1, <2>2, PartsAreFiles
  <2> QED BY <2>1, <2>2, <2>3 DEF Dirs
<1>6. ASSUME NEW n \in Nodes, Stop(n)
      PROVE  NodesOK'
  <2>1. dir' \in [Nodes -> Dirs]
    BY <1>5, <1>6 DEF Stop
  <2>2. /\ run' = [run EXCEPT ![n] = None] /\ drawn' = drawn
        /\ job' = [job EXCEPT ![n] = Idle]
    BY <1>6 DEF Stop
  <2> QED BY <2>1, <2>2, JobsMade, SwarmAssumption
<1>7. ASSUME NEW n \in Nodes, Scan(n)
      PROVE  NodesOK'
  BY <1>7, JobsMade DEF Scan
<1>8. ASSUME NEW n \in Nodes, Arrive(n) \/ PublishFails(n) \/ FetchFails(n)
      PROVE  NodesOK'
  BY <1>8, JobsMade DEF Arrive, PublishFails, FetchFails
<1>9. ASSUME NEW n \in Nodes, Fetch(n)
      PROVE  NodesOK'
  <2>1. /\ job[n].file \in Files /\ job[n].name \in Names /\ job[n].got \in Nat
        /\ job[n].got < Len(job[n].file) /\ Len(job[n].file) \in Nat
        /\ job' = [job EXCEPT ![n] = Fetching(job[n].file, job[n].name, job[n].got + 1)]
    BY <1>9, JobsRead, FilesAreSequences DEF Fetch
  <2>2. job[n] # Idle
    BY <1>9, JobsMade DEF Fetch
  <2> QED BY <1>9, <2>1, <2>2, JobsMade DEF Fetch
<1>10. ASSUME NEW n \in Nodes, BeginWrite(n)
       PROVE  NodesOK'
  <2>1. /\ job[n].file \in Files /\ job[n].name \in Names
        /\ SubSeq(job[n].file, 1, job[n].got) = job[n].file
    BY <1>10, JobsRead, FilesAreSequences DEF BeginWrite, Whole
  <2>2. dir' = [dir EXCEPT ![n][job[n].name] = <<>>] /\ <<>> \in Files
    BY <1>10, <2>1, EmptyIsAFile DEF BeginWrite
  <2>3. dir' \in [Nodes -> Dirs]
    BY <2>1, <2>2 DEF Dirs
  <2>4. job' = [job EXCEPT ![n] = Writing(job[n].file, job[n].name)] /\ job[n] # Idle
    BY <1>10, <2>1, JobsMade DEF BeginWrite
  <2> QED BY <1>10, <2>1, <2>3, <2>4, JobsMade DEF BeginWrite
<1>11. ASSUME NEW n \in Nodes, EndWrite(n)
       PROVE  NodesOK'
  <2>1. job[n].file \in Files /\ job[n].name \in Names /\ job[n] # Idle
    BY <1>11, JobsRead, JobsMade DEF EndWrite
  <2>2. dir' \in [Nodes -> Dirs]
    BY <1>11, <2>1 DEF EndWrite, Dirs
  <2> QED BY <1>11, <2>1, <2>2, JobsMade DEF EndWrite
<1>12. ASSUME NEW n \in Nodes, WriteFails(n)
       PROVE  NodesOK'
  BY <1>5, <1>12, JobsMade DEF WriteFails
<1>13. ASSUME UNCHANGED <<dir, run, drawn, job>>
       PROVE  NodesOK'
  BY <1>13
<1> QED
  BY <1>1, <1>2, <1>3, <1>4, <1>6, <1>7, <1>8, <1>9, <1>10, <1>11, <1>12, <1>13
  DEF Next, Publish, Fetches, Offline, Lapse, LateArrives, Reload, vars

\* The tracker's table stays in order.
LEMMA TrackerStep ==
    ASSUME TypeOK, [Next]_vars
    PROVE  TrackerOK'
<1> USE DEF TypeOK, TrackerOK
<1>1. ASSUME NEW n \in Nodes, Arrive(n)
      PROVE  TrackerOK'
  <2>1. run[n] \in Ids /\ job[n].files \in Dirs
    BY <1>1, JobsRead DEF Arrive, NodesOK, Up
  <2> QED BY <1>1, <2>1, TakesKeepsOrder, DirsRead DEF Arrive
<1>9. ASSUME NEW n \in Nodes, PublishFails(n)
      PROVE  TrackerOK'
  <2>1. job[n].st = "reporting" => job[n].files \in Dirs /\ run[n] \in Ids
    BY JobsRead, JobsMade DEF NodesOK, Up
  <2>2. CASE UNCHANGED <<tracker, late>>
    BY <2>2 DEF tracker, Orders
  <2>3. CASE job[n].st = "reporting" /\ Takes(run[n], job[n].files) /\ UNCHANGED late
    BY <2>1, <2>3, TakesKeepsOrder, DirsRead
  <2>4. CASE LeavesReport(n) /\ UNCHANGED tracker
    BY <2>1, <2>4 DEF LeavesReport, tracker, Orders
  <2> QED BY <1>9, <2>2, <2>3, <2>4 DEF PublishFails
<1>2. ASSUME NEW m \in late, LateArrives(m)
      PROVE  TrackerOK'
  BY <1>2, TakesKeepsOrder, DirsRead DEF LateArrives
<1>3. ASSUME NEW id \in Ids, Drops(id), UNCHANGED late
      PROVE  TrackerOK'
  BY <1>3, DropsKeepsOrder
<1>4. ASSUME Reload
      PROVE  TrackerOK'
  <2>1. order' \in Seq(Ids)
    BY <1>4 DEF Reload
  <2> QED BY <1>4, <2>1 DEF Reload, Orders
<1>5. ASSUME NEW n \in Nodes, Stop(n)
      PROVE  TrackerOK'
  <2>1. job[n].st = "reporting" => job[n].files \in Dirs
    BY JobsRead DEF NodesOK
  <2>2. run[n] \in Ids
    BY <1>5 DEF Stop, NodesOK, Up
  <2> QED BY <1>5, <2>1, <2>2 DEF Stop, LeavesReport, tracker, Orders
<1>6. ASSUME NEW n \in Nodes, Offline(n)
      PROVE  TrackerOK'
  BY <1>3, <1>6 DEF Offline, NodesOK, Ready, Up
<1>7. ASSUME NEW id \in Ids, Lapse(id)
      PROVE  TrackerOK'
  BY <1>3, <1>7 DEF Lapse
<1>8. ASSUME UNCHANGED <<tracker, late>>
      PROVE  TrackerOK'
  BY <1>8 DEF tracker, Orders
<1> QED
  BY <1>1, <1>2, <1>4, <1>5, <1>6, <1>7, <1>8, <1>9
  DEF Next, Publish, Fetches, AskByName, AskByHash, Resolved, UserChanges, Start, Scan,
      Fetch, FetchFails, BeginWrite, EndWrite, WriteFails, vars, tracker

\* So do the counts and the histories.
LEMMA HistoryStep ==
    ASSUME TypeOK, [Next]_vars
    PROVE  HistoryOK'
<1> USE DEF TypeOK, HistoryOK
<1>1. ASSUME NEW n \in Nodes, NEW name \in Names, NEW f \in UserFiles \cup {None},
             UserChanges(n, name, f)
      PROVE  HistoryOK'
  BY <1>1 DEF UserChanges, Up
<1>2. ASSUME NEW n \in Nodes, NEW id \in Ids, Start(n, id)
      PROVE  HistoryOK'
  BY <1>2 DEF Start
<1>3. ASSUME NEW n \in Nodes, Stop(n) \/ WriteFails(n)
      PROVE  HistoryOK'
  <2>1. cuts' \in 0..MaxCuts
    BY <1>3, SwarmAssumption DEF Stop, WriteFails, IsTorn
  <2>2. stale' \in [Nodes -> BOOLEAN]
    <3>1. stale' = [stale EXCEPT ![n] = FALSE] \/ stale' = [stale EXCEPT ![n] = TRUE]
      BY <1>3 DEF Stop, WriteFails
    <3> QED BY <3>1
  <2> QED BY <1>3, <2>1, <2>2 DEF Stop, WriteFails
<1>4. ASSUME NEW n \in Nodes, Publish(n)
      PROVE  HistoryOK'
  BY <1>4 DEF Publish, Scan, Arrive, PublishFails
<1>6. ASSUME NEW m \in late, LateArrives(m)
      PROVE  HistoryOK'
  BY <1>6 DEF LateArrives
<1>5. ASSUME UNCHANGED <<changes, cuts, put, stale>>
      PROVE  HistoryOK'
  BY <1>5
<1> QED
  BY <1>1, <1>2, <1>3, <1>4, <1>5, <1>6
  DEF Next, Fetches, AskByName, AskByHash, Resolved, Fetch, FetchFails, BeginWrite, EndWrite,
      Offline, Lapse, Reload, vars

\* In every state no two processes have one id, each report and each job is about
\* files, and the order of the tracker's dictionary names each record once.
THEOREM SwarmTypes == Spec => []TypeOK
<1>1. Init => TypeOK
  <2>1. Init => NodesOK
    BY JobsMade, SwarmAssumption DEF Init, NodesOK, NoFiles, Dirs, Up
  <2>2. Init => TrackerOK
    BY DEF Init, TrackerOK, Orders
  <2>3. Init => HistoryOK
    BY SwarmAssumption DEF Init, HistoryOK
  <2> QED BY <2>1, <2>2, <2>3 DEF TypeOK
<1>2. TypeOK /\ [Next]_vars => TypeOK'
  BY NodesStep, TrackerStep, HistoryStep DEF TypeOK
<1> QED BY <1>1, <1>2, PTL DEF Spec

-----------------------------------------------------------------------------
(* Why what is listed was put.  A report is made of a directory, a directory   *)
(* of puts and downloads, and a download takes name and file from a listing:   *)
(* so all of them have to be followed at once.                                 *)

AllPut(files) == \A name \in NamesIn(files) : WasPut(name, files[name])

PutAt(n) ==
    /\ \A name \in NamesIn(dir[n]) : Writes(n, name) \/ WasPut(name, dir[n][name])
    /\ job[n].st = "reporting" => AllPut(job[n].files)
    /\ job[n].st \in {"fetching", "writing"} => WasPut(job[n].name, job[n].file)

PutInv ==
    /\ ListedWasPut
    /\ \A m \in late : AllPut(m.files)
    /\ \A n \in Nodes : PutAt(n)

\* What was put stays put, when more is put or a write is cut short.
LEMMA WasPutStays ==
    ASSUME cuts \in Nat, cuts' \in Nat, cuts =< cuts', put \subseteq put',
           put \subseteq Names \X UserFiles,
           NEW name, NEW f, WasPut(name, f)
    PROVE  WasPut(name, f)'
<1>1. CASE cuts > 0
  BY <1>1 DEF WasPut
<1>2. CASE ~(cuts > 0)
  <2>1. <<name, f>> \in put
    BY <1>2 DEF WasPut
  <2>2. <<name, f>>[1] = name /\ f \in Torn(<<name, f>>[2]) \cup {<<name, f>>[2]}
    OBVIOUS
  <2> QED BY <2>1, <2>2 DEF WasPut
<1> QED BY <1>1, <1>2

\* The beginning of what was put counts as put once a write has been cut short.
LEMMA TornWasPut ==
    ASSUME cuts \in Nat, cuts' \in Nat, cuts' > 0, put' = put,
           put \subseteq Names \X UserFiles,
           NEW name, NEW f, WasPut(name, f), NEW part \in Torn(f)
    PROVE  WasPut(name, part)'
<1>1. PICK p \in put : p[1] = name /\ f \in Torn(p[2]) \cup {p[2]}
  <2>1. CASE cuts > 0
    BY <2>1 DEF WasPut
  <2>2. CASE ~(cuts > 0)
    <3>1. <<name, f>> \in put
      BY <2>2 DEF WasPut
    <3>2. <<name, f>>[1] = name /\ f \in Torn(<<name, f>>[2]) \cup {<<name, f>>[2]}
      OBVIOUS
    <3> QED BY <3>1, <3>2
  <2> QED BY <2>1, <2>2
<1>2. p[2] \in Seq(Nat)
  BY SwarmAssumption
<1>3. part \in Torn(p[2])
  BY <1>1, <1>2, PartOfPart
<1> QED BY <1>1, <1>3 DEF WasPut

\* Taking a report made of puts lists nothing but puts.
LEMMA TakesPut ==
    ASSUME rec \in [Ids -> Dirs \cup {None}], PutInv, UNCHANGED <<put, cuts>>,
           NEW id \in Ids, NEW files, AllPut(files), Takes(id, files)
    PROVE  ListedWasPut'
<1>1. ASSUME NEW i \in Ids, rec'[i] # None
      PROVE  rec'[i] = rec[i] \/ rec'[i] = files
  BY DEF Takes, tracker
<1>2. ASSUME NEW i \in Ids, rec'[i] # None, NEW name \in NamesIn(rec'[i])
      PROVE  WasPut(name, rec'[i][name])
  BY <1>1, <1>2 DEF PutInv, ListedWasPut, AllPut
<1> QED BY <1>2 DEF ListedWasPut, WasPut, NamesIn

\* What a listing gives was put under the name it gives.
LEMMA ResolvedPut ==
    ASSUME TypeOK, ListedWasPut,
           NEW f \in Listed, NEW name \in Names, GoesBy(Table, f, name)
    PROVE  WasPut(name, f)
<1>1. PICK i \in Holding(Table, f) : Table[i].files[name] = f
  BY DEF GoesBy
<1>2. i \in 1..Len(order) /\ Table[i].files = rec[order[i]]
  BY <1>1 DEF Holding, Table, TypeOK, TrackerOK
<1>3. order[i] \in Ids /\ rec[order[i]] # None
  BY <1>2 DEF TypeOK, TrackerOK, Orders
<1>4. rec[order[i]] \in Dirs
  BY <1>3 DEF TypeOK, TrackerOK
<1>5. f # None
  BY DirsRead DEF Listed, FilesIn, NamesIn
<1>6. name \in NamesIn(rec[order[i]])
  BY <1>1, <1>2, <1>5 DEF NamesIn
<1> QED BY <1>1, <1>2, <1>3, <1>6 DEF ListedWasPut

\* Reports, directories and downloads hold nothing but puts after every step.
LEMMA PutStep ==
    ASSUME TypeOK, TypeOK', PutInv, [Next]_vars
    PROVE  PutInv'
<1>1. /\ cuts \in Nat /\ cuts' \in Nat
      /\ put \subseteq Names \X UserFiles /\ put' \subseteq Names \X UserFiles
  BY SwarmAssumption DEF TypeOK, HistoryOK
<1>2. put \subseteq put' /\ cuts =< cuts'
  <2>1. ASSUME NEW n \in Nodes, Stop(n) \/ WriteFails(n)
        PROVE  put = put' /\ cuts =< cuts'
    BY <1>1, <2>1 DEF Stop, WriteFails, IsTorn
  <2>2. ASSUME NEW n \in Nodes, NEW name \in Names, NEW f \in UserFiles \cup {None},
               UserChanges(n, name, f)
        PROVE  put \subseteq put' /\ cuts = cuts'
    BY <2>2 DEF UserChanges
  <2> QED
    BY <1>1, <2>1, <2>2
    DEF Next, Publish, Scan, Arrive, PublishFails, Fetches, Fetch, FetchFails, BeginWrite,
        EndWrite, AskByName, AskByHash, Resolved, Offline, Start, Lapse, LateArrives, Reload,
        vars
<1>3. \A name, f : WasPut(name, f) => WasPut(name, f)'
  BY <1>1, <1>2, WasPutStays
<1>4. \A files : AllPut(files) => AllPut(files)'
  BY <1>3 DEF AllPut
<1>5. ASSUME UNCHANGED rec
      PROVE  ListedWasPut'
  BY <1>3, <1>5 DEF PutInv, ListedWasPut
<1>6. ASSUME NEW n \in Nodes, dir'[n] = dir[n], job'[n] = job[n]
      PROVE  PutAt(n)'
  BY <1>3, <1>4, <1>6 DEF PutInv, PutAt, Writes
<1>7. ASSUME NEW n \in Nodes, dir'[n] = dir[n],
             job'[n].st \in {"idle", "saved"}, job[n].st # "writing"
      PROVE  PutAt(n)'
  BY <1>3, <1>7 DEF PutInv, PutAt, Writes
<1>8. ASSUME UNCHANGED <<dir, job>>
      PROVE  \A n \in Nodes : PutAt(n)'
  BY <1>6, <1>8
<1>9. ASSUME UNCHANGED late
      PROVE  \A m \in late' : AllPut(m.files)'
  BY <1>4, <1>9 DEF PutInv
<1>10. ASSUME NEW n \in Nodes, NEW name \in Names, NEW f, f \in Listed,
              GoesBy(Table, f, name), Resolved(n, f, name), Ready(n)
       PROVE  PutInv'
  <2>1. WasPut(name, f)'
    BY <1>3, <1>10, ResolvedPut DEF PutInv
  <2>2. job'[n] = Fetching(f, name, 0) /\ dir' = dir
    BY <1>10 DEF Resolved, TypeOK, NodesOK
  <2>3. /\ job'[n].st = "fetching" /\ job'[n].file = f /\ job'[n].name = name
        /\ job[n].st = "idle"
    BY <1>10, <2>2, JobsMade DEF Fetching, Ready
  <2>4. PutAt(n)'
    BY <1>3, <2>1, <2>2, <2>3 DEF PutInv, PutAt, Writes
  <2>5. \A m \in Nodes \ {n} : PutAt(m)'
    BY <1>6, <1>10 DEF Resolved, TypeOK, NodesOK
  <2> QED BY <1>5, <1>9, <1>10, <2>4, <2>5 DEF PutInv, Resolved, tracker
<1>11. ASSUME NEW n \in Nodes, NEW name \in Names, AskByName(n, name)
       PROVE  PutInv'
  <2>1. PICK f \in Listed : GoesBy(Table, f, name) /\ Resolved(n, f, name)
    BY <1>11 DEF AskByName
  <2> QED BY <1>10, <1>11, <2>1 DEF AskByName
<1>12. ASSUME NEW n \in Nodes, AskByHash(n)
       PROVE  PutInv'
  BY <1>10, <1>12 DEF AskByHash
<1>13. ASSUME NEW n \in Nodes, NEW name \in Names, NEW f \in UserFiles \cup {None},
              UserChanges(n, name, f)
       PROVE  PutInv'
  <2>1. f = None \/ WasPut(name, f)'
    <3>1. CASE f # None
      <4>1. <<name, f>> \in put'
        BY <1>13, <3>1 DEF UserChanges
      <4>2. <<name, f>>[1] = name /\ f \in Torn(<<name, f>>[2]) \cup {<<name, f>>[2]}
        OBVIOUS
      <4> QED BY <4>1, <4>2 DEF WasPut
    <3> QED BY <3>1
  <2>2. dir' = [dir EXCEPT ![n][name] = f] /\ job' = job /\ dir \in [Nodes -> Dirs]
    BY <1>13 DEF UserChanges, TypeOK, NodesOK
  <2>3. ASSUME NEW other \in NamesIn(dir'[n])
        PROVE  Writes(n, other)' \/ WasPut(other, dir[n][other])'
    <3>1. CASE other = name
      BY <2>1, <2>2, <2>3, <3>1 DEF NamesIn, Dirs
    <3>2. CASE other # name
      <4>1. other \in NamesIn(dir[n]) /\ dir'[n][other] = dir[n][other]
        BY <2>2, <2>3, <3>2 DEF NamesIn, Dirs
      <4> QED BY <1>3, <2>2, <4>1 DEF PutInv, PutAt, Writes
    <3> QED BY <3>1, <3>2
  <2>4. PutAt(n)'
    BY <1>3, <1>4, <2>2, <2>3 DEF PutInv, PutAt
  <2>5. \A m \in Nodes \ {n} : PutAt(m)'
    BY <1>6, <2>2
  <2> QED BY <1>5, <1>9, <1>13, <2>4, <2>5 DEF PutInv, UserChanges, tracker
<1>14. ASSUME NEW n \in Nodes, IsTorn(n), job[n].st = "writing", job'[n] = Idle, put' = put
       PROVE  PutAt(n)'
  <2>1. PICK name \in Names, f \in Files : job[n].name = name /\ job[n].file = f
    BY <1>14, JobsRead DEF TypeOK, NodesOK
  <2>2. PICK part \in Torn(f) : dir' = [dir EXCEPT ![n][name] = part]
    BY <1>14, <2>1 DEF IsTorn
  <2>3. WasPut(name, part)'
    <3>1. cuts' > 0 /\ WasPut(name, f)
      BY <1>1, <1>14, <2>1 DEF IsTorn, PutInv, PutAt
    <3> QED BY <1>1, <1>14, <3>1, TornWasPut
  <2>4. ASSUME NEW other \in NamesIn(dir'[n])
        PROVE  WasPut(other, dir[n][other])'
    <3>1. dir \in [Nodes -> Dirs]
      BY DEF TypeOK, NodesOK
    <3>2. CASE other = name
      BY <2>2, <2>3, <2>4, <3>1, <3>2 DEF NamesIn, Dirs
    <3>3. CASE other # name
      <4>1. other \in NamesIn(dir[n]) /\ dir'[n][other] = dir[n][other] /\ ~Writes(n, other)
        BY <2>1, <2>2, <2>4, <3>1, <3>3 DEF NamesIn, Dirs, Writes
      <4> QED BY <1>3, <4>1 DEF PutInv, PutAt
    <3> QED BY <3>2, <3>3
  <2> QED BY <1>14, <2>4, JobsMade DEF PutAt
<1>30. ASSUME NEW n \in Nodes, LeavesReport(n)
       PROVE  \A m \in late' : AllPut(m.files)'
  BY <1>4, <1>30 DEF LeavesReport, PutInv, PutAt
<1>15. ASSUME NEW n \in Nodes, Stop(n)
       PROVE  PutInv'
  <2>1. job'[n] = Idle /\ \A m \in Nodes \ {n} : job'[m] = job[m]
    BY <1>15 DEF Stop, TypeOK, NodesOK
  <2>2. PutAt(n)'
    <3>1. CASE job[n].st = "writing"
      BY <1>14, <1>15, <2>1, <3>1 DEF Stop
    <3>2. CASE job[n].st # "writing"
      BY <1>7, <1>15, <2>1, <3>2, JobsMade DEF Stop
    <3> QED BY <3>1, <3>2
  <2>3. \A m \in Nodes \ {n} : dir'[m] = dir[m]
    BY <1>15 DEF Stop, IsTorn, TypeOK, NodesOK
  <2>4. \A m \in Nodes \ {n} : PutAt(m)'
    BY <1>6, <2>1, <2>3
  <2>5. \A m \in late' : AllPut(m.files)'
    <3>1. CASE UNCHANGED late
      BY <1>9, <3>1
    <3>2. CASE LeavesReport(n)
      BY <1>30, <3>2
    <3> QED BY <1>15, <3>1, <3>2 DEF Stop
  <2> QED BY <1>5, <1>15, <2>2, <2>4, <2>5 DEF PutInv, Stop, tracker
<1>16. ASSUME NEW n \in Nodes, WriteFails(n)
       PROVE  PutInv'
  <2>1. job'[n] = Idle /\ \A m \in Nodes \ {n} : job'[m] = job[m] /\ dir'[m] = dir[m]
    BY <1>16 DEF WriteFails, IsTorn, TypeOK, NodesOK
  <2>2. PutAt(n)'
    BY <1>14, <1>16, <2>1 DEF WriteFails
  <2>3. \A m \in Nodes \ {n} : PutAt(m)'
    BY <1>6, <2>1
  <2> QED BY <1>5, <1>9, <1>16, <2>2, <2>3 DEF PutInv, WriteFails, tracker
<1>17. ASSUME NEW n \in Nodes, Scan(n)
       PROVE  PutInv'
  <2>1. PICK files \in Dirs : dir[n] = files
    BY <1>17 DEF TypeOK, NodesOK
  <2>2. /\ dir' = dir /\ job'[n] = Reporting(files)
        /\ \A m \in Nodes \ {n} : job'[m] = job[m]
    BY <1>17, <2>1 DEF Scan, TypeOK, NodesOK
  <2>3. AllPut(files)'
    BY <1>4, <1>17, <2>1 DEF Scan, PutInv, PutAt, Writes, AllPut
  <2>4. job'[n].st = "reporting" /\ job'[n].files = files
    BY <2>2, JobsMade
  <2>5. PutAt(n)'
    BY <2>1, <2>2, <2>3, <2>4 DEF PutAt, AllPut
  <2>6. \A m \in Nodes \ {n} : PutAt(m)'
    BY <1>6, <2>2
  <2> QED BY <1>5, <1>9, <1>17, <2>5, <2>6 DEF PutInv, Scan, tracker
<1>29. ASSUME NEW n \in Nodes, PublishFails(n)
       PROVE  ListedWasPut' /\ \A m \in late' : AllPut(m.files)'
  <2>1. CASE UNCHANGED <<tracker, late>>
    BY <1>5, <1>9, <2>1 DEF tracker
  <2>2. CASE job[n].st = "reporting" /\ Takes(run[n], job[n].files) /\ UNCHANGED late
    <3>1. run[n] \in Ids /\ AllPut(job[n].files)
      BY <2>2, JobsMade DEF PutInv, PutAt, TypeOK, NodesOK, Up
    <3> QED BY <1>9, <1>29, <2>2, <3>1, TakesPut DEF PublishFails, TypeOK, TrackerOK
  <2>3. CASE LeavesReport(n) /\ UNCHANGED tracker
    BY <1>5, <1>30, <2>3 DEF tracker
  <2> QED BY <1>29, <2>1, <2>2, <2>3 DEF PublishFails
<1>18. ASSUME NEW n \in Nodes, PublishFails(n) \/ FetchFails(n)
       PROVE  PutInv'
  <2>1. /\ dir' = dir /\ job'[n] = Idle
        /\ \A m \in Nodes \ {n} : job'[m] = job[m]
    BY <1>18 DEF PublishFails, FetchFails, TypeOK, NodesOK
  <2>2. PutAt(n)'
    BY <1>7, <1>18, <2>1, JobsMade DEF PublishFails, LeavesReport, FetchFails
  <2>3. \A m \in Nodes \ {n} : PutAt(m)'
    BY <1>6, <2>1
  <2>4. ListedWasPut' /\ \A m \in late' : AllPut(m.files)'
    BY <1>5, <1>9, <1>18, <1>29 DEF FetchFails, tracker
  <2> QED BY <2>2, <2>3, <2>4 DEF PutInv
<1>19. ASSUME NEW n \in Nodes, Arrive(n)
       PROVE  PutInv'
  <2>1. /\ dir' = dir /\ job'[n] = Idle
        /\ \A m \in Nodes \ {n} : job'[m] = job[m]
    BY <1>19 DEF Arrive, TypeOK, NodesOK
  <2>2. PutAt(n)'
    BY <1>7, <1>19, <2>1, JobsMade DEF Arrive
  <2>3. \A m \in Nodes \ {n} : PutAt(m)'
    BY <1>6, <2>1
  <2>4. ListedWasPut'
    BY <1>19, TakesPut DEF Arrive, PutInv, PutAt, TypeOK, NodesOK, TrackerOK, Up
  <2> QED BY <1>9, <1>19, <2>2, <2>3, <2>4 DEF PutInv, Arrive
<1>20. ASSUME NEW m \in late, LateArrives(m)
       PROVE  PutInv'
  <2>1. ListedWasPut'
    BY <1>20, TakesPut DEF LateArrives, PutInv, TypeOK, TrackerOK
  <2>2. \A other \in late' : AllPut(other.files)'
    BY <1>4, <1>20 DEF LateArrives, PutInv
  <2> QED BY <1>8, <1>20, <2>1, <2>2 DEF PutInv, LateArrives
<1>21. ASSUME NEW n \in Nodes, Fetch(n)
       PROVE  PutInv'
  <2>1. PICK f \in Files, name \in Names, got \in Nat :
            job[n].file = f /\ job[n].name = name /\ job[n].got = got
    BY <1>21, JobsRead DEF Fetch, TypeOK, NodesOK
  <2>2. /\ dir' = dir /\ job'[n] = Fetching(f, name, got + 1)
        /\ \A m \in Nodes \ {n} : job'[m] = job[m]
    BY <1>21, <2>1 DEF Fetch, TypeOK, NodesOK
  <2>3. job'[n].st = "fetching" /\ job'[n].file = f /\ job'[n].name = name
    BY <2>1, <2>2, JobsMade
  <2>4. PutAt(n)'
    BY <1>3, <1>21, <2>1, <2>2, <2>3 DEF Fetch, PutInv, PutAt, Writes
  <2>5. \A m \in Nodes \ {n} : PutAt(m)'
    BY <1>6, <2>2
  <2> QED BY <1>5, <1>9, <1>21, <2>4, <2>5 DEF PutInv, Fetch, tracker
<1>22. ASSUME NEW n \in Nodes, BeginWrite(n)
       PROVE  PutInv'
  <2>1. PICK f \in Files, name \in Names :
            job[n].file = f /\ job[n].name = name /\ SubSeq(f, 1, job[n].got) = f
    BY <1>22, JobsRead, FilesAreSequences DEF BeginWrite, Whole, TypeOK, NodesOK
  <2>2. /\ dir' = [dir EXCEPT ![n][name] = <<>>] /\ dir \in [Nodes -> Dirs]
        /\ job'[n] = Writing(f, name) /\ \A m \in Nodes \ {n} : job'[m] = job[m]
    BY <1>22, <2>1 DEF BeginWrite, TypeOK, NodesOK
  <2>3. job'[n].st = "writing" /\ job'[n].file = f /\ job'[n].name = name
    BY <2>1, <2>2, JobsMade
  <2>4. \A other \in NamesIn(dir'[n]) :
            other = name \/ (other \in NamesIn(dir[n]) /\ dir'[n][other] = dir[n][other])
    BY <2>2 DEF NamesIn, Dirs
  <2>5. PutAt(n)'
    BY <1>3, <1>22, <2>1, <2>3, <2>4 DEF BeginWrite, PutInv, PutAt, Writes
  <2>6. \A m \in Nodes \ {n} : PutAt(m)'
    BY <1>6, <2>2
  <2> QED BY <1>5, <1>9, <1>22, <2>5, <2>6 DEF PutInv, BeginWrite, tracker
<1>23. ASSUME NEW n \in Nodes, EndWrite(n)
       PROVE  PutInv'
  <2>1. PICK f \in Files, name \in Names : job[n].file = f /\ job[n].name = name
    BY <1>23, JobsRead DEF EndWrite, TypeOK, NodesOK
  <2>2. /\ dir' = [dir EXCEPT ![n][name] = f] /\ dir \in [Nodes -> Dirs]
        /\ job'[n] = Saved /\ \A m \in Nodes \ {n} : job'[m] = job[m]
    BY <1>23, <2>1 DEF EndWrite, TypeOK, NodesOK
  <2>3. \A other \in NamesIn(dir'[n]) :
            \/ other = name /\ dir'[n][other] = f
            \/ /\ other # name /\ other \in NamesIn(dir[n])
               /\ dir'[n][other] = dir[n][other]
    BY <2>2 DEF NamesIn, Dirs
  <2>4. PutAt(n)'
    <3>1. /\ job[n].st = "writing" /\ job'[n].st = "saved"
          /\ \A other \in Names : Writes(n, other) => other = name
      BY <1>23, <2>1, <2>2, JobsMade DEF EndWrite, Writes
    <3>2. WasPut(name, f)'
      BY <1>3, <2>1, <3>1 DEF PutInv, PutAt
    <3>3. ASSUME NEW other \in NamesIn(dir'[n])
          PROVE  WasPut(other, dir[n][other])'
      <4>1. CASE other = name /\ dir'[n][other] = f
        BY <3>2, <4>1
      <4>2. CASE other # name /\ other \in NamesIn(dir[n]) /\ dir'[n][other] = dir[n][other]
        <5>1. WasPut(other, dir[n][other])
          BY <3>1, <4>2 DEF PutInv, PutAt, NamesIn
        <5> QED BY <1>3, <4>2, <5>1
      <4> QED BY <2>3, <3>3, <4>1, <4>2
    <3> QED BY <3>1, <3>3 DEF PutAt
  <2>5. \A m \in Nodes \ {n} : PutAt(m)'
    BY <1>6, <2>2
  <2> QED BY <1>5, <1>9, <1>23, <2>4, <2>5 DEF PutInv, EndWrite, tracker
<1>24. ASSUME NEW id \in Ids, Drops(id), UNCHANGED <<dir, job, late, put, cuts>>
       PROVE  PutInv'
  <2>1. ListedWasPut'
    <3>1. \A i \in Ids : rec'[i] # None => rec'[i] = rec[i]
      BY <1>24 DEF Drops, TypeOK, TrackerOK
    <3> QED BY <1>3, <3>1 DEF PutInv, ListedWasPut
  <2> QED BY <1>8, <1>9, <1>24, <2>1 DEF PutInv
<1>25. ASSUME NEW n \in Nodes, Offline(n)
       PROVE  PutInv'
  BY <1>24, <1>25 DEF Offline, Ready, Up, TypeOK, NodesOK
<1>26. ASSUME NEW id \in Ids, Lapse(id)
       PROVE  PutInv'
  BY <1>24, <1>26 DEF Lapse
<1>27. ASSUME UNCHANGED <<dir, job, rec, late>>
       PROVE  PutInv'
  BY <1>5, <1>8, <1>9, <1>27 DEF PutInv
<1>28. ASSUME NEW n \in Nodes, NEW id \in Ids, Start(n, id)
       PROVE  PutInv'
  BY <1>27, <1>28 DEF Start, tracker
<1> QED
  BY <1>11, <1>12, <1>13, <1>15, <1>16, <1>17, <1>18, <1>19, <1>20, <1>21, <1>22, <1>23,
     <1>25, <1>26, <1>27, <1>28
  DEF Next, Publish, Fetches, Reload, vars

\* Whatever the tracker lists some user put under that name, or, once a write has
\* been cut short, a file it is the beginning of.
THEOREM ListedFilesWerePut == Spec => []ListedWasPut
<1>1. Init => PutInv
  BY SwarmAssumption, JobsMade
  DEF Init, PutInv, PutAt, ListedWasPut, NoFiles, NamesIn
<1>2. TypeOK /\ TypeOK' /\ PutInv /\ [Next]_vars => PutInv'
  BY PutStep
<1>3. PutInv => ListedWasPut
  BY DEF PutInv
<1> QED BY <1>1, <1>2, <1>3, SwarmTypes, PTL DEF Spec

-----------------------------------------------------------------------------
(* Why the record of a running node is its directory.  An id is drawn once, so *)
(* the record under it and the reports still to come under it are of one       *)
(* process.                                                                    *)

RecordAt(n) ==
    Up(n) /\ ~stale[n] =>
        /\ job[n].st = "reporting" => job[n].files = dir[n]
        /\ job[n].st \in {"idle", "fetching"} => rec[run[n]] \in {None, dir[n]}

RecordInv ==
    /\ \A id \in Ids : rec[id] # None => id \in drawn
    /\ \A m \in late : m.id \in drawn
    /\ \A n \in Nodes : RecordAt(n)

\* No record or late report gets under the id of a running process but its own.
LEMMA RecordStep ==
    ASSUME TypeOK, TypeOK', RecordInv, [Next]_vars
    PROVE  RecordInv'
<1> USE DEF TypeOK, NodesOK, TrackerOK, RecordInv, RecordAt, Up
<1>1. ASSUME NEW n \in Nodes, NEW name \in Names, AskByName(n, name)
      PROVE  RecordInv'
  <2>1. PICK f \in Files : Resolved(n, f, name)
    BY <1>1, DirsRead DEF AskByName, Listed
  <2> QED BY <1>1, <2>1, JobsMade DEF AskByName, Resolved, Ready, tracker
<1>2. ASSUME NEW n \in Nodes, AskByHash(n)
      PROVE  RecordInv'
  <2>1. PICK f \in Files, name \in Names : Resolved(n, f, name)
    BY <1>2, DirsRead DEF AskByHash, Listed
  <2> QED BY <1>2, <2>1, JobsMade DEF AskByHash, Resolved, Ready, tracker
<1>3. ASSUME NEW n \in Nodes, NEW name \in Names, NEW f \in UserFiles \cup {None},
             UserChanges(n, name, f)
      PROVE  RecordInv'
  BY <1>3 DEF UserChanges, HistoryOK, tracker
<1>4. ASSUME NEW n \in Nodes, NEW id \in Ids, Start(n, id)
      PROVE  RecordInv'
  BY <1>4, JobsMade DEF Start, Fresh, tracker
<1>5. ASSUME NEW n \in Nodes, Stop(n)
      PROVE  RecordInv'
  <2>1. /\ run' = [run EXCEPT ![n] = None] /\ UNCHANGED <<drawn, rec>>
        /\ \A m \in Nodes \ {n} : /\ job'[m] = job[m] /\ dir'[m] = dir[m]
                                  /\ stale'[m] = stale[m]
    BY <1>5 DEF Stop, IsTorn, HistoryOK, tracker
  <2>2. \A m \in late' : m.id \in drawn
    BY <1>5 DEF Stop, LeavesReport
  <2> QED BY <1>5, <2>1, <2>2, SwarmAssumption DEF Stop
<1>6. ASSUME NEW n \in Nodes, Scan(n)
      PROVE  RecordInv'
  BY <1>6, JobsMade DEF Scan, HistoryOK, tracker
<1>7. ASSUME NEW n \in Nodes, Arrive(n)
      PROVE  RecordInv'
  <2>1. CASE Accepts(job[n].files)
    BY <1>7, <2>1, JobsMade DEF Arrive, Takes, HistoryOK
  <2>2. CASE ~Accepts(job[n].files)
    BY <1>7, <2>2 DEF Arrive, Takes, HistoryOK, tracker
  <2> QED BY <2>1, <2>2
<1>8. ASSUME NEW n \in Nodes, PublishFails(n)
      PROVE  RecordInv'
  <2>1. run[n] \in Ids
    BY <1>8, JobsMade DEF PublishFails, LeavesReport
  <2>2. \A id \in Ids : rec'[id] = rec[id] \/ id = run[n]
    BY <1>8, <2>1 DEF PublishFails, Takes, tracker
  <2>3. \A m \in Nodes \ {n} : Up(m) => rec'[run[m]] = rec[run[m]]
    BY <2>1, <2>2
  <2>4. \A m \in late' : m.id \in drawn
    BY <1>8, <2>1, JobsMade DEF PublishFails, LeavesReport
  <2> QED BY <1>8, <2>1, <2>2, <2>3, <2>4 DEF PublishFails, HistoryOK
<1>9. ASSUME NEW n \in Nodes, WriteFails(n)
      PROVE  RecordInv'
  BY <1>9 DEF WriteFails, IsTorn, HistoryOK, tracker
<1>10. ASSUME NEW n \in Nodes, Fetch(n)
       PROVE  RecordInv'
  <2>1. job[n].file \in Files /\ job[n].name \in Names /\ job[n].got \in Nat
    BY <1>10, JobsRead DEF Fetch
  <2> QED BY <1>10, <2>1, JobsMade DEF Fetch, tracker
<1>11. ASSUME NEW n \in Nodes, FetchFails(n)
       PROVE  RecordInv'
  BY <1>11, JobsMade DEF FetchFails, tracker
<1>12. ASSUME NEW n \in Nodes, BeginWrite(n)
       PROVE  RecordInv'
  <2>1. /\ job[n].name \in Names /\ job[n].file \in Files
        /\ SubSeq(job[n].file, 1, job[n].got) = job[n].file
    BY <1>12, JobsRead, FilesAreSequences DEF BeginWrite, Whole
  <2>2. job' = [job EXCEPT ![n] = Writing(job[n].file, job[n].name)]
    BY <1>12, <2>1 DEF BeginWrite
  <2>3. job'[n].st = "writing" /\ \A m \in Nodes \ {n} : dir'[m] = dir[m] /\ job'[m] = job[m]
    BY <1>12, <2>1, <2>2, JobsMade DEF BeginWrite
  <2> QED BY <1>12, <2>3 DEF BeginWrite, tracker
<1>13. ASSUME NEW n \in Nodes, EndWrite(n)
       PROVE  RecordInv'
  BY <1>13, JobsMade DEF EndWrite, tracker
<1>14. ASSUME NEW m \in late, LateArrives(m)
       PROVE  RecordInv'
  <2>1. /\ UNCHANGED <<dir, run, drawn, job>> /\ late' = late \ {m}
        /\ m.id \in Ids /\ m.id \in drawn /\ Takes(m.id, m.files)
    BY <1>14 DEF LateArrives
  <2>2. \A id \in Ids : rec'[id] = rec[id] \/ (id = m.id /\ Accepts(m.files))
    BY <2>1 DEF Takes, tracker
  <2>3. \A n \in Nodes : ~stale'[n] =>
           ~stale[n] /\ ~(run[n] = m.id /\ Accepts(m.files) /\ job[n].st # "reporting")
    BY <1>14 DEF LateArrives
  <2>4. \A n \in Nodes : RecordAt(n)'
    BY <2>1, <2>2, <2>3
  <2> QED BY <2>1, <2>2, <2>4
<1>15. ASSUME NEW id \in Ids, Drops(id), UNCHANGED <<dir, run, drawn, job, late, stale>>
       PROVE  RecordInv'
  BY <1>15 DEF Drops
<1>16. ASSUME NEW n \in Nodes, Offline(n)
       PROVE  RecordInv'
  BY <1>15, <1>16 DEF Offline, Ready
<1>17. ASSUME NEW id \in Ids, Lapse(id)
       PROVE  RecordInv'
  BY <1>15, <1>17 DEF Lapse
<1>18. ASSUME UNCHANGED <<dir, run, drawn, job, rec, late, stale>>
       PROVE  RecordInv'
  BY <1>18
<1> QED
  BY <1>1, <1>2, <1>3, <1>4, <1>5, <1>6, <1>7, <1>8, <1>9, <1>10, <1>11, <1>12, <1>13,
     <1>14, <1>16, <1>17, <1>18
  DEF Next, Publish, Fetches, Reload, vars

\* The tracker's record of a running node is its share directory, unless since the scan a
\* user has changed that, an attempt to publish has failed, or a report of this process
\* whose connection broke has been handled late.
THEOREM RecordsAreDirectories == Spec => []RecordIsDirectory
<1>1. Init => RecordInv
  BY SwarmAssumption DEF Init, RecordInv, RecordAt, Up
<1>2. TypeOK /\ TypeOK' /\ RecordInv /\ [Next]_vars => RecordInv'
  BY RecordStep
<1>3. TypeOK /\ RecordInv => RecordIsDirectory
  BY JobsMade DEF RecordInv, RecordAt, RecordIsDirectory, Ready
<1> QED BY <1>1, <1>2, <1>3, SwarmTypes, PTL DEF Spec

-----------------------------------------------------------------------------
(* The index of the table there is.  What the loops compute for any table is   *)
(* in CatalogProofs; here, that the tracker's records are such a table.        *)

LEMMA TableIsOne ==
    ASSUME TypeOK
    PROVE  IsTable(Table, Ids, Files)
<1>1. /\ rec \in [Ids -> Dirs \cup {None}]
      /\ order \in Seq(Ids) /\ Len(order) \in Nat
      /\ Orders(order, rec)
  BY DEF TypeOK, TrackerOK
<1>2. \A i \in 1..Len(order) : order[i] \in Ids /\ rec[order[i]] \in Dirs
  BY <1>1 DEF Orders
<1> DEFINE R == [id : Ids, files : [Names -> Files \cup {None}]]
<1>3. \A i \in 1..Len(order) : [id |-> order[i], files |-> rec[order[i]]] \in R
  BY <1>2 DEF Dirs
<1> HIDE DEF R
<1>4. Table \in Seq(R) /\ Len(Table) = Len(order)
  BY <1>1, <1>3 DEF Table
<1>5. \A i \in 1..Len(order) : Table[i].id = order[i]
  BY DEF Table
<1>6. \A i, j \in 1..Len(Table) : Table[i].id = Table[j].id => i = j
  BY <1>1, <1>4, <1>5 DEF Orders
<1> QED BY <1>4, <1>6 DEF IsTable, R

\* The rows of the table are the records.
LEMMA RowsAreRecords ==
    ASSUME TypeOK
    PROVE  /\ Len(Table) = Len(order) /\ Len(order) \in Nat
           /\ \A k \in 1..Len(order) :
                /\ Table[k].id = order[k] /\ order[k] \in Ids
                /\ Table[k].files = rec[order[k]] /\ rec[order[k]] # None
           /\ \A id \in Ids : rec[id] # None => \E k \in 1..Len(order) : order[k] = id
<1>1. order \in Seq(Ids) /\ Len(order) \in Nat /\ Orders(order, rec)
  BY DEF TypeOK, TrackerOK
<1>2. \A k \in 1..Len(order) : order[k] \in Ids
  BY <1>1
<1> QED BY <1>1, <1>2 DEF Table, Orders

LEMMA IndexExact ==
    ASSUME TypeOK
    PROVE  IndexIsExact
<1> DEFINE index == FileIndex(Table)
<1>1. IsTable(Table, Ids, Files)
  BY TableIsOne
<1>2. \A f : f \in DOMAIN index <=> \E k \in 1..Len(Table) : f \in FilesIn(Table[k].files)
  BY <1>1, IndexHasTheFiles
<1>3. \A f \in DOMAIN index, name \in Names : index[f].name = name <=> GoesBy(Table, f, name)
  BY <1>1, IndexHasTheNames
<1>4. ASSUME NEW f \in DOMAIN index
      PROVE  /\ \A p \in DOMAIN index[f].peers :
                  \E k \in Holding(Table, f) : index[f].peers[p] = Table[k].id
             /\ \A k \in Holding(Table, f) :
                  \E p \in DOMAIN index[f].peers : index[f].peers[p] = Table[k].id
  BY <1>1, <1>4, IndexHasTheHolders
<1> HIDE DEF index
<1>5. \A f : f \in Listed <=> \E k \in 1..Len(order) : f \in FilesIn(rec[order[k]])
  BY RowsAreRecords DEF Listed
<1>6. DOMAIN index = Listed
  <2>1. \A f : f \in DOMAIN index <=> f \in Listed
    BY <1>2, <1>5, RowsAreRecords
  <2> QED BY <2>1
<1>7. \A name \in Names :
        FindByName(index, name) = {f \in Listed : GoesBy(Table, f, name)}
  BY <1>3, <1>6 DEF FindByName
<1>8. ASSUME NEW f \in Listed
      PROVE  {index[f].peers[p] : p \in DOMAIN index[f].peers}
               = {order[i] : i \in Holding(Table, f)}
  <2>1. \A i \in Holding(Table, f) : Table[i].id = order[i]
    BY RowsAreRecords DEF Holding, Table
  <2> QED BY <1>4, <1>6, <2>1
<1> QED BY <1>6, <1>7, <1>8 DEF IndexIsExact, index

\* In every state the loop over the records finds exactly the files reported, each
\* under the name given first, with those for peers whose records have it.
THEOREM IndexesAreExact == Spec => []IndexIsExact
<1>1. TypeOK => IndexIsExact
  BY IndexExact
<1> QED BY <1>1, SwarmTypes, PTL

-----------------------------------------------------------------------------
\* As long as a table is the same up to the first holder of a file, the file goes by the
\* same name.
LEMMA FirstsDecide ==
    ASSUME NEW f, NEW name \in Names, GoesBy(Table, f, name),
           NEW U, NEW len \in Nat, DOMAIN U = 1..len, Len(order) \in Nat,
           \A k \in 1..Len(order) : (\A i \in Holding(Table, f) : k =< i) =>
               k \in 1..len /\ U[k].files = Table[k].files
    PROVE  GoesBy(U, f, name)
<1>1. DOMAIN Table = 1..Len(order)
  BY DEF Table
<1>2. PICK i \in Holding(Table, f) :
         /\ \A k \in Holding(Table, f) : i =< k
         /\ Table[i].files[name] = f
         /\ \A m \in Names : Table[i].files[m] = f => name =< m
  BY DEF GoesBy
<1>3. i \in 1..Len(order)
  BY <1>1 DEF Holding
<1>4. ASSUME NEW k \in 1..Len(order), k =< i
      PROVE  k \in 1..len /\ U[k].files = Table[k].files
  <2>1. \A h \in Holding(Table, f) : k =< h
    BY <1>1, <1>2, <1>3, <1>4 DEF Holding
  <2> QED BY <2>1
<1>5. i \in Holding(U, f) /\ U[i].files = Table[i].files
  BY <1>3, <1>4 DEF Holding
<1>6. ASSUME NEW k \in Holding(U, f)
      PROVE  i =< k
  <2> SUFFICES ASSUME k < i PROVE FALSE
    BY <1>3 DEF Holding
  <2>1. k \in 1..Len(order) /\ k =< i
    BY <1>3 DEF Holding
  <2>2. k \in Holding(Table, f)
    BY <1>1, <1>4, <2>1 DEF Holding
  <2> QED BY <1>2, <1>3, <2>1, <2>2
<1> QED BY <1>2, <1>5, <1>6 DEF GoesBy

\* Whatever happens to the tracker but a restart is a report or a removal.
LEMMA TrackerCases ==
    ASSUME TypeOK, [Next]_vars, ~Reload
    PROVE  \/ UNCHANGED tracker
           \/ \E id \in Ids : Drops(id) \/ \E files : Takes(id, files)
<1>1. \A n \in Nodes : (Up(n) => run[n] \in Ids) /\ (job[n].st = "reporting" => Up(n))
  BY DEF TypeOK, NodesOK, Up, Idle
<1>2. \A m \in late : m.id \in Ids
  BY DEF TypeOK, TrackerOK
<1>3. ASSUME NEW n \in Nodes, Publish(n) \/ Offline(n)
      PROVE  \/ UNCHANGED tracker
             \/ \E id \in Ids : Drops(id) \/ \E files : Takes(id, files)
  <2>1. CASE Scan(n)
    BY <2>1 DEF Scan
  <2>2. CASE Arrive(n)
    <3>1. run[n] \in Ids /\ Takes(run[n], job[n].files)
      BY <1>1, <2>2 DEF Arrive
    <3> QED BY <3>1
  <2>3. CASE PublishFails(n)
    <3>1. UNCHANGED tracker \/ (run[n] \in Ids /\ Takes(run[n], job[n].files))
      BY <1>1, <2>3 DEF PublishFails
    <3> QED BY <3>1
  <2>4. CASE Offline(n)
    <3>1. run[n] \in Ids /\ Drops(run[n])
      BY <1>1, <2>4 DEF Offline, Ready
    <3> QED BY <3>1
  <2> QED BY <1>3, <2>1, <2>2, <2>3, <2>4 DEF Publish
<1>4. ASSUME NEW m \in late, LateArrives(m)
      PROVE  \E id \in Ids : \E files : Takes(id, files)
  BY <1>2, <1>4 DEF LateArrives
<1>5. ASSUME NEW id \in Ids, Lapse(id)
      PROVE  Drops(id)
  BY <1>5 DEF Lapse
<1> QED
  BY <1>3, <1>4, <1>5
  DEF Next, Fetches, AskByName, AskByHash, Resolved, UserChanges, Start, Stop,
      Fetch, FetchFails, BeginWrite, EndWrite, WriteFails, vars, tracker

\* A report or a removal changes one record, and what is before that in the order stays
\* where it is.
LEMMA TrackerMoves ==
    ASSUME TypeOK, [Next]_vars, ~Reload,
           NEW k \in 1..Len(order), rec'[order[k]] = rec[order[k]],
           \A j \in 1..Len(order) : j < k => rec'[order[j]] = rec[order[j]]
    PROVE  k \in 1..Len(order') /\ order'[k] = order[k]
<1>1. /\ order \in Seq(Ids) /\ Orders(order, rec) /\ Len(order) \in Nat
      /\ \A j \in 1..Len(order) : order[j] \in Ids
      /\ rec \in [Ids -> Dirs \cup {None}]
  BY DEF TypeOK, TrackerOK
<1>2. ASSUME NEW id \in Ids, NEW files, Takes(id, files)
      PROVE  k \in 1..Len(order') /\ order'[k] = order[k]
  <2>1. order' = order \/ order' = Append(order, id)
    BY <1>2 DEF Takes, tracker
  <2> QED BY <1>1, <2>1
<1>3. ASSUME NEW id \in Ids, Drops(id)
      PROVE  k \in 1..Len(order') /\ order'[k] = order[k]
  <2>1. PICK p \in 1..Len(order) :
          /\ order[p] = id
          /\ order' = [j \in 1..(Len(order) - 1) |-> order[IF j < p THEN j ELSE j + 1]]
    BY <1>3 DEF Drops
  <2>2. rec'[order[p]] # rec[order[p]]
    BY <1>1, <1>3, <2>1 DEF Drops, Orders
  <2>3. k < p
    BY <1>1, <2>1, <2>2
  <2>4. Len(order') = Len(order) - 1
    BY <1>1, <2>1
  <2> QED BY <1>1, <2>1, <2>3, <2>4
<1> QED BY <1>2, <1>3, TrackerCases DEF tracker

\* In no step but a restart of the tracker does a file change its name unless the record
\* of its first holder changes, or that of a node reported before that.
THEOREM NamesAreStable == Spec => NamesStay
<1>1. ASSUME TypeOK, TypeOK', [Next]_vars, ~Reload,
             NEW f \in Listed, NEW name \in Names, GoesBy(Table, f, name),
             \A k \in 1..Len(order) : (\A i \in Holding(Table, f) : k =< i) =>
                 rec'[order[k]] = rec[order[k]]
      PROVE  GoesBy(Table', f, name)
  <2>1. order' \in Seq(Ids) /\ Len(order) \in Nat
    BY <1>1 DEF TypeOK, TrackerOK
  <2>2. Holding(Table, f) \subseteq 1..Len(order)
    BY <2>1 DEF Holding, Table
  <2>3. ASSUME NEW k \in 1..Len(order), \A i \in Holding(Table, f) : k =< i
        PROVE  k \in 1..Len(order') /\ order'[k] = order[k] /\ rec'[order[k]] = rec[order[k]]
    <3>1. ASSUME NEW j \in 1..Len(order), j < k
          PROVE  rec'[order[j]] = rec[order[j]]
      BY <1>1, <2>2, <2>3, <3>1
    <3> QED BY <1>1, <2>3, <3>1, TrackerMoves
  <2>4. PICK U : U = Table'
    OBVIOUS
  <2>5. PICK len \in Nat : len = Len(order')
    BY <2>1
  <2>6. DOMAIN U = 1..len /\ \A k \in 1..len : U[k].files = rec'[order'[k]]
    BY <2>4, <2>5 DEF Table
  <2>7. \A k \in 1..Len(order) : Table[k].files = rec[order[k]]
    BY DEF Table
  <2>8. \A k \in 1..Len(order) : (\A i \in Holding(Table, f) : k =< i) =>
            k \in 1..len /\ U[k].files = Table[k].files
    BY <2>3, <2>5, <2>6, <2>7
  <2>9. GoesBy(U, f, name)
    BY <1>1, <2>1, <2>6, <2>8, FirstsDecide
  <2> QED BY <2>4, <2>9
<1>2. TypeOK /\ TypeOK' /\ [Next]_vars =>
          [\/ UNCHANGED tracker \/ Reload
           \/ \A f \in Listed :
                \/ \E k \in 1..Len(order) : /\ rec'[order[k]] # rec[order[k]]
                                            /\ \A i \in Holding(Table, f) : k =< i
                \/ \A name \in Names : GoesBy(Table, f, name) => GoesBy(Table', f, name)]_vars
  BY <1>1
<1> QED BY <1>2, SwarmTypes, PTL DEF Spec, NamesStay

===============================================================================
