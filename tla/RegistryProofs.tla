---------------------------- MODULE RegistryProofs ----------------------------
(***************************************************************************)
(* What TLAPS proves about Registry, for every set of nodes, resource lists *)
(* and handler threads, every TTL and every bound on the clock.             *)
(*                                                                          *)
(* Inv is the inductive invariant behind the results that hold even when    *)
(* saves fail.  LeaseInv bounds every lease, and DiskInv strengthens both   *)
(* for saves that succeed: then the state file goes through the steps of    *)
(* Directory.  Calls of one node may overlap throughout.                    *)
(***************************************************************************)
EXTENDS Registry, TLAPS

\* Between taking the lock and releasing it.
Holding(t) == pc[t] \in {"save", "replace", "finish"}

\* Mutual exclusion: whoever is inside a call holds the lock, and only he.
LockInv == \A t \in Threads : Holding(t) <=> lock = t

\* A process that is down has no memory and no threads; while it boots, only
\* the main thread runs.
ModeInv ==
    /\ mode = "down" => /\ nodes = Empty
                        /\ \A t \in Threads : pc[t] \in {"idle", "dead"}
    /\ mode = "booting" => \A t \in Handlers : pc[t] = "idle"

\* What a call under way carries.
CallInv ==
    \A t \in Threads :
        /\ req[t].op \in {"update", "offline"} => t \in Handlers /\ req[t].node \in Nodes
        /\ req[t].op = "update" => req[t].entry \in Entry
        /\ req[t].stamp =< now

\* How far an update has come: its record is in the table from the moment the
\* lock is taken, and in the state file once os.replace has run.  A withdrawn
\* node's record is out of the table.
SaveInv ==
    \A t \in Threads :
        /\ pc[t] = "replace" => tmp = nodes
        /\ req[t].op = "update" /\ Holding(t) => nodes[req[t].node] = req[t].entry
        /\ req[t].op = "update" /\ pc[t] = "finish" => disk[req[t].node] = req[t].entry
        /\ req[t].op = "offline" /\ Holding(t) => nodes[req[t].node] = None

\* An acknowledged lease is in the state file, and in the table of a tracker
\* that runs: the next save writes it again.
AckInv ==
    \A n \in Nodes :
        acked[n] # None /\ acked[n].expires > now =>
            disk[n] = acked[n] /\ (mode # "down" => nodes[n] = acked[n])

Inv == TypeOK /\ LockInv /\ ModeInv /\ CallInv /\ SaveInv /\ AckInv
-----------------------------------------------------------------------------
\* The parameters, as the proofs use them.
LEMMA Types ==
    /\ TTL \in Nat /\ MaxTime \in Nat /\ TTL > 0
    /\ Handlers \subseteq Threads /\ Janitor \in Threads
    /\ None \notin Threads /\ None \notin Nodes /\ None \notin Entry
    /\ Empty \in Table
  BY RegistryAssumption DEF Threads, Empty, Table

\* Sweeping a table gives a table.
LEMMA SweptType ==
    ASSUME NEW table \in Table, NEW ts
    PROVE  Swept(table, ts) \in Table
  BY DEF Swept, Table

\* Types and calls are preserved together: only a call that carries a node may
\* acknowledge or withdraw it.
LEMMA TypeStep ==
    ASSUME TypeOK, CallInv, [Next]_vars
    PROVE  TypeOK' /\ CallInv'
<1> USE Types
<1>1. ASSUME NEW t \in Handlers, BeginRead(t) PROVE TypeOK' /\ CallInv'
  <2>1. PICK op \in Reads : Begin(t, Call(op, None, None))
    BY <1>1 DEF BeginRead
  <2>2. Reads \subseteq {"list", "snapshot"}
    BY RegistryAssumption
  <2> QED BY <2>1, <2>2 DEF TypeOK, CallInv, Begin, Call
<1>2. ASSUME NEW t \in Handlers, NEW n \in Nodes, BeginOffline(t, n)
      PROVE  TypeOK' /\ CallInv'
  BY <1>2 DEF TypeOK, CallInv, BeginOffline, Begin, Call
<1>3. ASSUME NEW t \in Handlers, NEW n \in Nodes, NEW r \in Resources,
             BeginUpdate(t, n, r)
      PROVE  TypeOK' /\ CallInv'
  <2>1. [expires |-> Deadline, resources |-> r] \in Entry
    BY DEF TypeOK, Entry, Deadline
  <2> QED BY <1>3, <2>1 DEF TypeOK, CallInv, BeginUpdate, Begin, Call
<1>4. CASE BeginCleanup
  BY <1>4 DEF TypeOK, CallInv, BeginCleanup, Begin, Call
<1>5. ASSUME NEW t \in Threads, EnterUpdate(t) PROVE TypeOK' /\ CallInv'
  BY <1>5 DEF TypeOK, CallInv, EnterUpdate, Enter, Table
<1>6. ASSUME NEW t \in Threads, EnterOffline(t) PROVE TypeOK' /\ CallInv'
  BY <1>6 DEF TypeOK, CallInv, EnterOffline, Enter, Table
<1>7. ASSUME NEW t \in Threads, EnterSweep(t) PROVE TypeOK' /\ CallInv'
  <2>1. Swept(nodes, SweepStamp(t)) \in Table
    BY SweptType DEF TypeOK
  <2> QED BY <1>7, <2>1 DEF TypeOK, CallInv, EnterSweep, Enter
<1>8. ASSUME NEW t \in Threads, WriteTemp(t) PROVE TypeOK' /\ CallInv'
  BY <1>8 DEF TypeOK, CallInv, WriteTemp
<1>9. ASSUME NEW t \in Threads, ReplaceState(t) PROVE TypeOK' /\ CallInv'
  BY <1>9 DEF TypeOK, CallInv, ReplaceState
<1>10. ASSUME NEW t \in Threads, Finish(t) PROVE TypeOK' /\ CallInv'
  <2>1. acked' \in Table /\ withdrawn' \subseteq Nodes
    BY <1>10 DEF TypeOK, CallInv, Finish, Table
  <2>2. /\ req' \in [Threads -> [op : {"none", "update", "offline", "cleanup", "list",
                                     "snapshot", "snapNodes", "snapFiles"},
                               node : Nodes \cup {None}, entry : Entry \cup {None},
                               stamp : 0..MaxTime]]
        /\ pc' \in [Threads -> {"idle", "waiting", "save", "replace", "finish", "dead"}]
    BY <1>10 DEF TypeOK, Finish, NextLeg, NoCall
  <2>3. CallInv'
    BY <1>10 DEF TypeOK, CallInv, Finish, NextLeg, NoCall
  <2>4. /\ now' \in 0..MaxTime /\ mode' \in {"down", "booting", "serving"}
        /\ nodes' \in Table /\ tmp' \in Table /\ disk' \in Table
        /\ lock' \in Threads \cup {None}
    BY <1>10 DEF TypeOK, Finish
  <2> QED BY <2>1, <2>2, <2>3, <2>4 DEF TypeOK
<1>11. ASSUME NEW t \in Threads, SaveFails(t) PROVE TypeOK' /\ CallInv'
  BY <1>11 DEF TypeOK, CallInv, SaveFails, NoCall, Empty
<1>12. CASE Crash
  BY <1>12 DEF TypeOK, CallInv, Crash, NoCall, Empty
<1>13. CASE Restart
  BY <1>13 DEF TypeOK, CallInv, Restart, Call
<1>14. CASE Tick
  BY <1>14 DEF TypeOK, CallInv, Tick
<1>15. CASE UNCHANGED vars
  BY <1>15 DEF TypeOK, CallInv, vars
<1> QED
  BY <1>1, <1>2, <1>3, <1>4, <1>5, <1>6, <1>7, <1>8, <1>9, <1>10, <1>11, <1>12,
     <1>13, <1>14, <1>15 DEF Next, Save

\* The state has the declared types, whatever fails and whoever overlaps.
THEOREM TypeCorrect == Spec => []TypeOK
<1>1. Init => TypeOK /\ CallInv
  BY Types DEF Init, TypeOK, CallInv, NoCall, Empty, Threads
<1>2. TypeOK /\ CallInv /\ [Next]_vars => TypeOK' /\ CallInv'
  BY TypeStep
<1> QED BY <1>1, <1>2, PTL DEF Spec

-----------------------------------------------------------------------------
(* The invariant.                                                           *)

\* A step starts a call in a tracker that serves, or is one of the others: how
\* the calls differ before the lock matters to CallInv only.
LEMMA Steps ==
    ASSUME [Next]_vars
    PROVE  \/ \E t \in Threads : \E call : mode = "serving" /\ Begin(t, call)
           \/ \E t \in Threads : EnterUpdate(t) \/ EnterOffline(t) \/ EnterSweep(t)
           \/ \E t \in Threads : WriteTemp(t) \/ ReplaceState(t) \/ Finish(t) \/ SaveFails(t)
           \/ Crash \/ Restart \/ Tick \/ UNCHANGED vars
  BY Types DEF Next, Save, BeginRead, BeginOffline, BeginUpdate, BeginCleanup

\* At most one thread is between taking the lock and releasing it, and no
\* thread survives the process.
LEMMA LockStep ==
    ASSUME TypeOK, LockInv, ModeInv, [Next]_vars
    PROVE  LockInv' /\ ModeInv'
<1> USE Types DEF LockInv, ModeInv, Holding
<1>1. ASSUME NEW t \in Threads, NEW call, mode = "serving", Begin(t, call)
      PROVE  LockInv' /\ ModeInv'
  BY <1>1 DEF TypeOK, Begin
<1>2. ASSUME NEW t \in Threads, NEW table, NEW saves, Enter(t, table, saves)
      PROVE  LockInv' /\ ModeInv'
  BY <1>2, RegistryAssumption DEF TypeOK, Enter
<1>3. ASSUME NEW t \in Threads, EnterUpdate(t) \/ EnterOffline(t) \/ EnterSweep(t)
      PROVE  LockInv' /\ ModeInv'
  BY <1>2, <1>3 DEF EnterUpdate, EnterOffline, EnterSweep
<1>4. ASSUME NEW t \in Threads, WriteTemp(t) PROVE LockInv' /\ ModeInv'
  BY <1>4 DEF TypeOK, WriteTemp
<1>5. ASSUME NEW t \in Threads, ReplaceState(t) PROVE LockInv' /\ ModeInv'
  BY <1>5 DEF TypeOK, ReplaceState
<1>6. ASSUME NEW t \in Threads, Finish(t) PROVE LockInv' /\ ModeInv'
  BY <1>6, RegistryAssumption DEF TypeOK, Finish, NextLeg
<1>7. ASSUME NEW t \in Threads, SaveFails(t) PROVE LockInv' /\ ModeInv'
  BY <1>7, RegistryAssumption DEF TypeOK, SaveFails, Threads
<1>8. CASE Crash
  BY <1>8, RegistryAssumption DEF TypeOK, Crash
<1>9. CASE Restart
  BY <1>9, RegistryAssumption DEF TypeOK, Restart
<1>10. CASE Tick \/ UNCHANGED vars
  BY <1>10 DEF Tick, vars
<1> QED BY <1>1, <1>3, <1>4, <1>5, <1>6, <1>7, <1>8, <1>9, <1>10, Steps

\* An update reaches the table, the temporary file and the state file in turn.
LEMMA SaveStep ==
    ASSUME TypeOK, LockInv, ModeInv, CallInv, SaveInv, [Next]_vars
    PROVE  SaveInv'
<1> USE Types DEF LockInv, SaveInv, Holding
<1>1. ASSUME NEW t \in Threads, NEW call, Begin(t, call) PROVE SaveInv'
  BY <1>1 DEF TypeOK, Begin
<1>2. ASSUME NEW t \in Threads, EnterUpdate(t) PROVE SaveInv'
  BY <1>2 DEF TypeOK, CallInv, EnterUpdate, Enter, Table
<1>3. ASSUME NEW t \in Threads, EnterOffline(t) PROVE SaveInv'
  BY <1>3 DEF TypeOK, CallInv, EnterOffline, Enter, Table
<1>4. ASSUME NEW t \in Threads, EnterSweep(t) PROVE SaveInv'
  BY <1>4 DEF TypeOK, EnterSweep, Enter
<1>5. ASSUME NEW t \in Threads, WriteTemp(t) PROVE SaveInv'
  BY <1>5 DEF TypeOK, WriteTemp
<1>6. ASSUME NEW t \in Threads, ReplaceState(t) PROVE SaveInv'
  BY <1>6 DEF TypeOK, ReplaceState
<1>7. ASSUME NEW t \in Threads, Finish(t) PROVE SaveInv'
  BY <1>7 DEF TypeOK, Finish, NextLeg, NoCall
<1>8. ASSUME NEW t \in Threads, SaveFails(t) PROVE SaveInv'
  BY <1>8 DEF TypeOK, SaveFails, NoCall, ModeInv
<1>9. CASE Crash
  BY <1>9 DEF TypeOK, Crash
<1>10. CASE Restart
  BY <1>10 DEF TypeOK, Restart
<1>11. CASE Tick \/ UNCHANGED vars
  BY <1>11 DEF Tick, vars
<1> QED
  BY <1>1, <1>2, <1>3, <1>4, <1>5, <1>6, <1>7, <1>8, <1>9, <1>10, <1>11, Steps

\* A step of a running tracker keeps every acknowledged lease that stands.
LEMMA AckStep ==
    ASSUME Inv, [Next]_vars
    PROVE  AckInv'
<1> USE Types DEF Inv, AckInv
<1>1. ASSUME NEW t \in Threads, NEW call, Begin(t, call) PROVE AckInv'
  BY <1>1 DEF Begin
<1>2. ASSUME NEW t \in Threads, EnterUpdate(t) PROVE AckInv'
  BY <1>2 DEF TypeOK, CallInv, EnterUpdate, Enter, Table
<1>3. ASSUME NEW t \in Threads, EnterOffline(t) PROVE AckInv'
  BY <1>3 DEF TypeOK, CallInv, EnterOffline, Enter, Table
<1>4. ASSUME NEW t \in Threads, EnterSweep(t) PROVE AckInv'
  <2>1. SweepStamp(t) =< now
    BY DEF TypeOK, CallInv, SweepStamp
  <2>2. SweepStamp(t) \in Nat
    BY DEF TypeOK, SweepStamp
  <2>3. nodes' = Swept(nodes, SweepStamp(t)) /\ UNCHANGED <<now, mode, disk, acked>>
    BY <1>4 DEF EnterSweep, Enter
  <2> QED BY <2>1, <2>2, <2>3 DEF TypeOK, Swept, Lapsed, Table, Entry
<1>5. ASSUME NEW t \in Threads, WriteTemp(t) PROVE AckInv'
  BY <1>5 DEF WriteTemp
<1>6. ASSUME NEW t \in Threads, ReplaceState(t) PROVE AckInv'
  BY <1>6 DEF ReplaceState, SaveInv, ModeInv
<1>7. ASSUME NEW t \in Threads, Finish(t) PROVE AckInv'
  BY <1>7 DEF TypeOK, CallInv, SaveInv, ModeInv, Holding, Finish, Table
<1>8. ASSUME NEW t \in Threads, SaveFails(t) PROVE AckInv'
  BY <1>8 DEF SaveFails
<1>9. CASE Crash
  BY <1>9 DEF Crash
<1>10. CASE Restart
  BY <1>10 DEF Restart
<1>11. CASE Tick
  BY <1>11 DEF TypeOK, Tick, Table, Entry
<1>12. CASE UNCHANGED vars
  BY <1>12 DEF vars
<1> QED
  BY <1>1, <1>2, <1>3, <1>4, <1>5, <1>6, <1>7, <1>8, <1>9, <1>10, <1>11, <1>12, Steps

\* The invariant about the lock, the calls, the save under way and the
\* acknowledged leases holds in every behaviour.
THEOREM InvHolds == Spec => []Inv
<1>1. Init => Inv
  BY Types DEF Init, Inv, TypeOK, LockInv, ModeInv, CallInv, SaveInv, AckInv, Holding,
               NoCall, Empty, Threads
<1>2. Inv /\ [Next]_vars => Inv'
  BY TypeStep, LockStep, SaveStep, AckStep DEF Inv
<1> QED BY <1>1, <1>2, PTL DEF Spec

\* An acknowledged lease is in the state file until it runs out or the node
\* calls again, whatever fails.
THEOREM AckedLeasesSurvive == Spec => []AckedSurvives
<1>1. Inv => AckedSurvives
  BY DEF Inv, AckInv, AckedSurvives
<1> QED BY <1>1, InvHolds, PTL

\* A running tracker drops a record only when it has run out or on its node's
\* word, whatever fails.
THEOREM NoRecordDroppedEarly == Spec => NoEarlyEviction
<1> DEFINE Dropped(n) == nodes[n] # None /\ nodes'[n] = None /\ mode' # "down"
           Rightly(n) == \/ nodes[n].expires =< now
                         \/ \E t \in Handlers :
                               lock' = t /\ req[t].op = "offline" /\ req[t].node = n
<1>1. Inv /\ [Next]_vars => \A n \in Nodes : Dropped(n) => Rightly(n)
  <2> SUFFICES ASSUME Inv, [Next]_vars, NEW n \in Nodes, Dropped(n)
               PROVE  Rightly(n)
    OBVIOUS
  <2> USE Types DEF Inv
  <2>1. ASSUME NEW t \in Threads, EnterUpdate(t) PROVE Rightly(n)
    BY <2>1 DEF TypeOK, CallInv, EnterUpdate, Enter, Table
  <2>2. ASSUME NEW t \in Threads, EnterOffline(t) PROVE Rightly(n)
    BY <2>2 DEF TypeOK, CallInv, EnterOffline, Enter, Table
  <2>3. ASSUME NEW t \in Threads, EnterSweep(t) PROVE Rightly(n)
    BY <2>3 DEF TypeOK, CallInv, EnterSweep, Enter, SweepStamp, Swept, Lapsed, Table, Entry
  <2>4. ASSUME NEW t \in Threads, SaveFails(t) PROVE Rightly(n)
    BY <2>4 DEF SaveFails
  <2>5. CASE Crash
    BY <2>5 DEF Crash
  <2>6. CASE Restart
    BY <2>6 DEF Restart, ModeInv, Empty
  <2>7. ASSUME UNCHANGED nodes PROVE Rightly(n)
    BY <2>7
  <2> QED
    BY <2>1, <2>2, <2>3, <2>4, <2>5, <2>6, <2>7, Steps
       DEF Begin, WriteTemp, ReplaceState, Finish, Tick, vars
<1>2. Inv /\ [Next]_vars => [\A n \in Nodes : Dropped(n) => Rightly(n)]_vars
  BY <1>1
<1> QED BY <1>2, InvHolds, PTL DEF Spec, NoEarlyEviction

-----------------------------------------------------------------------------
(* Leases.                                                                  *)

\* No lease, stored or about to be stored, promises more than TTL from now.
LeaseInv ==
    /\ \A n \in Nodes : /\ nodes[n] # None => nodes[n].expires =< Deadline
                        /\ disk[n] # None => disk[n].expires =< Deadline
    /\ \A t \in Threads : req[t].op = "update" => req[t].entry.expires =< Deadline

\* Every step keeps it, whatever fails and whoever overlaps.
LEMMA LeaseStep ==
    ASSUME Inv, LeaseInv, [Next]_vars
    PROVE  LeaseInv'
<1> USE Types DEF Inv, Deadline
<1>1. ASSUME NEW t \in Handlers, BeginRead(t) PROVE LeaseInv'
  <2>1. PICK op \in Reads : Begin(t, Call(op, None, None))
    BY <1>1 DEF BeginRead
  <2>2. Reads \subseteq {"list", "snapshot"}
    BY RegistryAssumption
  <2> QED BY <2>1, <2>2 DEF TypeOK, LeaseInv, Begin, Call
<1>2. ASSUME NEW t \in Handlers, NEW n \in Nodes, BeginOffline(t, n) PROVE LeaseInv'
  BY <1>2 DEF TypeOK, LeaseInv, BeginOffline, Begin, Call
<1>3. ASSUME NEW t \in Handlers, NEW n \in Nodes, NEW r \in Resources,
             BeginUpdate(t, n, r)
      PROVE  LeaseInv'
  BY <1>3 DEF TypeOK, LeaseInv, BeginUpdate, Begin, Call, Table, Entry
<1>4. CASE BeginCleanup
  BY <1>4, RegistryAssumption DEF TypeOK, LeaseInv, BeginCleanup, Begin, Call
<1>5. ASSUME NEW t \in Threads, EnterUpdate(t) PROVE LeaseInv'
  BY <1>5 DEF TypeOK, LeaseInv, CallInv, EnterUpdate, Enter, Table
<1>6. ASSUME NEW t \in Threads, EnterOffline(t) PROVE LeaseInv'
  BY <1>6 DEF TypeOK, LeaseInv, CallInv, EnterOffline, Enter, Table
<1>7. ASSUME NEW t \in Threads, EnterSweep(t) PROVE LeaseInv'
  BY <1>7 DEF TypeOK, LeaseInv, CallInv, EnterSweep, Enter, Swept, Table
<1>8. ASSUME NEW t \in Threads, WriteTemp(t) PROVE LeaseInv'
  BY <1>8 DEF TypeOK, LeaseInv, WriteTemp
<1>9. ASSUME NEW t \in Threads, ReplaceState(t) PROVE LeaseInv'
  BY <1>9 DEF TypeOK, LeaseInv, SaveInv, ReplaceState
<1>10. ASSUME NEW t \in Threads, Finish(t) PROVE LeaseInv'
  BY <1>10 DEF TypeOK, LeaseInv, Finish, NextLeg, NoCall
<1>11. ASSUME NEW t \in Threads, SaveFails(t) PROVE LeaseInv'
  <2>1. /\ req' = [req EXCEPT ![t] = NoCall] /\ UNCHANGED <<now, disk>>
        /\ pc' = [pc EXCEPT ![t] = IF t = Janitor THEN "dead" ELSE "idle"]
    BY <1>11 DEF SaveFails
  <2>2. \A n \in Nodes : nodes'[n] = nodes[n] \/ nodes'[n] = None
    BY <1>11 DEF SaveFails, Empty
  <2>3. \A u \in Threads : (req'[u] = req[u] /\ pc'[u] = pc[u]) \/ req'[u] = NoCall
    BY <2>1 DEF TypeOK
  <2>4. NoCall.op = "none" /\ NoCall.node = None
    BY DEF NoCall
  <2>5. \A u \in Threads : req[u].op = "update" => req[u].node \in Nodes
    BY DEF CallInv
  <2> QED BY <2>1, <2>2, <2>3, <2>4, <2>5 DEF LeaseInv
<1>12. CASE Crash
  BY <1>12 DEF TypeOK, LeaseInv, Crash, NoCall, Empty
<1>13. CASE Restart
  BY <1>13, RegistryAssumption DEF TypeOK, LeaseInv, ModeInv, Restart, Call
<1>14. CASE Tick
  BY <1>14 DEF TypeOK, LeaseInv, CallInv, Tick, Table, Entry
<1>15. CASE UNCHANGED vars
  BY <1>15 DEF LeaseInv, vars
<1> QED
  BY <1>1, <1>2, <1>3, <1>4, <1>5, <1>6, <1>7, <1>8, <1>9, <1>10, <1>11, <1>12,
     <1>13, <1>14, <1>15 DEF Next, Save

\* Nobody has called and nothing is leased at the start.
LEMMA LeaseInit == Init => LeaseInv
  BY Types DEF Init, LeaseInv, Empty, NoCall

-----------------------------------------------------------------------------
(* Saves that succeed: the state file is a Directory.                       *)

\* What the call that holds the lock has changed, compared with the state file
\* it has not replaced yet.
Pending(t) ==
    LET n == req[t].node
        e == req[t].entry
    IN CASE req[t].op = "update"  -> nodes = [disk EXCEPT ![n] = e]
         [] req[t].op = "offline" -> nodes = [disk EXCEPT ![n] = None]
         [] OTHER -> \A m \in Nodes :
                         \/ nodes[m] = disk[m]
                         \/ nodes[m] = None /\ disk[m].expires =< now /\ disk[m] # None

\* Whenever no save is under way the table of a running tracker is the state
\* file; a node that withdrew is in neither.
DiskInv ==
    /\ mode # "down" /\ lock = None => nodes = disk
    /\ \A t \in Threads : pc[t] = "finish" => nodes = disk
    /\ \A t \in Threads : pc[t] \in {"save", "replace"} => Pending(t)
    /\ \A n \in withdrawn : nodes[n] = None /\ disk[n] = None

\* The state file follows the table: preserved when saves succeed.
LEMMA DiskStep ==
    ASSUME ~SaveMayFail, Inv, LeaseInv, DiskInv, [Next]_vars
    PROVE  DiskInv'
<1> USE Types DEF Inv
<1>1. ASSUME NEW t \in Threads, NEW call, Begin(t, call) PROVE DiskInv'
  BY <1>1 DEF TypeOK, DiskInv, Pending, Begin
<1>2. ASSUME NEW t \in Threads, EnterUpdate(t) PROVE DiskInv'
  <2>1. /\ nodes = disk /\ lock' = t /\ mode # "down"
        /\ pc' = [pc EXCEPT ![t] = "save"]
        /\ nodes' = [nodes EXCEPT ![req[t].node] = req[t].entry]
        /\ withdrawn' = withdrawn \ {req[t].node}
        /\ req[t].op = "update" /\ req[t].node \in Nodes
        /\ UNCHANGED <<req, disk, mode, now>>
    BY <1>2 DEF EnterUpdate, Enter, DiskInv, ModeInv, CallInv
  <2>2. Pending(t)'
    BY <2>1 DEF Pending
  <2>3. \A u \in Threads : u # t => ~Holding(u)'
    BY <1>2 DEF TypeOK, LockInv, Holding, EnterUpdate, Enter
  <2> QED BY <2>1, <2>2, <2>3 DEF TypeOK, DiskInv, Holding, Table
<1>3. ASSUME NEW t \in Threads, EnterOffline(t) PROVE DiskInv'
  <2>1. /\ nodes = disk /\ lock' = t /\ mode # "down"
        /\ pc' = [pc EXCEPT ![t] = IF nodes[req[t].node] # None THEN "save" ELSE "finish"]
        /\ nodes' = [nodes EXCEPT ![req[t].node] = None]
        /\ req[t].op = "offline" /\ req[t].node \in Nodes
        /\ UNCHANGED <<req, disk, mode, now, withdrawn>>
    BY <1>3 DEF EnterOffline, Enter, DiskInv, ModeInv, CallInv
  <2>2. Pending(t)'
    BY <2>1 DEF Pending
  <2>3. \A u \in Threads : u # t => ~Holding(u)'
    BY <1>3 DEF TypeOK, LockInv, Holding, EnterOffline, Enter
  <2>4. nodes[req[t].node] = None => nodes' = nodes
    BY <2>1 DEF TypeOK, Table
  <2> QED BY <2>1, <2>2, <2>3, <2>4 DEF TypeOK, DiskInv, Holding, Table
<1>4. ASSUME NEW t \in Threads, EnterSweep(t) PROVE DiskInv'
  <2>1. SweepStamp(t) \in Nat /\ SweepStamp(t) =< now /\ now \in Nat
    BY DEF TypeOK, CallInv, SweepStamp
  <2>2. \A n \in Nodes : nodes[n] # None => nodes[n].expires \in Nat
    BY DEF TypeOK, Table, Entry
  <2>3. /\ nodes = disk /\ lock' = t /\ mode # "down"
        /\ pc' = [pc EXCEPT ![t] = IF nodes' # nodes THEN "save" ELSE "finish"]
        /\ nodes' = Swept(nodes, SweepStamp(t))
        /\ req[t].op \notin {"update", "offline"}
        /\ UNCHANGED <<req, disk, mode, now, withdrawn>>
    BY <1>4 DEF EnterSweep, Enter, DiskInv, ModeInv
  <2>4. Pending(t)'
    BY <2>1, <2>2, <2>3 DEF Pending, Swept, Lapsed
  <2>5. \A u \in Threads : u # t => ~Holding(u)'
    BY <1>4 DEF TypeOK, LockInv, Holding, EnterSweep, Enter
  <2>6. \A n \in Nodes : nodes[n] = None => nodes'[n] = None
    BY <2>3 DEF Swept
  <2> QED BY <2>3, <2>4, <2>5, <2>6 DEF TypeOK, DiskInv, Holding
<1>5. ASSUME NEW t \in Threads, WriteTemp(t) PROVE DiskInv'
  BY <1>5 DEF TypeOK, LockInv, Holding, DiskInv, Pending, WriteTemp
<1>6. ASSUME NEW t \in Threads, ReplaceState(t) PROVE DiskInv'
  BY <1>6 DEF TypeOK, LockInv, Holding, SaveInv, DiskInv, ReplaceState
<1>7. ASSUME NEW t \in Threads, Finish(t) PROVE DiskInv'
  <2>1. /\ nodes = disk /\ UNCHANGED <<nodes, disk, now>>
        /\ \A u \in Threads : pc'[u] \notin {"save", "replace", "finish"}
    BY <1>7 DEF TypeOK, LockInv, Holding, DiskInv, Finish
  <2>2. req[t].op = "offline" => nodes[req[t].node] = None
    BY <1>7 DEF SaveInv, Holding, Finish
  <2>3. \A n \in withdrawn' : disk[n] = None
    BY <1>7, <2>1, <2>2 DEF DiskInv, Finish
  <2> QED BY <2>1, <2>3 DEF DiskInv
<1>9. CASE Crash
  BY <1>9 DEF TypeOK, DiskInv, Crash, Empty
<1>10. CASE Restart
  BY <1>10 DEF TypeOK, DiskInv, Restart
<1>11. CASE Tick
  BY <1>11 DEF TypeOK, DiskInv, Pending, Tick, Table, Entry
<1>12. CASE UNCHANGED vars
  BY <1>12 DEF DiskInv, Pending, vars
<1> QED
  BY <1>1, <1>2, <1>3, <1>4, <1>5, <1>6, <1>7, <1>9, <1>10, <1>11, <1>12, Steps
     DEF SaveFails

\* Between calls memory and state file are the same table.
THEOREM DiskHolds ==
    ASSUME ~SaveMayFail
    PROVE  Spec => [](Inv /\ LeaseInv /\ DiskInv)
<1>1. Init => DiskInv
  BY DEF Init, DiskInv
<1>2. Inv /\ LeaseInv /\ DiskInv /\ [Next]_vars => LeaseInv' /\ DiskInv'
  BY LeaseStep, DiskStep
<1> QED BY <1>1, <1>2, LeaseInit, InvHolds, PTL DEF Spec

\* A node whose offline call was answered is not in the state file, as long as
\* saves succeed.
THEOREM WithdrawnStaysOut ==
    ASSUME ~SaveMayFail
    PROVE  Spec => []OfflineSurvives
<1>1. DiskInv => OfflineSurvives
  BY DEF DiskInv, OfflineSurvives
<1> QED BY <1>1, DiskHolds, PTL

\* The state file changes only by os.replace, and there it takes the one step
\* of Directory that the call stands for.
LEMMA ReplaceIsOneStep ==
    ASSUME Inv, LeaseInv, DiskInv, NEW t \in Threads, ReplaceState(t)
    PROVE  Promise!Next
<1> USE Types DEF Inv
<1>1. disk' = nodes /\ now' = now /\ Pending(t)
  BY DEF ReplaceState, SaveInv, DiskInv
<1>2. CASE req[t].op = "update"
  <2>1. req[t].node \in Nodes /\ req[t].entry \in Entry
    BY <1>2 DEF CallInv
  <2>2. Promise!Register(req[t].node, req[t].entry)
    BY <1>1, <1>2 DEF Promise!Register, Pending, LeaseInv, Deadline
  <2> QED BY <2>1, <2>2 DEF Promise!Next, Promise!Entry, Entry
<1>3. CASE req[t].op = "offline"
  <2>1. req[t].node \in Nodes
    BY <1>3 DEF CallInv
  <2>2. Promise!Withdraw(req[t].node)
    BY <1>1, <1>3 DEF Promise!Withdraw, Pending
  <2> QED BY <2>1, <2>2 DEF Promise!Next
<1>4. CASE req[t].op \notin {"update", "offline"}
  <2> DEFINE S == {n \in Nodes : nodes[n] # disk[n]}
  <2>1. \A n \in Nodes : n \in S => nodes[n] = None /\ disk[n] # None /\ disk[n].expires =< now
    BY <1>1, <1>4 DEF Pending
  <2>2. disk' = [n \in Nodes |-> IF n \in S THEN None ELSE disk[n]]
    BY <1>1, <2>1 DEF TypeOK, Table
  <2>3. Promise!Evict(S)
    BY <1>1, <2>1, <2>2 DEF Promise!Evict
  <2> QED BY <2>3 DEF Promise!Next
<1> QED BY <1>2, <1>3, <1>4

\* The tracker implements the directory of leases: seen through its state file,
\* every interleaving of calls, crashes and restarts is a sequence of single
\* registrations, withdrawals and evictions.
THEOREM ImplementsDirectory ==
    ASSUME ~SaveMayFail
    PROVE  Spec => DirectorySpec
<1>1. Init => Promise!Init
  BY DEF Init, Promise!Init, Empty
<1>2. Inv /\ LeaseInv /\ DiskInv /\ [Next]_vars => [Promise!Next]_(Promise!vars)
  <2> SUFFICES ASSUME Inv, LeaseInv, DiskInv, [Next]_vars
               PROVE  Promise!Next \/ UNCHANGED <<now, disk>>
    BY DEF Promise!vars
  <2>1. ASSUME NEW t \in Threads, ReplaceState(t) PROVE Promise!Next
    BY <2>1, ReplaceIsOneStep
  <2>2. CASE Tick
    BY <2>2 DEF Tick, Promise!Next, Promise!Tick
  <2> QED
    BY <2>1, <2>2, Steps
       DEF Begin, EnterUpdate, EnterOffline, EnterSweep, Enter, WriteTemp, Finish,
           SaveFails, Crash, Restart, vars
<1> QED BY <1>1, <1>2, DiskHolds, PTL DEF Spec, DirectorySpec, Promise!Spec

-----------------------------------------------------------------------------
(* What queries are answered.                                                *)

\* A query that is inside the lock has swept what had lapsed when it arrived, and
\* nobody else changes the table.
SweptInv ==
    \A t \in Threads :
        Holding(t) /\ req[t].op \in {"list", "snapNodes", "snapFiles"} =>
            \A n \in Nodes : nodes[n] # None => nodes[n].expires > req[t].stamp

\* Every step keeps it, whatever fails and whoever overlaps.
LEMMA SweptStep ==
    ASSUME Inv, SweptInv, [Next]_vars
    PROVE  SweptInv'
<1> USE Types DEF Inv, SweptInv, Holding
<1>1. ASSUME NEW t \in Threads, NEW call, Begin(t, call) PROVE SweptInv'
  BY <1>1 DEF TypeOK, Begin
<1>2. ASSUME NEW t \in Threads, EnterUpdate(t) \/ EnterOffline(t) PROVE SweptInv'
  <2>1. /\ req[t].op \in {"update", "offline"} /\ UNCHANGED req
        /\ \E p \in {"save", "finish"} : pc' = [pc EXCEPT ![t] = p]
        /\ lock = None
    BY <1>2 DEF EnterUpdate, EnterOffline, Enter
  <2>2. \A u \in Threads : u # t => ~Holding(u)'
    BY <2>1, Types DEF TypeOK, LockInv
  <2> QED BY <2>1, <2>2
<1>3. ASSUME NEW t \in Threads, EnterSweep(t) PROVE SweptInv'
  <2>1. /\ nodes' = Swept(nodes, SweepStamp(t)) /\ UNCHANGED req /\ lock = None
        /\ \E p \in {"save", "finish"} : pc' = [pc EXCEPT ![t] = p]
    BY <1>3 DEF EnterSweep, Enter
  <2>2. \A u \in Threads : u # t => ~Holding(u)'
    BY <2>1, Types DEF TypeOK, LockInv
  <2>3. /\ SweepStamp(t) \in Nat /\ req[t].stamp \in Nat
        /\ req[t].op \in {"list", "snapNodes", "snapFiles"} => req[t].stamp =< SweepStamp(t)
    BY DEF TypeOK, CallInv, SweepStamp
  <2>4. \A n \in Nodes : nodes[n] # None => nodes[n].expires \in Nat
    BY DEF TypeOK, Table, Entry
  <2>5. \A n \in Nodes : nodes'[n] # None =>
           nodes[n] # None /\ nodes'[n] = nodes[n] /\ nodes[n].expires > SweepStamp(t)
    BY <2>1, <2>3, <2>4 DEF Swept, Lapsed
  <2> QED BY <2>1, <2>2, <2>3, <2>4, <2>5
<1>4. ASSUME NEW t \in Threads, WriteTemp(t) \/ ReplaceState(t) PROVE SweptInv'
  BY <1>4 DEF TypeOK, WriteTemp, ReplaceState
<1>5. ASSUME NEW t \in Threads, Finish(t) \/ SaveFails(t) PROVE SweptInv'
  <2>1. Holding(t) /\ lock = t
    BY <1>5 DEF LockInv, Finish, SaveFails
  <2>2. \A u \in Threads : ~Holding(u)'
    BY <1>5, <2>1 DEF TypeOK, LockInv, Finish, SaveFails
  <2> QED BY <2>2
<1>6. CASE Crash \/ Restart
  BY <1>6 DEF TypeOK, Crash, Restart
<1>7. CASE Tick \/ UNCHANGED vars
  BY <1>7 DEF Tick, vars
<1> QED BY <1>1, <1>2, <1>3, <1>4, <1>5, <1>6, <1>7, Steps

\* A listing, and each part of a snapshot, has no lease that had run out when it was
\* asked for, and none that a crash would lose.
THEOREM AnswersAreAlwaysFresh ==
    ASSUME ~SaveMayFail
    PROVE  Spec => []AnswersAreFresh
<1>1. Init => SweptInv
  BY Types DEF Init, SweptInv, Holding, Threads
<1>2. Inv /\ SweptInv /\ [Next]_vars => SweptInv'
  BY SweptStep
<1>3. Inv /\ DiskInv /\ SweptInv => AnswersAreFresh
  BY Types DEF DiskInv, SweptInv, Holding, AnswersAreFresh
<1> QED BY <1>1, <1>2, <1>3, DiskHolds, PTL DEF Spec
=============================================================================
