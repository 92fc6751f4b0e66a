------------------------------- MODULE Registry -------------------------------
(***************************************************************************)
(* The tracker process: TrackerRegistry (tracker/tracker/registry.py) driven *)
(* by the handler threads and the cleanup thread of TrackerHTTPServer        *)
(* (tracker/tracker/server.py), with its state file, save errors, crashes    *)
(* and restarts.                                                             *)
(*                                                                           *)
(* One registry call is a request that a thread carries through              *)
(*    idle -> waiting -> save -> replace -> finish -> idle                   *)
(* "waiting" is before `with self._lock', the other three are inside it.     *)
(* "save" and "replace" are the two steps of _save_state: writing the        *)
(* temporary file and os.replace.  Calls that change nothing skip them.      *)
(***************************************************************************)
EXTENDS Naturals

CONSTANTS Nodes,        \* node ids
          Resources,    \* normalized resource lists a report may carry
          Handlers,     \* handler threads: bounds the requests in flight
          Janitor,      \* main thread while booting, then the cleanup thread
          None,         \* no record / no thread
          TTL,          \* node_ttl_seconds
          MaxTime,      \* bound on the clock
          SaveMayFail,  \* whether _save_state may raise OSError
          Reads         \* read-only calls of the instance: "list", "snapshot"

Entry == [expires : 0..(MaxTime + TTL), resources : Resources]
Table == [Nodes -> Entry \cup {None}]
Empty == [n \in Nodes |-> None]
Threads == Handlers \cup {Janitor}

ASSUME RegistryAssumption ==
    /\ TTL \in Nat \ {0} /\ MaxTime \in Nat
    /\ SaveMayFail \in BOOLEAN
    /\ Reads \subseteq {"list", "snapshot"}
    /\ Janitor \notin Handlers /\ None \notin Threads
    /\ None \notin Nodes /\ None \notin Entry

VARIABLES now,        \* time.time(), in ticks
          mode,       \* the process: "down", "booting" or "serving"
          nodes,      \* self._nodes
          lock,       \* holder of self._lock
          pc, req,    \* where each thread is, and the call it carries
          tmp, disk,  \* the temporary file and state_path
          acked,      \* history: the last registration acknowledged, while it stands
          withdrawn   \* history: nodes whose offline call was answered, until a
                      \* report of theirs takes the lock (one sent before it, too)

vars == <<now, mode, nodes, lock, pc, req, tmp, disk, acked, withdrawn>>

Call(op, n, e) == [op |-> op, node |-> n, entry |-> e, stamp |-> now]
NoCall == [op |-> "none", node |-> None, entry |-> None, stamp |-> 0]

\* Mutant: a record goes a tick before it lapses.
Lapsed_Early(e, ts) == e # None /\ e.expires =< ts + 1

\* expires_at_epoch <= now_ts (a missing record is never lapsed)
Lapsed(e, ts) == e # None /\ e.expires =< ts

\* Mutant: nothing is ever cleaned up.
Swept_Nothing(table, ts) == table

\* What cleanup_expired leaves of the table.
Swept(table, ts) == [n \in Nodes |-> IF Lapsed(table[n], ts) THEN None ELSE table[n]]

\* Mutant: a lease one tick too long.
Deadline_TooLong == now + TTL + 1

\* expires_ts of a report received now
Deadline == now + TTL

-----------------------------------------------------------------------------
(* The calls, before the lock.  Calls of one node may overlap: a client that *)
(* gave up on an answer (client.py times out after 5 s) calls again while    *)
(* the handler of its first call still waits for the lock.                   *)

Begin(t, call) ==
    /\ pc[t] = "idle"
    /\ req' = [req EXCEPT ![t] = call]
    /\ pc' = [pc EXCEPT ![t] = "waiting"]
    /\ UNCHANGED <<now, mode, nodes, lock, tmp, disk, acked, withdrawn>>

\* POST /api/v1/update: the record is built, with its time stamps, before the
\* lock is taken.  (A payload that fails validation changes nothing.)
BeginUpdate(t, n, r) ==
    /\ mode = "serving"
    /\ Begin(t, Call("update", n, [expires |-> Deadline, resources |-> r]))

\* POST /api/v1/offline and DELETE /api/v1/nodes/<id>
BeginOffline(t, n) ==
    /\ mode = "serving"
    /\ Begin(t, Call("offline", n, None))

\* GET /api/v1/nodes, /files and /query ("list"), /api/v1/snapshot
BeginRead(t) ==
    /\ mode = "serving"
    /\ \E op \in Reads : Begin(t, Call(op, None, None))

\* _cleanup_loop, after an interval of any length
BeginCleanup == mode = "serving" /\ Begin(Janitor, Call("cleanup", None, None))

-----------------------------------------------------------------------------
(* The calls, inside the lock.                                              *)

Enter(t, table, saves) ==
    /\ pc[t] = "waiting" /\ lock = None
    /\ lock' = t
    /\ nodes' = table
    /\ pc' = [pc EXCEPT ![t] = IF saves THEN "save" ELSE "finish"]
    /\ UNCHANGED <<now, mode, req, tmp, disk>>

EnterUpdate(t) ==
    LET n == req[t].node IN
    /\ req[t].op = "update"
    /\ Enter(t, [nodes EXCEPT ![n] = req[t].entry], TRUE)
    /\ acked' = [acked EXCEPT ![n] = None]
    /\ withdrawn' = withdrawn \ {n}

\* Mutant: offline forgets to save.
EnterOffline_NotSaved(t) ==
    LET n == req[t].node IN
    /\ req[t].op = "offline"
    /\ Enter(t, [nodes EXCEPT ![n] = None], FALSE)
    /\ acked' = [acked EXCEPT ![n] = None]
    /\ UNCHANGED withdrawn

\* `if existed: self._save_state()'
EnterOffline(t) ==
    LET n == req[t].node IN
    /\ req[t].op = "offline"
    /\ Enter(t, [nodes EXCEPT ![n] = None], nodes[n] # None)
    /\ acked' = [acked EXCEPT ![n] = None]
    /\ UNCHANGED withdrawn

\* cleanup_expired reads the clock before it takes the lock; called by
\* list_nodes and build_file_index, it runs inside their lock.
SweepStamp(t) == IF req[t].op \in {"cleanup", "snapshot"} THEN req[t].stamp ELSE now

EnterSweep(t) ==
    LET table == Swept(nodes, SweepStamp(t)) IN
    /\ req[t].op \in {"cleanup", "list", "snapshot", "snapNodes", "snapFiles"}
    /\ Enter(t, table, table # nodes)
    /\ UNCHANGED <<acked, withdrawn>>

\* Mutant: the state file itself is opened for writing, which empties it.
WriteTemp_InPlace(t) ==
    /\ pc[t] = "save"
    /\ tmp' = nodes /\ disk' = Empty
    /\ pc' = [pc EXCEPT ![t] = "replace"]
    /\ UNCHANGED <<now, mode, nodes, lock, req, acked, withdrawn>>

\* json.dump of the whole table into state_path.tmp
WriteTemp(t) ==
    /\ pc[t] = "save"
    /\ tmp' = nodes
    /\ pc' = [pc EXCEPT ![t] = "replace"]
    /\ UNCHANGED <<now, mode, nodes, lock, req, disk, acked, withdrawn>>

\* os.replace(temp_path, self.state_path)
ReplaceState(t) ==
    /\ pc[t] = "replace"
    /\ disk' = tmp
    /\ tmp' = Empty
    /\ pc' = [pc EXCEPT ![t] = "finish"]
    /\ UNCHANGED <<now, mode, nodes, lock, req, acked, withdrawn>>

\* snapshot() goes on to list_nodes and then to list_files, each taking the
\* lock anew; every other call is over.
NextLeg(op) == IF op = "snapshot" THEN "snapNodes"
               ELSE IF op = "snapNodes" THEN "snapFiles" ELSE "none"

\* The lock is released; unless another leg follows, the answer is sent.
Finish(t) ==
    LET r == req[t]
        leg == NextLeg(r.op)
    IN
    /\ pc[t] = "finish"
    /\ lock' = None
    /\ pc' = [pc EXCEPT ![t] = IF leg = "none" THEN "idle" ELSE "waiting"]
    /\ req' = [req EXCEPT ![t] = IF leg = "none" THEN NoCall ELSE [r EXCEPT !.op = leg]]
    /\ acked' = IF r.op = "update" THEN [acked EXCEPT ![r.node] = r.entry] ELSE acked
    /\ withdrawn' = IF r.op = "offline" THEN withdrawn \cup {r.node} ELSE withdrawn
    /\ mode' = IF t = Janitor THEN "serving" ELSE mode
    /\ UNCHANGED <<now, nodes, tmp, disk>>

\* _save_state raises OSError: the lock is released, the change stays in
\* memory.  A handler's connection is dropped without an answer, the cleanup
\* thread ends for good, and a tracker that is booting exits.
SaveFails(t) ==
    /\ SaveMayFail
    /\ pc[t] \in {"save", "replace"}
    /\ lock' = None
    /\ req' = [req EXCEPT ![t] = NoCall]
    /\ pc' = [pc EXCEPT ![t] = IF t = Janitor THEN "dead" ELSE "idle"]
    /\ mode' = IF mode = "booting" THEN "down" ELSE mode
    /\ nodes' = IF mode = "booting" THEN Empty ELSE nodes
    /\ UNCHANGED <<now, tmp, disk, acked, withdrawn>>

-----------------------------------------------------------------------------
(* The process.                                                             *)

\* The process dies, or stops on Ctrl+C: handler threads are daemons, so
\* calls under way are cut off wherever they are.
Crash ==
    /\ mode # "down"
    /\ mode' = "down"
    /\ nodes' = Empty /\ lock' = None
    /\ pc' = [t \in Threads |-> "idle"]
    /\ req' = [t \in Threads |-> NoCall]
    /\ UNCHANGED <<now, tmp, disk, acked, withdrawn>>

\* TrackerRegistry.__init__: _load_state reads state_path and cleans up
\* before the server listens.
Restart ==
    /\ mode = "down"
    /\ mode' = "booting"
    /\ nodes' = disk
    /\ pc' = [t \in Threads |-> IF t = Janitor THEN "waiting" ELSE "idle"]
    /\ req' = [req EXCEPT ![Janitor] = Call("cleanup", None, None)]
    /\ UNCHANGED <<now, lock, tmp, disk, acked, withdrawn>>

Tick ==
    /\ now < MaxTime
    /\ now' = now + 1
    /\ UNCHANGED <<mode, nodes, lock, pc, req, tmp, disk, acked, withdrawn>>

-----------------------------------------------------------------------------
Init ==
    /\ now = 0 /\ mode = "down"
    /\ nodes = Empty /\ tmp = Empty /\ disk = Empty
    /\ lock = None
    /\ pc = [t \in Threads |-> "idle"]
    /\ req = [t \in Threads |-> NoCall]
    /\ acked = Empty /\ withdrawn = {}

Save(t) == WriteTemp(t) \/ ReplaceState(t) \/ Finish(t)

Next ==
    \/ \E t \in Handlers :
         \/ BeginRead(t)
         \/ \E n \in Nodes : BeginOffline(t, n) \/ \E r \in Resources : BeginUpdate(t, n, r)
    \/ BeginCleanup
    \/ \E t \in Threads :
         EnterUpdate(t) \/ EnterOffline(t) \/ EnterSweep(t) \/ Save(t) \/ SaveFails(t)
    \/ Crash \/ Restart \/ Tick

Spec == Init /\ [][Next]_vars

\* A lock holder runs on, the cleanup thread goes on waking up and is not
\* passed over for ever when it waits for the lock.
FairSpec ==
    /\ Spec
    /\ \A t \in Threads : WF_vars(Save(t))
    /\ WF_vars(BeginCleanup) /\ SF_vars(EnterSweep(Janitor))

-----------------------------------------------------------------------------
\* The state of the process, of its threads and of its files is well formed.
TypeOK ==
    /\ now \in 0..MaxTime
    /\ mode \in {"down", "booting", "serving"}
    /\ nodes \in Table /\ tmp \in Table /\ disk \in Table /\ acked \in Table
    /\ lock \in Threads \cup {None}
    /\ pc \in [Threads -> {"idle", "waiting", "save", "replace", "finish", "dead"}]
    /\ req \in [Threads -> [op : {"none", "update", "offline", "cleanup", "list",
                                  "snapshot", "snapNodes", "snapFiles"},
                            node : Nodes \cup {None}, entry : Entry \cup {None},
                            stamp : 0..MaxTime]]
    /\ withdrawn \subseteq Nodes

\* An acknowledged registration is in the state file until it lapses, however
\* calls, failed saves and crashes interleave ("Tracker restarts recover the
\* nodes that have not expired").
AckedSurvives ==
    \A n \in Nodes : acked[n] # None /\ acked[n].expires > now => disk[n] = acked[n]

\* A node whose offline call was answered does not come back from the state file.
OfflineSurvives == \A n \in withdrawn : disk[n] = None

\* An answer is built from records that had not lapsed when the call arrived,
\* and that are all in the state file: no client learns of a node that a crash
\* in the next instant would make the tracker forget.
AnswersAreFresh ==
    \A t \in Handlers :
        pc[t] = "finish" /\ req[t].op \in {"list", "snapNodes", "snapFiles"} =>
            /\ nodes = disk
            /\ \A n \in Nodes : nodes[n] # None => nodes[n].expires > req[t].stamp

\* A record leaves the table of a running tracker only when it has lapsed or
\* when its node's offline call is the one holding the lock.
NoEarlyEviction ==
    [][\A n \in Nodes : nodes[n] # None /\ nodes'[n] = None /\ mode' # "down" =>
           \/ nodes[n].expires =< now
           \/ \E t \in Handlers : lock' = t /\ req[t].op = "offline" /\ req[t].node = n]_vars

Overdue(n) == nodes[n] # None /\ nodes[n].expires =< now

\* The background cleanup removes a lapsed record even if nobody queries, unless
\* an error of its own has ended it: _cleanup_loop catches none.
LapsedAreEvicted == \A n \in Nodes : Overdue(n) ~> ~Overdue(n) \/ pc[Janitor] = "dead"

Promise == INSTANCE Directory WITH dir <- disk

\* The directory clients are promised is what the state file holds: os.replace
\* is the instant at which a call takes effect, and a crash changes nothing.
DirectorySpec == Promise!Spec
=============================================================================
