------------------------------ MODULE Directory ------------------------------
(***************************************************************************)
(* What the tracker promises its clients: ONE directory of leases, changed  *)
(* by one registration, withdrawal or eviction at a time, that no crash and *)
(* no restart can damage.  tracker/tracker/registry.py implements it with   *)
(* an in-memory table, a lock, a state file and a temporary file (module    *)
(* Registry); here none of these exists.                                    *)
(***************************************************************************)
EXTENDS Naturals

CONSTANTS Nodes,      \* node ids
          Resources,  \* the resource lists a node may report
          None,       \* "this node is not registered"
          TTL,        \* node_ttl_seconds
          MaxTime     \* bound on the clock

VARIABLES now,        \* the clock
          dir         \* dir[n] is the lease of node n, or None

Entry == [expires : 0..(MaxTime + TTL), resources : Resources]
Table == [Nodes -> Entry \cup {None}]

Init == now = 0 /\ dir = [n \in Nodes |-> None]

Tick == now < MaxTime /\ now' = now + 1 /\ UNCHANGED dir

\* A registration never promises more than TTL from the present.  It may promise
\* less, and less than the lease it replaces: a report is stamped when it arrives
\* and takes effect later, perhaps after one that arrived after it.
Register(n, e) ==
    /\ e.expires =< now + TTL
    /\ dir' = [dir EXCEPT ![n] = e]
    /\ UNCHANGED now

Withdraw(n) == dir' = [dir EXCEPT ![n] = None] /\ UNCHANGED now

\* Only leases that have run out may be dropped without the node asking.
Evict(S) ==
    /\ \A n \in S : dir[n] # None /\ dir[n].expires =< now
    /\ dir' = [n \in Nodes |-> IF n \in S THEN None ELSE dir[n]]
    /\ UNCHANGED now

Next == \/ Tick
        \/ \E n \in Nodes : Withdraw(n) \/ \E e \in Entry : Register(n, e)
        \/ \E S \in SUBSET Nodes : Evict(S)

vars == <<now, dir>>
Spec == Init /\ [][Next]_vars
=============================================================================
