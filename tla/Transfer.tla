------------------------------- MODULE Transfer -------------------------------
(***************************************************************************)
(* What a node's downloads come to, block by block: one at a time; of each   *)
(* block wanted one of two things happens, once: it arrives or it is lost;   *)
(* a download fails only over a lost block, and the file is there only after *)
(* the last block of a download; how a download ended is never revised, while *)
(* blocks of one that has failed may still arrive or be lost.  Who is asked,  *)
(* in what order, and the tasks and messages it takes are module Download.    *)
(***************************************************************************)
EXTENDS Naturals

CONSTANTS Downloads, Blocks

Rounds == 1..Downloads

VARIABLES latest,   \* number of the latest download
          wanted,   \* per download, the blocks it fetches
          got,      \* those that have arrived
          lost,     \* those that will not
          count,    \* how many have arrived
          outcome,  \* "none", "running", "kept", and how it ended
          present   \* whether the file is in the share directory

vars == <<latest, wanted, got, lost, count, outcome, present>>

Init ==
    /\ latest = 0 /\ present = FALSE
    /\ wanted = [d \in Rounds |-> {}] /\ got = wanted /\ lost = wanted
    /\ count = [d \in Rounds |-> 0] /\ outcome = [d \in Rounds |-> "none"]

Is(o) == latest \in Rounds /\ outcome[latest] = o
Becomes(o) == outcome' = [outcome EXCEPT ![latest'] = o]

Begin(W) ==
    /\ ~Is("running") /\ ~Is("kept")
    /\ latest' = latest + 1 /\ latest' \in Rounds
    /\ W # {}
    /\ wanted' = [wanted EXCEPT ![latest'] = W]
    /\ Becomes("running")
    /\ UNCHANGED <<got, lost, count, present>>

Expected(d) == wanted[d] \ (got[d] \cup lost[d])

Arrive(d, b) ==
    /\ b \in Expected(d)
    /\ got' = [got EXCEPT ![d] = @ \cup {b}]
    /\ count' = [count EXCEPT ![d] = @ + 1]
    /\ UNCHANGED <<latest, wanted, lost, outcome, present>>

Lose(d, b) ==
    /\ b \in Expected(d)
    /\ lost' = [lost EXCEPT ![d] = @ \cup {b}]
    /\ UNCHANGED <<latest, wanted, got, count, outcome, present>>

Unmoved == UNCHANGED <<latest, wanted, got, lost, count>>

Fail ==
    /\ Is("running") /\ lost[latest] # {}
    /\ Becomes("failed")
    /\ Unmoved /\ UNCHANGED present

\* The blocks are put together: they make the file, or they do not.
Join ==
    /\ Is("running") /\ got[latest] = wanted[latest]
    /\ \/ Becomes("kept") /\ present' = TRUE
       \/ Becomes("mismatch") /\ UNCHANGED present
    /\ Unmoved

Announce ==
    /\ Is("kept")
    /\ Becomes("saved") \/ Becomes("unpublished")
    /\ Unmoved /\ UNCHANGED present

Delete == present' = FALSE /\ Unmoved /\ UNCHANGED outcome

Next ==
    \/ \E W \in SUBSET Blocks : Begin(W)
    \/ \E d \in Rounds, b \in Blocks : Arrive(d, b) \/ Lose(d, b)
    \/ Fail \/ Join \/ Announce \/ Delete

Spec == Init /\ [][Next]_vars
=============================================================================
