---------------------------- MODULE CommandService ----------------------------
(***************************************************************************)
(* What a node promises the user who enters commands: they are dealt with    *)
(* one at a time and in their order; each is answered or, once the node is   *)
(* being stopped, given up, never both and never twice; and the interface    *)
(* calls only the last one complete, and only then.  There are no tasks, no  *)
(* channels and no timeouts: module NodeRuntime has them.                    *)
(***************************************************************************)
EXTENDS Naturals, Sequences

VARIABLES issued,    \* number of commands issued
          handled,   \* commands taken in hand, in order
          atWork,    \* whether the last of them is still in hand
          done,      \* commands that were answered
          dropped,   \* commands that were given up
          reported,  \* commands the user was told are complete
          closing    \* the node is being stopped

Init ==
    /\ issued = 0 /\ handled = <<>> /\ atWork = FALSE
    /\ done = {} /\ dropped = {} /\ reported = {} /\ closing = FALSE

Issue ==
    /\ issued' = issued + 1
    /\ UNCHANGED <<handled, atWork, done, dropped, reported, closing>>

Handle ==
    /\ ~atWork
    /\ Len(handled) + 1 \in 1..issued \ dropped
    /\ handled' = Append(handled, Len(handled) + 1)
    /\ atWork' = TRUE
    /\ UNCHANGED <<issued, done, dropped, reported, closing>>

Answer ==
    /\ atWork
    /\ done' = done \cup {Len(handled)}
    /\ atWork' = FALSE
    /\ UNCHANGED <<issued, handled, dropped, reported, closing>>

Report ==
    /\ issued \in done \cup dropped
    /\ reported' = reported \cup {issued}
    /\ UNCHANGED <<issued, handled, atWork, done, dropped, closing>>

\* Some of the commands that have had no answer get none.
Close(S) ==
    /\ S \subseteq 1..issued \ (done \cup dropped)
    /\ dropped' = dropped \cup S
    /\ atWork' = (atWork /\ Len(handled) \notin S)
    /\ closing' = TRUE
    /\ UNCHANGED <<issued, handled, done, reported>>

Next == Issue \/ Handle \/ Answer \/ Report \/ \E S \in SUBSET (1..issued) : Close(S)

vars == <<issued, handled, atWork, done, dropped, reported, closing>>
Spec == Init /\ [][Next]_vars
=============================================================================
