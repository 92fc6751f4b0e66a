------------------------------- MODULE Console --------------------------------
(***************************************************************************)
(* What the user gets to see: the worker and its block tasks send lines over  *)
(* a broadcast channel of bounded capacity (node/src/node_runtime.rs), which  *)
(* the interface does not read while it awaits the answer to a command        *)
(* (tui.rs).  `Publish complete.' is written whatever has happened: how a     *)
(* command ended shows only in the last line the worker sends for it.         *)
(*                                                                            *)
(* The module adds the channel to NodeRuntime, each of whose steps it takes.  *)
(***************************************************************************)
EXTENDS NodeRuntime

CONSTANT Capacity    \* messages the broadcast channel holds: 32 in the code

ASSUME ConsoleAssumption == Capacity \in Nat \ {0}

VARIABLES kinds,     \* what each command issued is
          signals,   \* lines the interface has not received
          lagged,    \* whether the channel has dropped lines since it last read
          shown,     \* the commands whose last line is on the console
          leftover   \* history: a download has failed, with block tasks left running

console == <<kinds, signals, lagged, shown, leftover>>
allVars == <<vars, console>>

\* The last line of a command is its number; all other lines are alike.
Chatter == 0

ConsoleInit ==
    /\ Init
    /\ kinds = <<>> /\ signals = <<>> /\ lagged = FALSE
    /\ shown = {} /\ leftover = FALSE

-----------------------------------------------------------------------------
\* Mutants: the channel keeps one line more; it drops the new line.
Kept_OneMore(q) == IF Len(q) > Capacity + 1 THEN Tail(q) ELSE q
Kept_DropsNew(q) == IF Len(q) > Capacity THEN SubSeq(q, 1, Capacity) ELSE q

\* A full channel drops the oldest line.
Kept(q) == IF Len(q) > Capacity THEN Tail(q) ELSE q

\* broadcast_tx.send never waits.
Send(line) ==
    /\ signals' = Kept(Append(signals, line))
    /\ lagged' = (lagged \/ Len(signals) >= Capacity)

Current == handled[Len(handled)]

\* list_tracker_files sends a line for each file.
Lists == worker = "busy" /\ kinds[Current] = "list"

\* The block tasks send lines and their progress.  They go on when another block has
\* failed the download, and when a request hangs.
Fetches == leftover \/ (worker \in {"busy", "hung"} /\ kinds[Current] = "download")

Chats ==
    /\ stage # "gone"
    /\ Lists \/ Fetches
    /\ Send(Chatter)
    /\ UNCHANGED <<vars, kinds, shown, leftover>>

\* handle sends the last line, an error or not, and then the answer.  A download
\* that fails drops the handles of its tasks, which does not end them.
Finishes ==
    /\ JobDone
    /\ Send(Current)
    /\ \/ UNCHANGED leftover
       \/ kinds[Current] = "download" /\ leftover' = TRUE
    /\ UNCHANGED <<kinds, shown>>

\* The interface receives a line.
Shows ==
    /\ tui = "reading" /\ stage # "gone"
    /\ ~lagged /\ signals # <<>>
    /\ signals' = Tail(signals)
    /\ shown' = shown \cup ({Head(signals)} \ {Chatter})
    /\ UNCHANGED <<vars, kinds, lagged, leftover>>

\* Mutant: the interface subscribes again when it has lagged.
CatchesUp_Anew ==
    /\ tui = "reading" /\ stage # "gone"
    /\ lagged
    /\ lagged' = FALSE /\ signals' = <<>>
    /\ UNCHANGED <<vars, kinds, shown, leftover>>

\* recv returns Lagged, which is no Ok(signal): the branch is off for this round of
\* the loop, and the next one goes on with the oldest line kept.
CatchesUp ==
    /\ tui = "reading" /\ stage # "gone"
    /\ lagged
    /\ lagged' = FALSE
    /\ UNCHANGED <<vars, kinds, signals, shown, leftover>>

Issues ==
    /\ ReadCommand
    /\ kinds' = IF issued' = issued THEN kinds ELSE Append(kinds, Head(keys))
    /\ UNCHANGED <<signals, lagged, shown, leftover>>

-----------------------------------------------------------------------------
Quiet == UNCHANGED console
Reads == Issues \/ (ReadExit /\ Quiet) \/ (Resume /\ Quiet)
Receives == Shows \/ CatchesUp

ConsoleNext ==
    \/ \E k \in Commands \cup {"exit"} : Type(k) /\ Quiet
    \/ Reads
    \/ DrawFails /\ Quiet
    \/ Run /\ Quiet
    \/ Worker /\ Quiet
    \/ Finishes
    \/ JobHangs /\ Quiet
    \/ PeerMoves /\ Quiet
    \/ Chats
    \/ Receives

ConsoleSpec == ConsoleInit /\ [][ConsoleNext]_allVars

\* As in NodeRuntime; and the interface, when it awaits nothing, receives.
FairConsoleSpec ==
    /\ ConsoleSpec
    /\ WF_allVars(Reads) /\ WF_allVars(Run /\ Quiet) /\ WF_allVars(Worker /\ Quiet)
    /\ WF_allVars(Finishes) /\ WF_allVars(Receives)

-----------------------------------------------------------------------------
\* The channel holds as many lines as it may, and the commands have their kinds.
ConsoleTypeOK ==
    /\ kinds \in Seq(Commands) /\ Len(kinds) = issued
    /\ signals \in Seq(Numbers \cup {Chatter}) /\ Len(signals) =< Capacity
    /\ lagged \in BOOLEAN /\ leftover \in BOOLEAN
    /\ shown \subseteq done

\* How the last command ended is on the console or still in the channel, however
\* many lines were sent while the interface awaited its answer, unless block tasks
\* of a failed download are about, which may still fill the channel.
OutcomeIsKept ==
    issued \in done /\ ~leftover =>
        issued \in shown \/ \E i \in 1..Len(signals) : signals[i] = issued

\* And it gets on the console, unless the node stops or a further command is
\* entered.
OutcomeIsShown ==
    \A c \in Numbers :
        c = issued /\ c \in done /\ ~leftover
            ~> c \in shown \/ issued # c \/ tui = "ended" \/ stage = "gone"
=============================================================================
