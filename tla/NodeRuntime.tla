----------------------------- MODULE NodeRuntime ------------------------------
(***************************************************************************)
(* The tasks of a node and how it stops: run and command_loop                *)
(* (node/src/node_runtime.rs), the worker's loop (transfer_worker.rs), the   *)
(* block server's life (peer_server.rs) and the terminal interface (tui.rs). *)
(*                                                                           *)
(* A command goes from the keyboard to the interface, through the command    *)
(* channel to command_loop, through the worker's channel to the worker; its  *)
(* answer comes back over a oneshot channel, which the interface awaits for  *)
(* all commands but `download'.  Commands are numbered as they are issued.   *)
(*                                                                           *)
(* BroadcastSignal::Shutdown is sent by nobody, so the task that forwards it *)
(* does nothing and is left out.                                             *)
(***************************************************************************)
EXTENDS Naturals, Sequences

CONSTANTS Commands,   \* commands of the instance: "update", "list", "offline", "download"
          MaxKeys,    \* bound on the lines typed
          MayHang     \* whether a request of the worker may stay without an answer

ASSUME RuntimeAssumption ==
    /\ Commands \subseteq {"update", "list", "offline", "download"}
    /\ MaxKeys \in Nat /\ MayHang \in BOOLEAN

VARIABLES keys,      \* lines typed and not read yet
          typed,     \* how many lines have been typed
          tui,       \* the interface: "reading", "waiting" for an answer, or "ended"
          commands,  \* the command channel
          jobs,      \* the worker's channel
          worker,    \* "idle", "busy", "hung" or "stopped"
          peer,      \* block server: "starting", "serving", "failed" or "stopped"
          stop,      \* the shutdown watch
          stage,     \* run(): "running", "awaitPeer", "awaitWorker", "leaving", then "gone"
          issued,    \* number of commands issued
          handled,   \* history: commands the worker has taken, in order
          done,      \* commands whose answer was sent
          dropped,   \* commands whose sender was dropped
          reported   \* history: commands the interface has called complete

vars == <<keys, typed, tui, commands, jobs, worker, peer, stop, stage, issued, handled,
          done, dropped, reported>>

Shutdown == 0       \* RuntimeCommand::Shutdown; the others go by their number
Members(q) == {q[i] : i \in 1..Len(q)}

Init ==
    /\ keys = <<>> /\ typed = 0 /\ tui = "reading"
    /\ commands = <<>> /\ jobs = <<>>
    /\ worker = "idle" /\ peer = "starting"
    /\ stop = FALSE /\ stage = "running"
    /\ issued = 0 /\ handled = <<>>
    /\ done = {} /\ dropped = {} /\ reported = {}

-----------------------------------------------------------------------------
(* The interface.                                                           *)

\* The user enters a line, or presses Esc ("exit").
Type(k) ==
    /\ stage # "gone" /\ typed < MaxKeys
    /\ keys' = Append(keys, k)
    /\ typed' = typed + 1
    /\ UNCHANGED <<tui, commands, jobs, worker, peer, stop, stage, issued, handled, done,
                   dropped, reported>>

\* run() drops its end of the command channel when it returns.
Open == stage \notin {"leaving", "gone"}

\* exit: command_tx.send(RuntimeCommand::Shutdown)
ReadExit ==
    /\ tui = "reading" /\ stage # "gone"
    /\ keys # <<>> /\ Head(keys) = "exit"
    /\ keys' = Tail(keys)
    /\ commands' = IF Open THEN Append(commands, Shutdown) ELSE commands
    /\ UNCHANGED <<typed, tui, jobs, worker, peer, stop, stage, issued, handled, done,
                   dropped, reported>>

\* Mutant: the input line is not cleared.
ReadCommand_Kept ==
    /\ tui = "reading" /\ Open
    /\ keys # <<>> /\ Head(keys) # "exit"
    /\ issued' = issued + 1
    /\ commands' = Append(commands, issued')
    /\ tui' = IF Head(keys) = "download" THEN "reading" ELSE "waiting"
    /\ UNCHANGED <<keys, typed, jobs, worker, peer, stop, stage, handled, done, dropped,
                   reported>>

\* handle_command: unless the channel is closed the command is sent, and awaited
\* if it is no download.
ReadCommand ==
    /\ tui = "reading" /\ stage # "gone"
    /\ keys # <<>> /\ Head(keys) # "exit"
    /\ keys' = Tail(keys)
    /\ \/ /\ Open
          /\ issued' = issued + 1
          /\ commands' = Append(commands, issued')
          /\ tui' = IF Head(keys) = "download" THEN "reading" ELSE "waiting"
       \/ ~Open /\ UNCHANGED <<issued, commands, tui>>
    /\ UNCHANGED <<typed, jobs, worker, peer, stop, stage, handled, done, dropped, reported>>

\* Mutant: the interface does not await the answer.
Answered_AtOnce == {issued}

\* let _ = done_rx.await: an answer, or the loss of its sender, ends the wait
Answered == done \cup dropped

Resume ==
    /\ tui = "waiting" /\ stage # "gone"
    /\ issued \in Answered
    /\ tui' = "reading"
    /\ reported' = reported \cup {issued}
    /\ UNCHANGED <<keys, typed, commands, jobs, worker, peer, stop, stage, issued, handled,
                   done, dropped>>

\* terminal.draw returns an error.
DrawFails ==
    /\ tui = "reading" /\ stage # "gone"
    /\ tui' = "ended"
    /\ UNCHANGED <<keys, typed, commands, jobs, worker, peer, stop, stage, issued, handled,
                   done, dropped, reported>>

-----------------------------------------------------------------------------
(* run() and command_loop.                                                  *)

\* Mutant: a command overtakes those the worker has not taken yet.
Queued_First(q, c) == <<c>> \o q

\* worker_tx.send
Queued(q, c) == Append(q, c)

\* The worker outlives the loop, so the send succeeds.
Forward ==
    /\ stage = "running"
    /\ commands # <<>> /\ Head(commands) # Shutdown
    /\ commands' = Tail(commands)
    /\ jobs' = Queued(jobs, Head(commands))
    /\ UNCHANGED <<keys, typed, tui, worker, peer, stop, stage, issued, handled, done,
                   dropped, reported>>

\* The loop ends, or the interface has: run() goes on to wait for the others.
BeginShutdown ==
    /\ stage = "running"
    /\ \/ commands # <<>> /\ Head(commands) = Shutdown /\ commands' = Tail(commands)
       \/ tui = "ended" /\ UNCHANGED commands
    /\ stop' = TRUE
    /\ stage' = "awaitPeer"
    /\ UNCHANGED <<keys, typed, tui, jobs, worker, peer, issued, handled, done, dropped,
                   reported>>

\* run() returns: the command channel goes, with what is in it.
Return(lost) ==
    /\ stage' = "leaving"
    /\ commands' = <<>>
    /\ dropped' = dropped \cup lost \cup (Members(commands) \ {Shutdown})

\* The block server has failed: run() returns the error and waits for nobody.
PeerEnded ==
    /\ stage = "running" /\ peer = "failed"
    /\ stop' = TRUE
    /\ Return({})
    /\ UNCHANGED <<keys, typed, tui, jobs, worker, peer, issued, handled, done, reported>>

\* Mutants: wait as long as it takes.
AwaitPeer_Patient ==
    /\ stage = "awaitPeer" /\ peer \in {"failed", "stopped"}
    /\ stage' = "awaitWorker"
    /\ UNCHANGED <<keys, typed, tui, commands, jobs, worker, peer, stop, issued, handled,
                   done, dropped, reported>>
AwaitWorker_Patient ==
    /\ stage = "awaitWorker" /\ worker = "stopped"
    /\ Return({})
    /\ UNCHANGED <<keys, typed, tui, jobs, worker, peer, stop, issued, handled, done, reported>>

\* await_task: the task has ended, or is aborted after two seconds.
AwaitPeer ==
    /\ stage = "awaitPeer"
    /\ peer' = IF peer = "failed" THEN "failed" ELSE "stopped"
    /\ stage' = "awaitWorker"
    /\ UNCHANGED <<keys, typed, tui, commands, jobs, worker, stop, issued, handled, done,
                   dropped, reported>>

\* What the worker has not answered: the command it is at, and its queue.
AtHand == IF worker \in {"busy", "hung"} THEN {handled[Len(handled)]} ELSE {}

\* Mutant: the command it is at is forgotten.
Unanswered_QueueOnly == Members(jobs)

Unanswered == AtHand \cup Members(jobs)

AwaitWorker ==
    /\ stage = "awaitWorker"
    /\ worker' = "stopped" /\ jobs' = <<>>
    /\ Return(Unanswered)
    /\ UNCHANGED <<keys, typed, tui, peer, stop, issued, handled, done, reported>>

\* main returns, and the tasks that are left with it.
Leave ==
    /\ stage = "leaving"
    /\ stage' = "gone"
    /\ UNCHANGED <<keys, typed, tui, commands, jobs, worker, peer, stop, issued, handled,
                   done, dropped, reported>>

-----------------------------------------------------------------------------
(* The worker and the block server.                                         *)

\* select! may take a command although the shutdown is signalled.
TakeJob ==
    /\ worker = "idle" /\ jobs # <<>> /\ stage # "gone"
    /\ worker' = "busy"
    /\ jobs' = Tail(jobs)
    /\ handled' = Append(handled, Head(jobs))
    /\ UNCHANGED <<keys, typed, tui, commands, peer, stop, stage, issued, done, dropped,
                   reported>>

\* handle ends, with a result or an error, and finish_command answers.
JobDone ==
    /\ worker = "busy" /\ stage # "gone"
    /\ worker' = "idle"
    /\ done' = done \cup AtHand
    /\ UNCHANGED <<keys, typed, tui, commands, jobs, peer, stop, stage, issued, handled,
                   dropped, reported>>

\* A request to the tracker or to a peer is never answered: there is no timeout.
JobHangs ==
    /\ MayHang /\ worker = "busy" /\ stage # "gone"
    /\ worker' = "hung"
    /\ UNCHANGED <<keys, typed, tui, commands, jobs, peer, stop, stage, issued, handled,
                   done, dropped, reported>>

\* Mutant: the queue outlives the worker, and with it the senders of its commands.
WorkerStops_QueueKept ==
    /\ worker = "idle" /\ stop /\ stage # "gone"
    /\ worker' = "stopped" /\ jobs' = <<>>
    /\ UNCHANGED <<keys, typed, tui, commands, peer, stop, stage, issued, handled, done,
                   dropped, reported>>

\* The loop ends, and its queue is dropped unanswered.
WorkerStops ==
    /\ worker = "idle" /\ stop /\ stage # "gone"
    /\ worker' = "stopped" /\ jobs' = <<>>
    /\ dropped' = dropped \cup Unanswered
    /\ UNCHANGED <<keys, typed, tui, commands, peer, stop, stage, issued, handled, done,
                   reported>>

\* The listener is bound, or cannot be; on shutdown the server ends once its
\* connections are closed.
PeerMoves ==
    /\ stage # "gone"
    /\ \/ peer = "starting" /\ peer' = "failed"
       \/ peer = "starting" /\ peer' = IF stop THEN "stopped" ELSE "serving"
       \/ peer = "serving" /\ stop /\ peer' = "stopped"
    /\ UNCHANGED <<keys, typed, tui, commands, jobs, worker, stop, stage, issued, handled,
                   done, dropped, reported>>

-----------------------------------------------------------------------------
Tui == ReadExit \/ ReadCommand \/ Resume
Run == Forward \/ BeginShutdown \/ PeerEnded \/ AwaitPeer \/ AwaitWorker \/ Leave
Worker == TakeJob \/ WorkerStops

Next ==
    \/ \E k \in Commands \cup {"exit"} : Type(k)
    \/ Tui \/ DrawFails \/ Run \/ Worker \/ JobDone \/ JobHangs \/ PeerMoves

Spec == Init /\ [][Next]_vars

\* tokio runs every task that can go on, timers fire, and a request that does
\* not hang is answered.  Open connections may keep the block server for ever.
FairSpec == Spec /\ WF_vars(Tui) /\ WF_vars(Run) /\ WF_vars(Worker) /\ WF_vars(JobDone)

-----------------------------------------------------------------------------
Numbers == 1..MaxKeys

\* The tasks, the channels and the histories are well formed.
TypeOK ==
    /\ keys \in Seq(Commands \cup {"exit"}) /\ typed \in 0..MaxKeys
    /\ tui \in {"reading", "waiting", "ended"}
    /\ commands \in Seq(Numbers \cup {Shutdown}) /\ jobs \in Seq(Numbers)
    /\ worker \in {"idle", "busy", "hung", "stopped"}
    /\ peer \in {"starting", "serving", "failed", "stopped"}
    /\ stop \in BOOLEAN
    /\ stage \in {"running", "awaitPeer", "awaitWorker", "leaving", "gone"}
    /\ issued \in 0..MaxKeys /\ handled \in Seq(Numbers)
    /\ done \subseteq Numbers /\ dropped \subseteq Numbers /\ reported \subseteq Numbers

\* Through both channels and whatever stops when: the worker takes the commands
\* in the order they were issued, skips none and takes none twice.
HandledInOrder == Len(handled) =< issued /\ \A i \in 1..Len(handled) : handled[i] = i

\* A command is called complete only after the worker has dealt with it, unless
\* the node is stopping.
ReportedWasHandled == reported \subseteq done \/ stop

\* Every command issued is on its way, at the worker, answered or dropped: nobody
\* waits for an answer that nobody can give any more.
NoneLost ==
    1..issued = (Members(commands) \ {Shutdown}) \cup Unanswered \cup done \cup dropped

\* Whatever stops, fails or hangs when, the tasks and channels together are a service
\* that deals with the commands in order and never answers one it gives up.
Promise == INSTANCE CommandService
               WITH atWork <- worker \in {"busy", "hung"}, closing <- stop
CommandSpec == Promise!Spec

\* A shutdown that was asked for ends the process, even when a request hangs and
\* peers keep their connections open.
ShutdownEnds == stop \/ Shutdown \in Members(commands) ~> stage = "gone"

ExitTyped == "exit" \in Members(keys)

\* An exit that was typed ends the process, whatever was entered before it, unless
\* a request hangs.
ExitIsObeyed == ExitTyped ~> stage = "gone" \/ worker = "hung"

\* The help text's promise: exit stops this node process.
ExitStops == ExitTyped ~> stage = "gone"
=============================================================================
