----------------------------- MODULE ConsoleProofs -----------------------------
(* What the user gets to see, for any number of lines typed and any capacity   *)
(* of the broadcast channel.                                                   *)
EXTENDS Console, NodeRuntimeProofs

\* A step of the console is a step of the node's tasks, or none.
LEMMA StepIsRuntimeStep == [ConsoleNext]_allVars => [Next]_vars
BY DEF ConsoleNext, Next, Reads, Issues, Tui, Finishes, Chats, Receives, Shows, CatchesUp,
       allVars, vars

\* The console adds the channel to the node's tasks and changes nothing of what
\* they do: what holds of them holds with it.
THEOREM ConsoleIsRuntime == ConsoleSpec => Spec
<1>1. ConsoleInit => Init
  BY DEF ConsoleInit
<1> QED BY <1>1, StepIsRuntimeStep, PTL DEF ConsoleSpec, Spec

\* So a node with its console is a command service, whatever its channel drops.
COROLLARY ConsoleServes ==
    ConsoleSpec => CommandSpec /\ [](HandledInOrder /\ ReportedWasHandled /\ NoneLost)
  BY ConsoleIsRuntime, ImplementsService, CommandsKeepTheirOrder, ReportsAreTrue,
     CommandsAreAccountedFor, PTL

-----------------------------------------------------------------------------
\* What the ring keeps.
LEMMA SendKeeps ==
    ASSUME NEW S, signals \in Seq(S), Len(signals) =< Capacity, NEW line \in S, Send(line)
    PROVE  /\ signals' \in Seq(S) /\ Len(signals') =< Capacity
           /\ \E i \in 1..Len(signals') : signals'[i] = line
           /\ \A i \in 1..Len(signals') :
                signals'[i] = line \/ \E k \in 1..Len(signals) : signals'[i] = signals[k]
<1> DEFINE l == Len(signals)
           all == Append(signals, line)
<1>1. l \in Nat /\ Capacity \in Nat /\ Capacity > 0
  BY ConsoleAssumption
<1>2. /\ all \in Seq(S) /\ Len(all) = l + 1 /\ all[l + 1] = line
      /\ \A i \in 1..l : all[i] = signals[i]
  OBVIOUS
<1>3. CASE l < Capacity
  <2>1. signals' = all
    BY <1>1, <1>2, <1>3 DEF Send, Kept
  <2>2. l + 1 \in 1..Len(signals') /\ l + 1 =< Capacity
    BY <1>1, <1>2, <1>3, <2>1
  <2> QED BY <1>1, <1>2, <2>1, <2>2
<1>4. CASE l = Capacity
  <2>1. signals' = Tail(all)
    BY <1>1, <1>2, <1>4 DEF Send, Kept
  <2>2. /\ signals' \in Seq(S) /\ Len(signals') = l
        /\ \A i \in 1..l : signals'[i] = all[i + 1]
    BY <1>1, <1>2, <2>1
  <2>3. l \in 1..l /\ signals'[l] = line
    BY <1>1, <1>2, <1>4, <2>2
  <2>4. \A i \in 1..l : i = l \/ i + 1 \in 1..l
    BY <1>1
  <2> QED BY <1>1, <1>2, <1>4, <2>2, <2>3, <2>4
<1> QED BY <1>1, <1>3, <1>4

\* A command that is done has been handled, and is not the one at hand.
DoneInv ==
    /\ \A c \in done : c \in 1..Len(handled)
    /\ worker \in {"busy", "hung"} => Len(handled) \notin done

\* Commands are done in the order they are handled.
LEMMA DoneStep ==
    ASSUME Basics, HandledInOrder, DoneInv, [Next]_vars
    PROVE  DoneInv'
<1> USE DEF DoneInv
<1>1. Len(handled) \in Nat /\ (worker \in {"busy", "hung"} => handled # <<>>)
  BY Lengths DEF Basics, WorkInv
<1>2. CASE TakeJob
  <2>1. Len(handled') = Len(handled) + 1 /\ done' = done
    BY <1>2 DEF TakeJob, Basics, TypeOK
  <2>2. 1..Len(handled) \subseteq 1..(Len(handled) + 1) /\ Len(handled) + 1 \notin 1..Len(handled)
    BY <1>1
  <2> QED BY <2>1, <2>2
<1>3. CASE JobDone
  <2>1. Len(handled) \in 1..Len(handled) /\ AtHand = {Len(handled)}
    BY <1>1, <1>3 DEF JobDone, AtHand, HandledInOrder, Basics, TypeOK
  <2> QED BY <1>3, <2>1 DEF JobDone
<1>4. CASE UNCHANGED <<done, handled, worker>> \/ (UNCHANGED <<done, handled>> /\ worker' = "stopped")
  BY <1>4
<1>5. CASE JobHangs
  BY <1>5 DEF JobHangs
<1> QED
  BY <1>2, <1>3, <1>4, <1>5
  DEF Next, Tui, Run, Worker, vars, Type, ReadExit, ReadCommand, Resume, DrawFails, Forward,
      BeginShutdown, PeerEnded, AwaitPeer, AwaitWorker, Leave, WorkerStops, PeerMoves

\* What the channel carries, besides its types: the lines of commands done.
ConsoleInv ==
    /\ ConsoleTypeOK
    /\ \A i \in 1..Len(signals) : signals[i] = Chatter \/ signals[i] \in done
    /\ OutcomeIsKept

\* The last command is at hand or done, never both.
LEMMA LastIsDone ==
    ASSUME Basics, HandledInOrder, DoneInv, issued \in done
    PROVE  worker \notin {"busy", "hung"} /\ issued \in Numbers /\ issued # Chatter
<1>1. issued \in 1..Len(handled) /\ Len(handled) \in Nat /\ Len(handled) =< issued
  BY Lengths DEF DoneInv, HandledInOrder
<1>2. issued = Len(handled)
  BY <1>1
<1> QED BY <1>1, <1>2 DEF DoneInv, Basics, TypeOK, Chatter, Numbers

\* Steps that leave the channel alone, and issue and end no command.
LEMMA QuietKeeps ==
    ASSUME ConsoleInv, Quiet, UNCHANGED <<issued, done>>
    PROVE  ConsoleInv'
BY DEF ConsoleInv, ConsoleTypeOK, OutcomeIsKept, Quiet, console

\* No line, however many are sent, costs the last line of the last command.
LEMMA ConsoleStep ==
    ASSUME Basics, Basics', HandledInOrder, HandledInOrder', DoneInv, DoneInv', ConsoleInv,
           [ConsoleNext]_allVars
    PROVE  ConsoleInv'
<1> USE DEF ConsoleInv, ConsoleTypeOK
<1>1. CASE Chats
  <2>1. Send(Chatter) /\ UNCHANGED <<vars, kinds, shown, leftover>>
    BY <1>1 DEF Chats
  <2>2. UNCHANGED <<issued, done>>
    BY <2>1 DEF vars
  <2>3. signals' \in Seq(Numbers \cup {Chatter}) /\ Len(signals') =< Capacity
    BY <2>1, SendKeeps
  <2>4. \A i \in 1..Len(signals') :
            signals'[i] = Chatter \/ \E k \in 1..Len(signals) : signals'[i] = signals[k]
    BY <2>1, SendKeeps
  <2>5. OutcomeIsKept'
    <3>1. ~(issued \in done /\ ~leftover)
      BY <1>1, LastIsDone DEF Chats, Lists, Fetches
    <3> QED BY <2>1, <2>2, <3>1 DEF OutcomeIsKept
  <2>6. lagged' \in BOOLEAN
    BY <2>1 DEF Send
  <2> QED BY <2>1, <2>2, <2>3, <2>4, <2>5, <2>6
<1>2. CASE Finishes
  <2>1. /\ worker = "busy" /\ Len(handled) \in 1..Len(handled) /\ Len(handled) =< issued
        /\ Current = Len(handled) /\ Current \in Numbers
    BY <1>2, Lengths DEF Finishes, JobDone, Current, HandledInOrder, Basics, WorkInv, TypeOK
  <2>2. done' = done \cup {Current} /\ UNCHANGED <<issued, kinds, shown>> /\ Send(Current)
    BY <1>2, <2>1 DEF Finishes, JobDone, AtHand, Current
  <2>3. /\ signals' \in Seq(Numbers \cup {Chatter}) /\ Len(signals') =< Capacity
        /\ \E i \in 1..Len(signals') : signals'[i] = Current
        /\ \A i \in 1..Len(signals') :
             signals'[i] = Current \/ \E k \in 1..Len(signals) : signals'[i] = signals[k]
    BY <2>1, <2>2, SendKeeps
  <2>4. issued \notin done
    BY <2>1, LastIsDone
  <2>5. OutcomeIsKept'
    BY <2>2, <2>3, <2>4 DEF OutcomeIsKept
  <2>6. lagged' \in BOOLEAN /\ leftover' \in BOOLEAN
    BY <1>2, <2>2 DEF Send, Finishes
  <2> QED BY <2>2, <2>3, <2>5, <2>6
<1>3. CASE Shows
  <2>1. /\ signals # <<>> /\ signals' = Tail(signals)
        /\ shown' = shown \cup ({Head(signals)} \ {Chatter})
        /\ UNCHANGED <<issued, done, kinds, lagged, leftover>>
    BY <1>3 DEF Shows, vars
  <2>2. /\ Len(signals) \in Nat \ {0} /\ Len(signals') = Len(signals) - 1
        /\ Head(signals) = signals[1] /\ signals' \in Seq(Numbers \cup {Chatter})
        /\ \A i \in 1..(Len(signals) - 1) : signals'[i] = signals[i + 1]
    BY <2>1
  <2>3. /\ \A i \in 1..Len(signals') : i + 1 \in 1..Len(signals)
        /\ \A i \in 1..Len(signals) : i = 1 \/ (i - 1 \in 1..Len(signals') /\ (i - 1) + 1 = i)
        /\ Len(signals') =< Capacity
    BY <2>2, ConsoleAssumption
  <2>4. 1 \in 1..Len(signals)
    BY <2>2
  <2>5. shown' \subseteq done
    BY <2>1, <2>2, <2>4
  <2>6. OutcomeIsKept'
    <3> SUFFICES ASSUME issued \in done, ~leftover
                 PROVE  issued \in shown' \/ \E i \in 1..Len(signals') : signals'[i] = issued
      BY <2>1 DEF OutcomeIsKept
    <3>1. CASE issued \in shown
      BY <2>1, <3>1
    <3>2. ASSUME NEW i \in 1..Len(signals), signals[i] = issued
          PROVE  issued \in shown' \/ \E k \in 1..Len(signals') : signals'[k] = issued
      <4>1. CASE i = 1
        BY <2>1, <2>2, <3>2, <4>1, LastIsDone
      <4>2. CASE i # 1
        <5>1. i - 1 \in 1..Len(signals') /\ (i - 1) + 1 = i
          BY <2>3, <4>2
        <5>2. signals'[i - 1] = signals[i]
          BY <2>2, <5>1
        <5> QED BY <3>2, <5>1, <5>2
      <4> QED BY <4>1, <4>2
    <3> QED BY <3>1, <3>2 DEF OutcomeIsKept
  <2> QED BY <2>1, <2>2, <2>3, <2>5, <2>6
<1>4. CASE CatchesUp
  BY <1>4 DEF CatchesUp, vars, OutcomeIsKept
<1>5. CASE Issues
  <2>1. CASE issued' = issued
    BY <1>5, <2>1 DEF Issues, ReadCommand, OutcomeIsKept
  <2>2. CASE issued' # issued
    <3>1. /\ issued' = issued + 1 /\ done' = done /\ kinds' = Append(kinds, Head(keys))
          /\ Head(keys) \in Commands /\ UNCHANGED <<signals, lagged, shown, leftover>>
      BY <1>5, <2>2 DEF Issues, ReadCommand, Basics, TypeOK
    <3>2. issued + 1 \notin done
      BY Lengths DEF DoneInv, HandledInOrder
    <3> QED BY <3>1, <3>2 DEF OutcomeIsKept
  <2> QED BY <2>1, <2>2
<1>6. CASE ReadExit /\ Quiet
  BY <1>6, QuietKeeps DEF ReadExit
<1>7. CASE (Resume \/ DrawFails \/ JobHangs \/ PeerMoves) /\ Quiet
  BY <1>7, QuietKeeps DEF Resume, DrawFails, JobHangs, PeerMoves
<1>8. CASE Run /\ Quiet
  BY <1>8, QuietKeeps DEF Run, Forward, BeginShutdown, PeerEnded, AwaitPeer, AwaitWorker, Leave
<1>9. CASE Worker /\ Quiet
  BY <1>9, QuietKeeps DEF Worker, TakeJob, WorkerStops
<1>10. ASSUME NEW k \in Commands \cup {"exit"}, Type(k), Quiet
       PROVE  ConsoleInv'
  BY <1>10, QuietKeeps DEF Type
<1>11. CASE UNCHANGED allVars
  BY <1>11, QuietKeeps DEF allVars, vars, Quiet
<1> QED
  BY <1>1, <1>2, <1>3, <1>4, <1>5, <1>6, <1>7, <1>8, <1>9, <1>10, <1>11
  DEF ConsoleNext, Reads, Receives

\* So it is in every state.
LEMMA ConsoleInvariant == ConsoleSpec => []ConsoleInv
<1>1. ConsoleInit => DoneInv /\ ConsoleInv
  <2> SUFFICES ASSUME ConsoleInit PROVE DoneInv /\ ConsoleInv
    OBVIOUS
  <2>1. /\ kinds = <<>> /\ signals = <<>> /\ Len(kinds) = 0 /\ Len(signals) = 0
        /\ kinds \in Seq(Commands) /\ signals \in Seq(Numbers \cup {Chatter})
        /\ 0 =< Capacity
    BY ConsoleAssumption DEF ConsoleInit
  <2>2. DoneInv
    BY DEF ConsoleInit, Init, DoneInv
  <2>3. lagged \in BOOLEAN /\ leftover \in BOOLEAN
    BY DEF ConsoleInit
  <2>4. issued = 0 /\ done = {} /\ shown = {}
    BY DEF ConsoleInit, Init
  <2>5. \A i \in 1..Len(signals) : FALSE
    BY <2>1
  <2> QED BY <2>1, <2>2, <2>3, <2>4, <2>5 DEF ConsoleInv, ConsoleTypeOK, OutcomeIsKept
<1>2. Basics /\ HandledInOrder /\ DoneInv /\ [ConsoleNext]_allVars => DoneInv'
  BY DoneStep, StepIsRuntimeStep
<1>3. Basics /\ Basics' /\ HandledInOrder /\ HandledInOrder' /\ DoneInv /\ DoneInv' /\ ConsoleInv
          /\ [ConsoleNext]_allVars => ConsoleInv'
  BY ConsoleStep
<1>4. ConsoleSpec => []Basics /\ []HandledInOrder
  BY ConsoleIsRuntime, BasicsHold, CommandsKeepTheirOrder, PTL
<1> QED BY <1>1, <1>2, <1>3, <1>4, PTL DEF ConsoleSpec

\* The channel never holds more than its capacity, and what is on the console is
\* about commands that are done.
THEOREM ConsoleTypes == ConsoleSpec => []ConsoleTypeOK
<1>1. ConsoleInv => ConsoleTypeOK
  BY DEF ConsoleInv
<1> QED BY <1>1, ConsoleInvariant, PTL

\* However many lines go through the channel while the interface awaits an answer,
\* the one that says how the last command ended is not among those dropped, as long
\* as no download has failed.
THEOREM OutcomesAreKept == ConsoleSpec => []OutcomeIsKept
<1>1. ConsoleInv => OutcomeIsKept
  BY DEF ConsoleInv
<1> QED BY <1>1, ConsoleInvariant, PTL
=============================================================================
