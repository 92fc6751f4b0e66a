-------------------------- MODULE NodeRuntimeProofs ---------------------------
(* What holds of a node's tasks and channels for any number of lines typed,   *)
(* whatever hangs, fails or is aborted.                                       *)
EXTENDS NodeRuntime, TLAPS

\* The commands on the way carry the numbers that come next.
Clear(q, i) == \A j \in 1..i : q[j] # Shutdown

QueueInv ==
    /\ \A i \in 1..Len(handled) : handled[i] = i
    /\ \A i \in 1..Len(jobs) : jobs[i] = Len(handled) + i
    /\ Len(handled) + Len(jobs) =< issued
    /\ \A i \in 1..Len(commands) : commands[i] =< issued
    /\ stage = "running" =>
          /\ \A i \in 1..Len(commands) :
                Clear(commands, i) => commands[i] = Len(handled) + Len(jobs) + i
          /\ Clear(commands, Len(commands)) => issued = Len(handled) + Len(jobs) + Len(commands)

\* Each command came from a line that was typed.
CountInv == issued + Len(keys) =< typed

\* Nothing is aborted or dropped before the shutdown.
StopInv ==
    /\ stop <=> stage # "running"
    /\ ~stop => dropped = {} /\ worker # "stopped"

\* The worker is at the command it took last.
WorkInv == worker \in {"busy", "hung"} => handled # <<>>

-----------------------------------------------------------------------------
\* Appending to a queue adds one member.
LEMMA MembersAppend ==
    ASSUME NEW S, NEW q \in Seq(S), NEW x \in S
    PROVE  Members(Append(q, x)) = Members(q) \cup {x}
<1>1. /\ Len(q) \in Nat /\ Len(Append(q, x)) = Len(q) + 1
      /\ Append(q, x)[Len(q) + 1] = x
      /\ \A i \in 1..Len(q) : Append(q, x)[i] = q[i]
  OBVIOUS
<1>2. /\ \A i \in 1..Len(q) : i \in 1..(Len(q) + 1)
      /\ Len(q) + 1 \in 1..(Len(q) + 1)
      /\ \A i \in 1..(Len(q) + 1) : i \in 1..Len(q) \/ i = Len(q) + 1
  BY <1>1
<1>3. Members(Append(q, x)) \subseteq Members(q) \cup {x}
  BY <1>1, <1>2 DEF Members
<1>4. Members(q) \cup {x} \subseteq Members(Append(q, x))
  BY <1>1, <1>2 DEF Members
<1> QED BY <1>3, <1>4

\* A queue that is not empty consists of its head and its tail.
LEMMA MembersTail ==
    ASSUME NEW S, NEW q \in Seq(S), q # <<>>
    PROVE  Members(q) = {Head(q)} \cup Members(Tail(q))
<1>1. /\ Len(q) \in Nat \ {0} /\ Len(Tail(q)) = Len(q) - 1 /\ Head(q) = q[1]
      /\ \A i \in 1..(Len(q) - 1) : Tail(q)[i] = q[i + 1]
  OBVIOUS
<1>2. ASSUME NEW i \in 1..Len(q), i # 1
      PROVE  i - 1 \in 1..(Len(q) - 1) /\ (i - 1) + 1 = i
  <2>1. Len(q) \in Nat
    BY <1>1
  <2> QED BY <1>2, <2>1
<1>3. \A i \in 1..(Len(q) - 1) : i + 1 \in 1..Len(q)
  BY <1>1
<1>4. 1 \in 1..Len(q)
  BY <1>1
<1>5. Members(q) \subseteq {Head(q)} \cup Members(Tail(q))
  BY <1>1, <1>2 DEF Members
<1>6. {Head(q)} \cup Members(Tail(q)) \subseteq Members(q)
  BY <1>1, <1>3, <1>4 DEF Members
<1> QED BY <1>5, <1>6

\* An empty queue has no members.
LEMMA MembersEmpty == Members(<<>>) = {}
  BY DEF Members

\* What a queue of numbers holds are numbers.
LEMMA MembersIn ==
    ASSUME NEW S, NEW q \in Seq(S)
    PROVE  Members(q) \subseteq S
  BY DEF Members

-----------------------------------------------------------------------------
(* Types, counts, and what the shutdown has touched.                        *)

Basics == TypeOK /\ CountInv /\ StopInv /\ WorkInv

\* The number of the next command is within the bound.
LEMMA NextNumber ==
    ASSUME Basics, keys # <<>>
    PROVE  issued + 1 \in Numbers /\ Len(Tail(keys)) + 1 = Len(keys)
  BY RuntimeAssumption DEF Basics, TypeOK, CountInv, Numbers

\* What the worker has not answered are numbers of commands.
LEMMA UnansweredIn == Basics => AtHand \subseteq Numbers /\ Unanswered \subseteq Numbers
<1> SUFFICES ASSUME Basics PROVE AtHand \subseteq Numbers /\ Members(jobs) \subseteq Numbers
  BY DEF Unanswered
<1>1. Members(jobs) \subseteq Numbers
  BY MembersIn DEF Basics, TypeOK
<1>2. worker \in {"busy", "hung"} => handled[Len(handled)] \in Numbers
  BY DEF Basics, TypeOK, WorkInv
<1> QED BY <1>1, <1>2 DEF AtHand

\* What run() drops when it returns are numbers of commands.
LEMMA ReturnType ==
    ASSUME Basics, NEW lost, lost \subseteq Numbers, Return(lost)
    PROVE  /\ commands' \in Seq(Numbers \cup {Shutdown}) /\ dropped' \subseteq Numbers
           /\ stage' = "leaving"
<1>1. Members(commands) \subseteq Numbers \cup {Shutdown}
  BY MembersIn DEF Basics, TypeOK
<1> QED BY <1>1 DEF Return, Basics, TypeOK

\* All of this is preserved by every step.
LEMMA BasicStep == Basics /\ [Next]_vars => Basics'
<1> SUFFICES ASSUME Basics, [Next]_vars PROVE Basics'
  OBVIOUS
<1> USE RuntimeAssumption DEF Basics
<1>1. ASSUME NEW k \in Commands \cup {"exit"}, Type(k) PROVE Basics'
  BY <1>1 DEF Type, TypeOK, CountInv, StopInv, WorkInv
<1>2. CASE ReadExit
  <2>1. Len(Tail(keys)) + 1 = Len(keys)
    BY <1>2 DEF ReadExit, TypeOK
  <2> QED BY <1>2, <2>1 DEF ReadExit, TypeOK, CountInv, StopInv, WorkInv
<1>3. CASE ReadCommand
  <2>1. issued + 1 \in Numbers /\ Len(Tail(keys)) + 1 = Len(keys)
    BY <1>3, NextNumber DEF ReadCommand
  <2>2. /\ Append(commands, issued + 1) \in Seq(Numbers \cup {Shutdown})
        /\ Tail(keys) \in Seq(Commands \cup {"exit"})
    BY <1>3, <2>1 DEF ReadCommand, TypeOK
  <2>3. commands' \in Seq(Numbers \cup {Shutdown})
    BY <1>3, <2>2 DEF ReadCommand, TypeOK
  <2>4. issued' \in 0..MaxKeys /\ issued' + Len(keys') =< typed'
    <3>1. /\ Len(keys) \in Nat /\ Len(Tail(keys)) \in Nat /\ typed \in Nat /\ issued \in Nat
          /\ issued \in 0..MaxKeys /\ issued + Len(keys) =< typed
      BY <2>2 DEF TypeOK, CountInv
    <3>2. /\ issued' = issued \/ issued' = issued + 1
          /\ keys' = Tail(keys) /\ typed' = typed
      BY <1>3 DEF ReadCommand
    <3>3. \A l, m \in Nat : m + 1 = l => /\ issued + l =< typed => issued + m =< typed
                                          /\ issued + 1 + m = issued + l
      BY <3>1
    <3>4. issued + Len(Tail(keys)) =< typed
      BY <2>1, <3>1, <3>3
    <3>5. issued + 1 + Len(Tail(keys)) =< typed
      BY <2>1, <3>1, <3>3
    <3>6. issued + 1 \in 0..MaxKeys
      BY <2>1 DEF Numbers
    <3> QED BY <3>1, <3>2, <3>4, <3>5, <3>6
  <2>5. tui' \in {"reading", "waiting", "ended"} /\ keys' \in Seq(Commands \cup {"exit"})
    BY <1>3, <2>2 DEF ReadCommand
  <2> QED BY <1>3, <2>3, <2>4, <2>5 DEF ReadCommand, TypeOK, CountInv, StopInv, WorkInv
<1>4. CASE Resume
  BY <1>4 DEF Resume, Answered, TypeOK, CountInv, StopInv, WorkInv
<1>5. CASE DrawFails
  BY <1>5 DEF DrawFails, TypeOK, CountInv, StopInv, WorkInv
<1>6. CASE Forward
  <2>1. Head(commands) \in Numbers
    BY <1>6 DEF Forward, TypeOK
  <2> QED BY <1>6, <2>1 DEF Forward, Queued, TypeOK, CountInv, StopInv, WorkInv
<1>7. CASE BeginShutdown
  <2>1. commands' \in Seq(Numbers \cup {Shutdown})
    <3>1. commands # <<>> => Tail(commands) \in Seq(Numbers \cup {Shutdown})
      BY DEF TypeOK
    <3> QED BY <1>7, <3>1 DEF BeginShutdown, TypeOK
  <2> QED BY <1>7, <2>1 DEF BeginShutdown, TypeOK, CountInv, StopInv, WorkInv
<1>8. CASE PeerEnded
  BY <1>8, ReturnType DEF PeerEnded, TypeOK, CountInv, StopInv, WorkInv
<1>9. CASE AwaitPeer
  BY <1>9 DEF AwaitPeer, TypeOK, CountInv, StopInv, WorkInv
<1>10. CASE AwaitWorker
  BY <1>10, ReturnType, UnansweredIn
     DEF AwaitWorker, TypeOK, CountInv, StopInv, WorkInv
<1>11. CASE Leave
  BY <1>11 DEF Leave, TypeOK, CountInv, StopInv, WorkInv
<1>12. CASE TakeJob
  <2>1. Head(jobs) \in Numbers /\ handled' # <<>>
    BY <1>12 DEF TakeJob, TypeOK
  <2> QED BY <1>12, <2>1 DEF TakeJob, TypeOK, CountInv, StopInv, WorkInv
<1>13. CASE JobDone
  BY <1>13, UnansweredIn DEF JobDone, TypeOK, CountInv, StopInv, WorkInv
<1>14. CASE JobHangs
  BY <1>14 DEF JobHangs, TypeOK, CountInv, StopInv, WorkInv
<1>15. CASE WorkerStops
  BY <1>15, UnansweredIn DEF WorkerStops, TypeOK, CountInv, StopInv, WorkInv
<1>16. CASE PeerMoves
  BY <1>16 DEF PeerMoves, TypeOK, CountInv, StopInv, WorkInv
<1>17. CASE UNCHANGED vars
  BY <1>17 DEF vars, TypeOK, CountInv, StopInv, WorkInv
<1> QED
  BY <1>1, <1>2, <1>3, <1>4, <1>5, <1>6, <1>7, <1>8, <1>9, <1>10, <1>11, <1>12,
     <1>13, <1>14, <1>15, <1>16, <1>17 DEF Next, Tui, Run, Worker

\* A node that has just been started has empty channels.
LEMMA BasicInit == Init => Basics
<1> SUFFICES ASSUME Init PROVE Basics
  OBVIOUS
<1>1. Len(keys) = 0 /\ keys \in Seq(Commands \cup {"exit"})
  BY DEF Init
<1>2. /\ commands \in Seq(Numbers \cup {Shutdown}) /\ jobs \in Seq(Numbers)
      /\ handled \in Seq(Numbers)
  BY DEF Init
<1>3. typed = 0 /\ issued = 0 /\ 0 \in 0..MaxKeys
  BY RuntimeAssumption DEF Init
<1>4. TypeOK
  BY <1>1, <1>2, <1>3 DEF Init, TypeOK
<1> QED BY <1>1, <1>3, <1>4 DEF Init, Basics, CountInv, StopInv, WorkInv

\* The basic facts hold in every behaviour.
THEOREM BasicsHold == Spec => []Basics
  BY BasicInit, BasicStep, PTL DEF Spec

\* The tasks, the channels and the histories are well formed.
THEOREM RuntimeTypes == Spec => []TypeOK
<1>1. Basics => TypeOK
  BY DEF Basics
<1> QED BY <1>1, BasicsHold, PTL

-----------------------------------------------------------------------------
(* The order of the commands.                                               *)

\* Lengths are natural numbers.
LEMMA Lengths ==
    Basics => /\ Len(handled) \in Nat /\ Len(jobs) \in Nat /\ Len(commands) \in Nat
              /\ issued \in Nat
  BY DEF Basics, TypeOK

\* A command joins the others with the next number; a shutdown hides what follows.
LEMMA ReadKeepsOrder ==
    ASSUME Basics, QueueInv, ReadExit \/ ReadCommand
    PROVE  QueueInv'
<1> DEFINE n == Len(commands)
<1>1. UNCHANGED <<jobs, handled, stage>>
  BY DEF ReadExit, ReadCommand
<1>2. n \in Nat /\ issued \in Nat /\ Len(handled) \in Nat /\ Len(jobs) \in Nat
  BY Lengths
<1>3. CASE UNCHANGED <<issued, commands>>
  BY <1>1, <1>3 DEF QueueInv, Clear
<1>4. ASSUME NEW c \in Numbers \cup {Shutdown}, commands' = Append(commands, c)
      PROVE  /\ Len(commands') = n + 1 /\ commands'[n + 1] = c
             /\ \A i \in 1..n : commands'[i] = commands[i]
  BY <1>4 DEF Basics, TypeOK
<1>5. CASE commands' = Append(commands, Shutdown) /\ issued' = issued
  <2>1. /\ Len(commands') = n + 1 /\ commands'[n + 1] = Shutdown
        /\ \A i \in 1..n : commands'[i] = commands[i]
    BY <1>4, <1>5
  <2>2. ~Clear(commands', n + 1)
    BY <1>2, <2>1 DEF Clear
  <2>3. \A i \in 1..n : Clear(commands', i) <=> Clear(commands, i)
    BY <1>2, <2>1 DEF Clear
  <2>4. \A i \in 1..(n + 1) : i \in 1..n \/ i = n + 1
    BY <1>2
  <2>5. Shutdown =< issued
    BY <1>2 DEF Shutdown
  <2> QED BY <1>1, <1>2, <1>5, <2>1, <2>2, <2>3, <2>4, <2>5 DEF QueueInv
<1>6. CASE /\ commands' = Append(commands, issued + 1) /\ issued' = issued + 1
           /\ issued + 1 \in Numbers
  <2>1. /\ Len(commands') = n + 1 /\ commands'[n + 1] = issued + 1
        /\ \A i \in 1..n : commands'[i] = commands[i]
    BY <1>4, <1>6
  <2>2. Clear(commands', n + 1) => Clear(commands, n)
    BY <1>2, <2>1 DEF Clear
  <2>3. \A i \in 1..n : Clear(commands', i) <=> Clear(commands, i)
    BY <1>2, <2>1 DEF Clear
  <2>4. \A i \in 1..(n + 1) : i \in 1..n \/ i = n + 1
    BY <1>2
  <2>5. \A i \in 1..n : commands[i] \in Nat
    BY DEF Basics, TypeOK, Numbers, Shutdown
  <2>6. \A i \in 1..(n + 1) : commands'[i] =< issued + 1
    BY <1>2, <2>1, <2>4, <2>5 DEF QueueInv
  <2>7. stage = "running" /\ Clear(commands', n + 1) => issued = Len(handled) + Len(jobs) + n
    BY <2>2 DEF QueueInv
  <2>8. ASSUME stage = "running", NEW i \in 1..(n + 1), Clear(commands', i)
        PROVE  commands'[i] = Len(handled) + Len(jobs) + i
    <3>1. CASE i \in 1..n
      BY <2>1, <2>3, <2>8, <3>1 DEF QueueInv
    <3>2. CASE i = n + 1
      <4>1. issued = Len(handled) + Len(jobs) + n
        BY <2>7, <2>8, <3>2
      <4> QED BY <1>2, <2>1, <3>2, <4>1
    <3> QED BY <2>4, <3>1, <3>2
  <2>9. stage = "running" /\ Clear(commands', n + 1) =>
            issued + 1 = Len(handled) + Len(jobs) + (n + 1)
    BY <1>2, <2>7
  <2>10. Len(handled) + Len(jobs) =< issued + 1
    BY <1>2 DEF QueueInv
  <2> QED BY <1>1, <1>6, <2>1, <2>6, <2>8, <2>9, <2>10 DEF QueueInv
<1>7. CASE ReadExit
  BY <1>3, <1>5, <1>7 DEF ReadExit
<1>8. CASE ReadCommand
  BY <1>3, <1>6, <1>8, NextNumber DEF ReadCommand
<1> QED BY <1>7, <1>8

\* The head of the command channel becomes the last of the worker's queue.
LEMMA ForwardKeepsOrder ==
    ASSUME Basics, QueueInv, Forward
    PROVE  QueueInv'
<1> DEFINE n == Len(commands)
           h == Len(handled)
           l == Len(jobs)
<1>1. n \in Nat /\ issued \in Nat /\ h \in Nat /\ l \in Nat
  BY Lengths
<1>2. /\ stage = "running" /\ commands # <<>> /\ Head(commands) # Shutdown
      /\ commands' = Tail(commands) /\ jobs' = Append(jobs, Head(commands))
      /\ UNCHANGED <<handled, issued, stage>>
  BY DEF Forward, Queued
<1>3. /\ n > 0 /\ Len(commands') = n - 1 /\ Head(commands) = commands[1]
      /\ \A i \in 1..(n - 1) : commands'[i] = commands[i + 1]
  BY <1>2 DEF Basics, TypeOK
<1>4. Head(commands) \in Numbers
  BY <1>2 DEF Basics, TypeOK
<1>5. /\ Len(jobs') = l + 1 /\ jobs'[l + 1] = commands[1]
      /\ \A i \in 1..l : jobs'[i] = jobs[i]
  BY <1>2, <1>3, <1>4 DEF Basics, TypeOK
<1>6. 1 \in 1..n /\ Clear(commands, 1)
  BY <1>1, <1>2, <1>3 DEF Clear
<1>7. commands[1] = h + l + 1 /\ commands[1] =< issued
  BY <1>2, <1>6 DEF QueueInv
<1>8. ASSUME NEW i \in 1..(l + 1)
      PROVE  jobs'[i] = h + i
  <2>1. i \in 1..l \/ i = l + 1
    BY <1>1
  <2>2. CASE i \in 1..l
    BY <1>5, <2>2 DEF QueueInv
  <2>3. CASE i = l + 1
    <3>1. h + (l + 1) = h + l + 1
      BY <1>1
    <3> QED BY <1>5, <1>7, <2>3, <3>1
  <2> QED BY <2>1, <2>2, <2>3
<1>9. \A i \in 1..(n - 1) : i + 1 \in 1..n /\ (Clear(commands', i) => Clear(commands, i + 1))
  <2> SUFFICES ASSUME NEW i \in 1..(n - 1), Clear(commands', i)
               PROVE  Clear(commands, i + 1)
    BY <1>1
  <2>1. ASSUME NEW j \in 1..(i + 1) PROVE commands[j] # Shutdown
    <3>1. CASE j = 1
      BY <1>2, <1>3, <3>1
    <3>2. CASE j # 1
      <4>1. j - 1 \in 1..i /\ j - 1 \in 1..(n - 1) /\ (j - 1) + 1 = j
        BY <1>1, <3>2
      <4> QED BY <1>3, <4>1 DEF Clear
    <3> QED BY <3>1, <3>2
  <2> QED BY <2>1 DEF Clear
<1>10. \A i \in 1..(n - 1) : Clear(commands', i) => commands'[i] = h + (l + 1) + i
  <2>1. \A i \in 1..(n - 1) : h + l + (i + 1) = h + (l + 1) + i
    BY <1>1
  <2> QED BY <1>2, <1>3, <1>9, <2>1 DEF QueueInv
<1>11. Clear(commands', n - 1) => issued = h + (l + 1) + (n - 1)
  <2>1. CASE n = 1
    <3>1. Clear(commands, n)
      BY <1>6, <2>1
    <3> QED BY <1>1, <1>2, <2>1, <3>1 DEF QueueInv
  <2>2. CASE n # 1
    <3>1. n - 1 \in 1..(n - 1) /\ (n - 1) + 1 = n
      BY <1>1, <1>3, <2>2
    <3>2. Clear(commands', n - 1) => Clear(commands, n)
      BY <1>9, <3>1
    <3>3. Clear(commands', n - 1) => issued = h + l + n
      BY <1>2, <3>2 DEF QueueInv
    <3> QED BY <1>1, <3>3
  <2> QED BY <2>1, <2>2
<1>12. \A i \in 1..(n - 1) : commands'[i] =< issued
  BY <1>3, <1>9 DEF QueueInv
<1>13. h + (l + 1) =< issued
  BY <1>1, <1>7
<1> QED BY <1>2, <1>3, <1>5, <1>8, <1>10, <1>11, <1>12, <1>13 DEF QueueInv

\* The head of the worker's queue becomes the last command handled.
LEMMA TakeKeepsOrder ==
    ASSUME Basics, QueueInv, TakeJob
    PROVE  QueueInv'
<1> DEFINE h == Len(handled)
           l == Len(jobs)
<1>1. /\ h \in Nat /\ l \in Nat /\ issued \in Nat /\ Len(commands) \in Nat
      /\ jobs # <<>> /\ jobs' = Tail(jobs) /\ handled' = Append(handled, Head(jobs))
      /\ UNCHANGED <<commands, stage, issued>>
  BY Lengths DEF TakeJob
<1>2. /\ l > 0 /\ Len(jobs') = l - 1 /\ Head(jobs) = jobs[1] /\ Head(jobs) \in Numbers
      /\ \A i \in 1..(l - 1) : jobs'[i] = jobs[i + 1]
  BY <1>1 DEF Basics, TypeOK
<1>3. /\ Len(handled') = h + 1 /\ handled'[h + 1] = jobs[1]
      /\ \A i \in 1..h : handled'[i] = handled[i]
  BY <1>1, <1>2 DEF Basics, TypeOK
<1>4. 1 \in 1..l /\ \A i \in 1..(l - 1) : i + 1 \in 1..l
  BY <1>1, <1>2
<1>5. \A i \in 1..(h + 1) : handled'[i] = i
  <2>1. \A i \in 1..(h + 1) : i \in 1..h \/ i = h + 1
    BY <1>1
  <2>2. jobs[1] = h + 1
    BY <1>4 DEF QueueInv
  <2> QED BY <1>3, <2>1, <2>2 DEF QueueInv
<1>6. \A i \in 1..(l - 1) : jobs'[i] = (h + 1) + i
  <2>1. \A i \in 1..(l - 1) : h + (i + 1) = (h + 1) + i
    BY <1>1
  <2> QED BY <1>2, <1>4, <2>1 DEF QueueInv
<1>7. (h + 1) + (l - 1) = h + l
  BY <1>1
<1>8. \A i : Clear(commands', i) <=> Clear(commands, i)
  BY <1>1 DEF Clear
<1> QED BY <1>1, <1>2, <1>3, <1>5, <1>6, <1>7, <1>8 DEF QueueInv

\* The worker's queue goes, once the shutdown has been signalled.
LEMMA DropKeepsOrder ==
    ASSUME Basics, QueueInv, stage' # "running",
           UNCHANGED <<handled, issued>>,
           UNCHANGED jobs \/ jobs' = <<>>,
           UNCHANGED commands \/ commands' = <<>> \/
               (commands # <<>> /\ commands' = Tail(commands))
    PROVE  QueueInv'
<1>1. /\ Len(handled) \in Nat /\ Len(jobs) \in Nat /\ issued \in Nat
      /\ Len(commands) \in Nat
  BY Lengths
<1>2. /\ \A i \in 1..Len(jobs') : jobs'[i] = Len(handled) + i
      /\ Len(handled) + Len(jobs') =< issued
  <2>1. CASE jobs' = jobs
    BY <2>1 DEF QueueInv
  <2>2. CASE jobs' = <<>>
    <3>1. Len(jobs') = 0
      BY <2>2
    <3> QED BY <1>1, <3>1 DEF QueueInv
  <2> QED BY <2>1, <2>2
<1>3. \A i \in 1..Len(commands') : commands'[i] =< issued
  <2>1. CASE commands' = commands
    BY <2>1 DEF QueueInv
  <2>2. CASE commands' = <<>>
    BY <2>2
  <2>3. CASE commands # <<>> /\ commands' = Tail(commands)
    <3>1. /\ Len(commands') = Len(commands) - 1
          /\ \A i \in 1..(Len(commands) - 1) : commands'[i] = commands[i + 1]
      BY <2>3 DEF Basics, TypeOK
    <3>2. \A i \in 1..(Len(commands) - 1) : i + 1 \in 1..Len(commands)
      BY <1>1
    <3> QED BY <3>1, <3>2 DEF QueueInv
  <2> QED BY <2>1, <2>2, <2>3
<1> QED BY <1>2, <1>3 DEF QueueInv

\* Every step keeps the order.
LEMMA QueueStep == Basics /\ QueueInv /\ [Next]_vars => QueueInv'
<1> SUFFICES ASSUME Basics, QueueInv, [Next]_vars PROVE QueueInv'
  OBVIOUS
<1>1. CASE UNCHANGED <<commands, jobs, handled, issued, stage>>
  BY <1>1 DEF QueueInv, Clear
<1>2. CASE ReadExit \/ ReadCommand
  BY <1>2, ReadKeepsOrder
<1>3. CASE Forward
  BY <1>3, ForwardKeepsOrder
<1>4. CASE TakeJob
  BY <1>4, TakeKeepsOrder
<1>5. CASE BeginShutdown
  BY <1>5, DropKeepsOrder DEF BeginShutdown
<1>6. CASE PeerEnded
  BY <1>6, DropKeepsOrder DEF PeerEnded, Return
<1>7. CASE AwaitPeer
  BY <1>7, DropKeepsOrder DEF AwaitPeer
<1>8. CASE AwaitWorker
  BY <1>8, DropKeepsOrder DEF AwaitWorker, Return
<1>9. CASE Leave
  BY <1>9, DropKeepsOrder DEF Leave
<1>10. CASE WorkerStops
  <2>1. stage # "running"
    BY <1>10 DEF WorkerStops, Basics, StopInv
  <2> QED BY <1>10, <2>1, DropKeepsOrder DEF WorkerStops
<1>11. CASE \E k \in Commands \cup {"exit"} : Type(k)
  BY <1>1, <1>11 DEF Type
<1>12. CASE Resume \/ DrawFails \/ JobDone \/ JobHangs \/ PeerMoves
  BY <1>1, <1>12 DEF Resume, DrawFails, JobDone, JobHangs, PeerMoves
<1>13. CASE UNCHANGED vars
  BY <1>1, <1>13 DEF vars
<1> QED
  BY <1>2, <1>3, <1>4, <1>5, <1>6, <1>7, <1>8, <1>9, <1>10, <1>11, <1>12, <1>13
     DEF Next, Tui, Run, Worker

\* There is no order yet to be broken.
LEMMA QueueInit == Init => QueueInv
<1> SUFFICES ASSUME Init PROVE QueueInv
  OBVIOUS
<1>1. Len(handled) = 0 /\ Len(jobs) = 0 /\ Len(commands) = 0 /\ issued = 0
  BY DEF Init
<1> QED BY <1>1 DEF QueueInv

\* Whatever is typed and whenever the node stops, the worker takes the commands
\* in the order in which they were issued, without skipping or repeating one.
THEOREM CommandsKeepTheirOrder == Spec => []HandledInOrder
<1>1. Basics /\ QueueInv => HandledInOrder
  <2>1. \A a, b, c \in Nat : a + b =< c => a =< c
    OBVIOUS
  <2> QED BY <2>1, Lengths DEF QueueInv, HandledInOrder
<1> QED BY <1>1, BasicsHold, QueueInit, QueueStep, PTL DEF Spec

-----------------------------------------------------------------------------
(* The answers.                                                             *)

\* A wait ends with an answer, or after the shutdown.
LEMMA ReportStep == Basics /\ ReportedWasHandled /\ [Next]_vars => ReportedWasHandled'
<1> SUFFICES ASSUME Basics, ReportedWasHandled, [Next]_vars PROVE ReportedWasHandled'
  OBVIOUS
<1> USE DEF ReportedWasHandled
<1>1. CASE Resume
  BY <1>1 DEF Resume, Answered, Basics, StopInv
<1>2. CASE BeginShutdown \/ PeerEnded
  BY <1>2 DEF BeginShutdown, PeerEnded
<1>3. CASE JobDone
  BY <1>3 DEF JobDone
<1>4. CASE UNCHANGED <<reported, done, stop>>
  BY <1>4
<1> QED
  BY <1>1, <1>2, <1>3, <1>4
     DEF Next, Tui, Run, Worker, vars, Type, ReadExit, ReadCommand, DrawFails, Forward,
         AwaitPeer, AwaitWorker, Leave, TakeJob, JobHangs, WorkerStops, PeerMoves

\* The interface calls a command complete only if the worker has dealt with it,
\* for as long as the node is not stopping.
THEOREM ReportsAreTrue == Spec => []ReportedWasHandled
<1>1. Init => ReportedWasHandled
  BY DEF Init, ReportedWasHandled
<1> QED BY <1>1, BasicsHold, ReportStep, PTL DEF Spec

\* The commands that still have a future, or have had one.
LEMMA LostNever == Basics /\ NoneLost /\ [Next]_vars => NoneLost'
<1> SUFFICES ASSUME Basics, NoneLost, [Next]_vars PROVE NoneLost'
  OBVIOUS
<1>1. CASE UNCHANGED <<commands, jobs, worker, handled, issued, done, dropped>>
  BY <1>1 DEF NoneLost, Unanswered, AtHand, Members
<1>2. CASE ReadExit
  <2>1. Members(commands') \ {Shutdown} = Members(commands) \ {Shutdown}
    <3>1. CASE commands' = commands
      BY <3>1
    <3>2. CASE commands' = Append(commands, Shutdown)
      <4>1. Members(Append(commands, Shutdown)) = Members(commands) \cup {Shutdown}
        BY MembersAppend DEF Basics, TypeOK
      <4> QED BY <3>2, <4>1
    <3> QED BY <1>2, <3>1, <3>2 DEF ReadExit
  <2>2. UNCHANGED <<Unanswered, issued, done, dropped>>
    BY <1>2 DEF ReadExit, Unanswered, AtHand, Members
  <2> QED BY <2>1, <2>2 DEF NoneLost
<1>3. CASE ReadCommand
  <2>1. UNCHANGED <<Unanswered, done, dropped>>
    BY <1>3 DEF ReadCommand, Unanswered, AtHand, Members
  <2>2. CASE UNCHANGED <<issued, commands>>
    BY <2>1, <2>2 DEF NoneLost, Members
  <2>3. CASE issued' = issued + 1 /\ commands' = Append(commands, issued + 1)
    <3>1. issued + 1 \in Numbers /\ issued \in Nat
      BY <1>3, NextNumber, Lengths DEF ReadCommand
    <3>2. Members(Append(commands, issued + 1)) = Members(commands) \cup {issued + 1}
      BY <3>1, MembersAppend DEF Basics, TypeOK
    <3>3. issued + 1 # Shutdown
      BY <3>1 DEF Shutdown
    <3>4. 1..(issued + 1) = 1..issued \cup {issued + 1}
      BY <3>1
    <3> QED BY <2>1, <2>3, <3>2, <3>3, <3>4 DEF NoneLost
  <2> QED BY <1>3, <2>2, <2>3 DEF ReadCommand
<1>4. CASE Forward
  <2>1. /\ commands # <<>> /\ Head(commands) # Shutdown
        /\ commands' = Tail(commands) /\ jobs' = Append(jobs, Head(commands))
        /\ UNCHANGED <<worker, handled, issued, done, dropped>>
    BY <1>4 DEF Forward, Queued
  <2>2. Members(commands) = {Head(commands)} \cup Members(Tail(commands))
    BY <2>1, MembersTail DEF Basics, TypeOK
  <2>3. Head(commands) \in Numbers
    BY <2>1 DEF Basics, TypeOK
  <2>4. Members(Append(jobs, Head(commands))) = Members(jobs) \cup {Head(commands)}
    BY <2>3, MembersAppend DEF Basics, TypeOK
  <2>5. Unanswered' = Unanswered \cup {Head(commands)}
    BY <2>1, <2>4 DEF Unanswered, AtHand
  <2>6. Members(commands) \ {Shutdown} = {Head(commands)} \cup (Members(commands') \ {Shutdown})
    BY <2>1, <2>2
  <2> QED BY <2>1, <2>5, <2>6 DEF NoneLost
<1>5. CASE BeginShutdown
  <2>1. UNCHANGED <<Unanswered, issued, done, dropped>>
    BY <1>5 DEF BeginShutdown, Unanswered, AtHand, Members
  <2>2. CASE commands' = commands
    BY <2>1, <2>2 DEF NoneLost
  <2>3. CASE commands # <<>> /\ Head(commands) = Shutdown /\ commands' = Tail(commands)
    <3>1. Members(commands) = {Head(commands)} \cup Members(Tail(commands))
      BY <2>3, MembersTail DEF Basics, TypeOK
    <3> QED BY <2>1, <2>3, <3>1 DEF NoneLost
  <2> QED BY <1>5, <2>2, <2>3 DEF BeginShutdown
<1>6. CASE PeerEnded
  <2>1. UNCHANGED <<Unanswered, issued, done>>
    BY <1>6 DEF PeerEnded, Unanswered, AtHand, Members
  <2>2. /\ commands' = <<>>
        /\ dropped' = dropped \cup (Members(commands) \ {Shutdown})
    BY <1>6 DEF PeerEnded, Return
  <2> QED BY <2>1, <2>2, MembersEmpty DEF NoneLost
<1>7. CASE AwaitWorker
  <2>1. /\ commands' = <<>> /\ jobs' = <<>> /\ worker' = "stopped"
        /\ dropped' = dropped \cup Unanswered \cup (Members(commands) \ {Shutdown})
        /\ UNCHANGED <<issued, done>>
    BY <1>7 DEF AwaitWorker, Return
  <2>2. Unanswered' = {}
    BY <2>1, MembersEmpty DEF Unanswered, AtHand
  <2> QED BY <2>1, <2>2, MembersEmpty DEF NoneLost
<1>8. CASE TakeJob
  <2>1. /\ worker = "idle" /\ jobs # <<>> /\ worker' = "busy" /\ jobs' = Tail(jobs)
        /\ handled' = Append(handled, Head(jobs))
        /\ UNCHANGED <<commands, issued, done, dropped>>
    BY <1>8 DEF TakeJob
  <2>2. Members(jobs) = {Head(jobs)} \cup Members(Tail(jobs)) /\ Head(jobs) \in Numbers
    BY <2>1, MembersTail DEF Basics, TypeOK
  <2>3. handled'[Len(handled')] = Head(jobs)
    BY <2>1, <2>2 DEF Basics, TypeOK
  <2>4. Unanswered' = Unanswered
    BY <2>1, <2>2, <2>3 DEF Unanswered, AtHand
  <2> QED BY <2>1, <2>4 DEF NoneLost, Members
<1>9. CASE JobDone
  <2>1. Unanswered = AtHand \cup Members(jobs) /\ Unanswered' = Members(jobs)
    BY <1>9 DEF JobDone, Unanswered, AtHand, Members
  <2>2. done' = done \cup AtHand /\ UNCHANGED <<commands, issued, dropped>>
    BY <1>9 DEF JobDone
  <2> QED BY <2>1, <2>2 DEF NoneLost
<1>10. CASE JobHangs
  <2>1. UNCHANGED <<Unanswered, commands, issued, done, dropped>>
    BY <1>10 DEF JobHangs, Unanswered, AtHand, Members
  <2> QED BY <2>1 DEF NoneLost
<1>11. CASE WorkerStops
  <2>1. /\ worker' = "stopped" /\ jobs' = <<>> /\ dropped' = dropped \cup Unanswered
        /\ UNCHANGED <<commands, issued, done>>
    BY <1>11 DEF WorkerStops
  <2>2. Unanswered' = {}
    BY <2>1, MembersEmpty DEF Unanswered, AtHand
  <2> QED BY <2>1, <2>2 DEF NoneLost
<1>12. CASE \E k \in Commands \cup {"exit"} : Type(k)
  BY <1>1, <1>12 DEF Type
<1>13. CASE Resume \/ DrawFails \/ AwaitPeer \/ Leave \/ PeerMoves
  BY <1>1, <1>13 DEF Resume, DrawFails, AwaitPeer, Leave, PeerMoves
<1>14. CASE UNCHANGED vars
  BY <1>1, <1>14 DEF vars
<1> QED
  BY <1>2, <1>3, <1>4, <1>5, <1>6, <1>7, <1>8, <1>9, <1>10, <1>11, <1>12, <1>13, <1>14
     DEF Next, Tui, Run, Worker

\* No command disappears without an answer or a dropped sender: no wait of the
\* interface is for something that can no longer come.
THEOREM CommandsAreAccountedFor == Spec => []NoneLost
<1>1. Init => NoneLost
  <2> SUFFICES ASSUME Init PROVE NoneLost
    OBVIOUS
  <2>1. /\ Members(commands) = {} /\ Members(jobs) = {} /\ AtHand = {}
        /\ done = {} /\ dropped = {} /\ issued = 0
    BY MembersEmpty DEF Init, AtHand
  <2>2. 1..0 = {}
    OBVIOUS
  <2> QED BY <2>1, <2>2 DEF NoneLost, Unanswered
<1> QED BY <1>1, BasicsHold, LostNever, PTL DEF Spec

-----------------------------------------------------------------------------
(* The service.                                                             *)

AtWork == worker \in {"busy", "hung"}

\* Each command is in one place: the command channel is behind the worker's, which is
\* behind what the worker has taken; and what was given up is in none of them.
PlaceInv ==
    /\ \A i \in 1..Len(commands) :
          commands[i] # Shutdown => commands[i] > Len(handled) + Len(jobs)
    /\ \A i, j \in 1..Len(commands) :
          i < j => commands[i] < commands[j] \/ commands[j] = Shutdown
    /\ done \subseteq 1..Len(handled)
    /\ AtWork => Len(handled) \notin done
    /\ done \cap dropped = {}
    /\ \A i \in 1..Len(commands) : commands[i] \notin dropped
    /\ worker # "stopped" => \A c \in dropped : c > Len(handled) + Len(jobs)

\* What holds of a queue and of the one before it.
LEMMA Places ==
    ASSUME Basics, QueueInv, PlaceInv
    PROVE  /\ AtHand \subseteq {Len(handled)} /\ (AtWork => AtHand = {Len(handled)})
           /\ \A c \in Members(jobs) : c > Len(handled) /\ c =< Len(handled) + Len(jobs)
           /\ \A c \in Members(commands) \ {Shutdown} : c > Len(handled) + Len(jobs)
           /\ Unanswered \cap done = {}
           /\ worker # "stopped" => Unanswered \cap dropped = {}
           /\ (Members(commands) \ {Shutdown}) \cap (done \cup dropped \cup Unanswered) = {}
<1> DEFINE h == Len(handled)
           l == Len(jobs)
<1>1. h \in Nat /\ l \in Nat
  BY Lengths
<1>2. AtHand \subseteq {h} /\ (AtWork => AtHand = {h}) /\ (AtHand # {} => AtWork /\ h # 0)
  <2>1. AtWork => h # 0 /\ handled[h] = h
    <3>1. AtWork => h # 0
      BY DEF AtWork, Basics, WorkInv, TypeOK
    <3>2. h # 0 => h \in 1..h
      BY <1>1
    <3> QED BY <3>1, <3>2 DEF QueueInv
  <2> QED BY <2>1 DEF AtWork, AtHand
<1>3. \A c \in Members(jobs) : c > h /\ c =< h + l
  BY <1>1 DEF Members, QueueInv
<1>4. \A c \in Members(commands) \ {Shutdown} : c > h + l /\ c \notin dropped
  BY DEF Members, PlaceInv
<1>5. \A c \in done : c \in Nat /\ c =< h
  BY <1>1 DEF PlaceInv
<1>6. \A c \in Members(commands) : c \in Nat
  BY DEF Members, Basics, TypeOK, Numbers, Shutdown
<1>7. \A c \in Unanswered : c \in Nat /\ c =< h + l /\ c \notin done
  <2>1. \A c \in Members(jobs) : c \in Nat
    <3>1. Members(jobs) \subseteq Numbers
      BY MembersIn DEF Basics, TypeOK
    <3> QED BY <3>1 DEF Numbers
  <2>2. \A c \in AtHand : c = h /\ c \notin done
    BY <1>2 DEF PlaceInv
  <2> QED BY <1>1, <1>3, <1>5, <2>1, <2>2 DEF Unanswered
<1>8. worker # "stopped" => Unanswered \cap dropped = {}
  <2>1. \A c \in dropped : c \in Nat
    BY DEF Basics, TypeOK, Numbers
  <2> QED BY <1>1, <1>7, <2>1 DEF PlaceInv
<1> QED BY <1>1, <1>2, <1>3, <1>4, <1>5, <1>6, <1>7, <1>8

\* A command that is issued is the last of the command channel.
LEMMA ReadKeepsPlaces ==
    ASSUME Basics, QueueInv, NoneLost, PlaceInv, ReadExit \/ ReadCommand
    PROVE  PlaceInv'
<1> DEFINE n == Len(commands)
<1>1. UNCHANGED <<jobs, handled, worker, done, dropped>>
  BY DEF ReadExit, ReadCommand
<1>2. n \in Nat /\ issued \in Nat /\ Len(handled) \in Nat /\ Len(jobs) \in Nat
  BY Lengths
<1>3. CASE UNCHANGED commands
  BY <1>1, <1>3 DEF PlaceInv, AtWork
<1>4. ASSUME NEW c \in Numbers \cup {Shutdown}, commands' = Append(commands, c),
             c = Shutdown \/ c = issued + 1
      PROVE  PlaceInv'
  <2>1. /\ Len(commands') = n + 1 /\ commands'[n + 1] = c
        /\ \A i \in 1..n : commands'[i] = commands[i]
        /\ \A i \in 1..n : commands[i] \in Nat
    BY <1>4 DEF Basics, TypeOK, Numbers, Shutdown
  <2>2. \A i \in 1..(n + 1) : i \in 1..n \/ i = n + 1
    BY <1>2
  <2>3. c # Shutdown => c > Len(handled) + Len(jobs)
    BY <1>2, <1>4 DEF QueueInv
  <2>4. c \notin dropped
    <3>1. dropped \subseteq 1..issued
      BY DEF NoneLost
    <3> QED BY <1>2, <1>4, <3>1 DEF Shutdown
  <2>5. \A i, j \in 1..(n + 1) : i < j => commands'[i] < commands'[j] \/ commands'[j] = Shutdown
    <3> SUFFICES ASSUME NEW i \in 1..(n + 1), NEW j \in 1..(n + 1), i < j,
                        commands'[j] # Shutdown
                 PROVE  commands'[i] < commands'[j]
      OBVIOUS
    <3>1. i \in 1..n
      BY <1>2
    <3>2. CASE j \in 1..n
      BY <2>1, <3>1, <3>2 DEF PlaceInv
    <3>3. CASE j = n + 1
      <4>1. commands'[i] =< issued /\ commands'[j] = issued + 1
        BY <1>4, <2>1, <3>1, <3>3 DEF QueueInv
      <4>2. commands'[i] \in Nat
        BY <2>1, <3>1
      <4> QED BY <1>2, <4>1, <4>2
    <3> QED BY <2>2, <3>2, <3>3
  <2> QED BY <1>1, <2>1, <2>2, <2>3, <2>4, <2>5 DEF PlaceInv, AtWork
<1>5. CASE ReadExit
  BY <1>3, <1>4, <1>5 DEF ReadExit
<1>6. CASE ReadCommand
  BY <1>3, <1>4, <1>6, NextNumber DEF ReadCommand
<1> QED BY <1>5, <1>6

\* The tail of the command channel is behind its head.
LEMMA TailKeepsPlaces ==
    ASSUME Basics, PlaceInv, commands # <<>>
    PROVE  /\ Len(Tail(commands)) = Len(commands) - 1
           /\ \A i \in 1..Len(Tail(commands)) :
                 /\ i + 1 \in 1..Len(commands) /\ Tail(commands)[i] = commands[i + 1]
                 /\ Tail(commands)[i] # Shutdown => Tail(commands)[i] > Head(commands)
           /\ \A i, j \in 1..Len(Tail(commands)) :
                 i < j => \/ Tail(commands)[i] < Tail(commands)[j]
                          \/ Tail(commands)[j] = Shutdown
<1> DEFINE n == Len(commands)
           q == Tail(commands)
<1>1. /\ n \in Nat \ {0} /\ Len(q) = n - 1 /\ Head(commands) = commands[1]
      /\ \A i \in 1..(n - 1) : q[i] = commands[i + 1]
      /\ \A i \in 1..n : commands[i] \in Nat
  BY DEF Basics, TypeOK, Numbers, Shutdown
<1> HIDE DEF n, q
<1>2. \A i \in 1..(n - 1) : i + 1 \in 1..n /\ 1 < i + 1
  BY <1>1
<1>3. 1 \in 1..n
  BY <1>1
<1>4. \A i, j \in 1..n : i < j => commands[i] < commands[j] \/ commands[j] = Shutdown
  BY DEF PlaceInv, n
<1>5. \A i \in 1..(n - 1) : q[i] # Shutdown => q[i] > Head(commands)
  <2> SUFFICES ASSUME NEW i \in 1..(n - 1), q[i] # Shutdown PROVE q[i] > Head(commands)
    OBVIOUS
  <2>1. commands[1] < commands[i + 1]
    BY <1>1, <1>2, <1>3, <1>4
  <2> QED BY <1>1, <1>2, <1>3, <2>1
<1>6. \A i, j \in 1..(n - 1) : i < j => q[i] < q[j] \/ q[j] = Shutdown
  <2> SUFFICES ASSUME NEW i \in 1..(n - 1), NEW j \in 1..(n - 1), i < j
               PROVE  q[i] < q[j] \/ q[j] = Shutdown
    OBVIOUS
  <2>1. i + 1 < j + 1
    BY <1>1
  <2> QED BY <1>1, <1>2, <1>4, <2>1
<1> QED BY <1>1, <1>2, <1>5, <1>6 DEF n, q

\* A command moves from the one channel to the end of the other.
LEMMA ForwardKeepsPlaces ==
    ASSUME Basics, QueueInv, PlaceInv, Forward
    PROVE  PlaceInv'
<1> DEFINE h == Len(handled)
           l == Len(jobs)
<1>1. /\ stage = "running" /\ commands # <<>> /\ Head(commands) # Shutdown
      /\ commands' = Tail(commands) /\ jobs' = Append(jobs, Head(commands))
      /\ UNCHANGED <<handled, worker, done, dropped>>
  BY DEF Forward, Queued
<1>2. Len(jobs') = l + 1 /\ h \in Nat /\ l \in Nat
  <2>1. Head(commands) \in Numbers
    BY <1>1 DEF Basics, TypeOK
  <2> QED BY <1>1, <2>1, Lengths DEF Basics, TypeOK
<1>3. Head(commands) = h + l + 1
  <2>1. /\ Len(commands) \in Nat \ {0} /\ Head(commands) = commands[1]
    BY <1>1 DEF Basics, TypeOK
  <2>2. 1 \in 1..Len(commands) /\ Clear(commands, 1)
    BY <1>1, <2>1 DEF Clear
  <2> QED BY <1>1, <2>1, <2>2 DEF QueueInv
<1>4. \A i \in 1..Len(commands') :
          commands'[i] # Shutdown => commands'[i] > Len(handled') + Len(jobs')
  <2> SUFFICES ASSUME NEW i \in 1..Len(commands'), commands'[i] # Shutdown
               PROVE  commands'[i] > h + (l + 1)
    BY <1>1, <1>2
  <2>1. commands'[i] > h + l + 1
    BY <1>1, <1>3, TailKeepsPlaces
  <2>2. h + l + 1 = h + (l + 1)
    BY <1>2
  <2> QED BY <2>1, <2>2
<1>5. \A i, j \in 1..Len(commands') :
          i < j => commands'[i] < commands'[j] \/ commands'[j] = Shutdown
  BY <1>1, TailKeepsPlaces
<1>6. dropped = {}
  BY <1>1 DEF Basics, StopInv
<1> QED BY <1>1, <1>4, <1>5, <1>6 DEF PlaceInv, AtWork

\* What run() and the worker give up leaves its place.
LEMMA DropKeepsPlaces ==
    ASSUME Basics, QueueInv, PlaceInv,
           UNCHANGED <<handled, done>>,
           \/ UNCHANGED <<jobs, worker>> /\ UNCHANGED dropped
           \/ UNCHANGED <<jobs, worker>>
              /\ dropped' = dropped \cup (Members(commands) \ {Shutdown})
           \/ /\ jobs' = <<>> /\ worker' = "stopped"
              /\ dropped' = dropped \cup Unanswered
           \/ /\ jobs' = <<>> /\ worker' = "stopped"
              /\ dropped' = dropped \cup Unanswered \cup (Members(commands) \ {Shutdown}),
           \/ UNCHANGED commands /\ dropped' \subseteq dropped \cup Unanswered
           \/ commands' = <<>>
           \/ commands # <<>> /\ commands' = Tail(commands) /\ UNCHANGED dropped
    PROVE  PlaceInv'
<1> DEFINE h == Len(handled)
           l == Len(jobs)
<1>1. h \in Nat /\ l \in Nat /\ Len(jobs') \in Nat /\ Len(jobs') =< l
  BY Lengths
<1>2. \A i \in 1..Len(commands') :
          /\ commands'[i] # Shutdown => commands'[i] > h + l
          /\ commands'[i] \notin dropped'
          /\ commands'[i] \in Nat
  <2>1. \A i \in 1..Len(commands) :
            /\ commands[i] # Shutdown => commands[i] > h + l
            /\ commands[i] \notin dropped /\ commands[i] \notin Unanswered
            /\ commands[i] \in Nat
    <3> SUFFICES ASSUME NEW i \in 1..Len(commands)
                 PROVE  commands[i] \notin Unanswered /\ commands[i] \in Nat
      BY DEF PlaceInv
    <3>1. commands[i] \in Nat
      BY DEF Basics, TypeOK, Numbers, Shutdown
    <3>2. CASE commands[i] = Shutdown
      BY <3>1, <3>2, UnansweredIn DEF Numbers, Shutdown
    <3>3. CASE commands[i] # Shutdown
      <4>1. commands[i] \in Members(commands) \ {Shutdown}
        BY <3>3 DEF Members
      <4> QED BY <3>1, <4>1, Places
    <3> QED BY <3>1, <3>2, <3>3
  <2>2. CASE UNCHANGED commands /\ dropped' \subseteq dropped \cup Unanswered
    BY <2>1, <2>2
  <2>3. CASE commands' = <<>>
    BY <2>3
  <2>4. CASE commands # <<>> /\ commands' = Tail(commands) /\ UNCHANGED dropped
    <3>1. \A i \in 1..Len(commands') :
              i + 1 \in 1..Len(commands) /\ commands'[i] = commands[i + 1]
      BY <2>4, TailKeepsPlaces
    <3> QED BY <2>1, <2>4, <3>1
  <2> QED BY <2>2, <2>3, <2>4
<1>3. \A i, j \in 1..Len(commands') :
          i < j => commands'[i] < commands'[j] \/ commands'[j] = Shutdown
  <2>1. CASE UNCHANGED commands
    BY <2>1 DEF PlaceInv
  <2>2. CASE commands' = <<>>
    BY <2>2
  <2>3. CASE commands # <<>> /\ commands' = Tail(commands)
    BY <2>3, TailKeepsPlaces
  <2> QED BY <2>1, <2>2, <2>3
<1>4. \A i \in 1..Len(commands') :
          commands'[i] # Shutdown => commands'[i] > Len(handled') + Len(jobs')
  BY <1>1, <1>2
<1>5. done \cap dropped' = {}
  BY Places DEF PlaceInv
<1>6. worker' # "stopped" => \A c \in dropped' : c > Len(handled') + Len(jobs')
  BY Places DEF PlaceInv
<1>7. AtWork' => AtWork
  BY DEF AtWork
<1> QED BY <1>2, <1>3, <1>4, <1>5, <1>6, <1>7 DEF PlaceInv

\* Every step keeps each command in one place.
LEMMA PlaceStep ==
    ASSUME Basics, QueueInv, NoneLost, PlaceInv, [Next]_vars
    PROVE  PlaceInv'
<1>1. CASE UNCHANGED <<commands, jobs, handled, worker, done, dropped>>
  BY <1>1 DEF PlaceInv, AtWork
<1>2. CASE ReadExit \/ ReadCommand
  BY <1>2, ReadKeepsPlaces
<1>3. CASE Forward
  BY <1>3, ForwardKeepsPlaces
<1>4. CASE TakeJob
  <2>1. /\ jobs # <<>> /\ worker = "idle" /\ worker' = "busy"
        /\ jobs' = Tail(jobs) /\ handled' = Append(handled, Head(jobs))
        /\ UNCHANGED <<commands, done, dropped>>
    BY <1>4 DEF TakeJob
  <2>2. /\ Len(jobs) \in Nat /\ Len(handled) \in Nat
        /\ Len(jobs') = Len(jobs) - 1 /\ Len(handled') = Len(handled) + 1
    <3>1. Head(jobs) \in Numbers
      BY <2>1 DEF Basics, TypeOK
    <3> QED BY <2>1, <3>1, Lengths DEF Basics, TypeOK
  <2>3. Len(handled') + Len(jobs') = Len(handled) + Len(jobs)
    BY <2>2
  <2>4. \A c \in done : c \in 1..Len(handled') /\ c # Len(handled')
    BY <2>2 DEF PlaceInv
  <2> QED BY <2>1, <2>3, <2>4 DEF PlaceInv
<1>5. CASE JobDone
  <2>1. /\ worker = "busy" /\ worker' = "idle" /\ done' = done \cup {Len(handled)}
        /\ UNCHANGED <<commands, jobs, handled, dropped>>
    BY <1>5, Places DEF JobDone, AtWork
  <2>2. Len(handled) \in 1..Len(handled) /\ Len(handled) \notin dropped
    <3>1. Len(handled) \in Nat \ {0} /\ Len(jobs) \in Nat
      BY <2>1, Lengths DEF Basics, TypeOK, WorkInv
    <3>2. ~(Len(handled) > Len(handled) + Len(jobs))
      BY <3>1
    <3> QED BY <2>1, <3>1, <3>2 DEF PlaceInv
  <2> QED BY <2>1, <2>2 DEF PlaceInv, AtWork
<1>6. CASE JobHangs
  BY <1>6 DEF JobHangs, PlaceInv, AtWork
<1>7. CASE BeginShutdown
  BY <1>7, DropKeepsPlaces DEF BeginShutdown
<1>8. CASE PeerEnded
  BY <1>8, DropKeepsPlaces DEF PeerEnded, Return
<1>9. CASE AwaitWorker
  BY <1>9, DropKeepsPlaces DEF AwaitWorker, Return
<1>10. CASE WorkerStops
  BY <1>10, DropKeepsPlaces DEF WorkerStops
<1>11. CASE \/ \E k \in Commands \cup {"exit"} : Type(k)
            \/ Resume \/ DrawFails \/ AwaitPeer \/ Leave \/ PeerMoves \/ UNCHANGED vars
  BY <1>1, <1>11 DEF Type, Resume, DrawFails, AwaitPeer, Leave, PeerMoves, vars
<1> QED
  BY <1>2, <1>3, <1>4, <1>5, <1>6, <1>7, <1>8, <1>9, <1>10, <1>11 DEF Next, Tui, Run, Worker

\* Giving up commands that nobody has answered is one step of the service.
LEMMA CloseIsOneStep ==
    ASSUME Basics, QueueInv, NoneLost, PlaceInv,
           NEW S, S \subseteq Unanswered \cup (Members(commands) \ {Shutdown}),
           S \cap dropped = {},
           dropped' = dropped \cup S, stop',
           AtWork' <=> AtWork /\ Len(handled) \notin S,
           UNCHANGED <<issued, handled, done, reported>>
    PROVE  Promise!Next
<1>1. S \subseteq 1..issued
  BY DEF NoneLost
<1>2. S \cap (done \cup dropped) = {}
  BY Places
<1>3. stop' = TRUE
  BY BasicStep DEF Basics, TypeOK
<1>4. (worker \in {"busy", "hung"})' = (worker \in {"busy", "hung"} /\ Len(handled) \notin S)
  BY DEF AtWork
<1>5. Promise!Close(S)
  BY <1>1, <1>2, <1>3, <1>4 DEF Promise!Close
<1> QED BY <1>1, <1>5 DEF Promise!Next

\* Every step of the tasks is one of the service, or none that it knows of.
LEMMA ServiceStep ==
    ASSUME Basics, Basics', QueueInv, NoneLost, PlaceInv, [Next]_vars
    PROVE  [Promise!Next]_(Promise!vars)
<1> SUFFICES Promise!Next \/ UNCHANGED Promise!vars
  OBVIOUS
<1>1. CASE UNCHANGED <<worker, issued, handled, done, dropped, reported, stop>>
  BY <1>1 DEF Promise!vars
<1>2. CASE ReadCommand
  <2>1. CASE issued' = issued + 1
    BY <1>2, <2>1 DEF ReadCommand, Promise!Issue, Promise!Next
  <2>2. CASE issued' = issued
    BY <1>1, <1>2, <2>2 DEF ReadCommand
  <2> QED BY <1>2, <2>1, <2>2 DEF ReadCommand
<1>3. CASE Resume
  BY <1>3 DEF Resume, Answered, Promise!Report, Promise!Next
<1>4. CASE BeginShutdown
  <2>1. /\ stop' = TRUE /\ dropped' = dropped \cup {}
        /\ UNCHANGED <<worker, issued, handled, done, reported>>
    BY <1>4 DEF BeginShutdown
  <2> QED BY <2>1, CloseIsOneStep DEF AtWork
<1>5. CASE PeerEnded
  <2> DEFINE S == Members(commands) \ {Shutdown}
  <2>1. /\ stop' = TRUE /\ dropped' = dropped \cup S
        /\ UNCHANGED <<worker, issued, handled, done, reported>>
    BY <1>5 DEF PeerEnded, Return
  <2>2. S \cap dropped = {} /\ (AtWork => Len(handled) \notin S)
    BY Places DEF Unanswered
  <2> HIDE DEF S
  <2>3. S \subseteq Unanswered \cup (Members(commands) \ {Shutdown})
    BY DEF S
  <2> QED BY <2>1, <2>2, <2>3, CloseIsOneStep DEF AtWork
<1>6. CASE AwaitWorker
  <2> DEFINE A == Unanswered \ dropped
             S == A \cup (Members(commands) \ {Shutdown})
  <2>1. /\ stop' /\ dropped' = dropped \cup Unanswered \cup (Members(commands) \ {Shutdown})
        /\ worker' = "stopped"
        /\ UNCHANGED <<issued, handled, done, reported>>
    BY <1>6 DEF AwaitWorker, Return, Basics, StopInv
  <2>2. dropped' = dropped \cup S /\ S \cap dropped = {}
    BY <2>1, Places
  <2>3. ~AtWork'
    BY <2>1 DEF AtWork
  <2>4. AtWork => Len(handled) \in S
    BY Places DEF Unanswered, AtWork
  <2>5. S \subseteq Unanswered \cup (Members(commands) \ {Shutdown})
    OBVIOUS
  <2> HIDE DEF S
  <2> QED BY <2>1, <2>2, <2>3, <2>4, <2>5, CloseIsOneStep
<1>7. CASE TakeJob
  <2>1. /\ jobs # <<>> /\ worker = "idle" /\ worker' = "busy"
        /\ handled' = Append(handled, Head(jobs))
        /\ UNCHANGED <<issued, done, dropped, reported, stop>>
    BY <1>7 DEF TakeJob
  <2>2. /\ Len(jobs) \in Nat \ {0} /\ Len(handled) \in Nat /\ issued \in Nat
        /\ Head(jobs) = jobs[1]
    BY <2>1, Lengths DEF Basics, TypeOK
  <2>3. 1 \in 1..Len(jobs)
    BY <2>2
  <2>4. Head(jobs) = Len(handled) + 1 /\ Len(handled) + Len(jobs) =< issued
    BY <2>2, <2>3 DEF QueueInv
  <2>5. Len(handled) + 1 \in 1..issued
    BY <2>2, <2>4
  <2>6. Len(handled) + 1 \notin dropped
    <3>1. ~(Len(handled) + 1 > Len(handled) + Len(jobs))
      BY <2>2
    <3> QED BY <2>1, <3>1 DEF PlaceInv
  <2>7. Promise!Handle
    BY <2>1, <2>4, <2>5, <2>6 DEF Promise!Handle
  <2> QED BY <2>7 DEF Promise!Next
<1>8. CASE JobDone
  <2>1. /\ worker = "busy" /\ worker' = "idle" /\ done' = done \cup {Len(handled)}
        /\ UNCHANGED <<issued, handled, dropped, reported, stop>>
    BY <1>8, Places DEF JobDone, AtWork
  <2>2. Promise!Answer
    BY <2>1 DEF Promise!Answer
  <2> QED BY <2>2 DEF Promise!Next
<1>9. CASE JobHangs
  BY <1>9 DEF JobHangs, Promise!vars
<1>10. CASE WorkerStops
  <2>1. /\ worker = "idle" /\ worker' = "stopped" /\ stop' /\ dropped' = dropped \cup Unanswered
        /\ UNCHANGED <<issued, handled, done, reported>>
    BY <1>10 DEF WorkerStops
  <2>2. ~AtWork /\ ~AtWork' /\ Unanswered \cap dropped = {}
    BY <2>1, Places DEF AtWork
  <2> QED BY <2>1, <2>2, CloseIsOneStep
<1>11. CASE \/ \E k \in Commands \cup {"exit"} : Type(k)
            \/ ReadExit \/ DrawFails \/ Forward \/ AwaitPeer \/ Leave \/ PeerMoves
            \/ UNCHANGED vars
  BY <1>1, <1>11 DEF Type, ReadExit, DrawFails, Forward, AwaitPeer, Leave, PeerMoves, vars
<1> QED
  BY <1>2, <1>3, <1>4, <1>5, <1>6, <1>7, <1>8, <1>9, <1>10, <1>11 DEF Next, Tui, Run, Worker

\* A command service is what the tasks, the channels and the shutdown make together:
\* in order, one at a time, each command answered or given up and never both, and
\* called complete only then.
THEOREM ImplementsService == Spec => CommandSpec
<1>1. Init => Promise!Init
  BY DEF Init, Promise!Init
<1>2. Init => PlaceInv
  <2> SUFFICES ASSUME Init PROVE PlaceInv
    OBVIOUS
  <2>1. Len(commands) = 0 /\ done = {} /\ dropped = {} /\ ~AtWork
    BY DEF Init, AtWork
  <2> QED BY <2>1 DEF PlaceInv
<1>3. Spec => []PlaceInv
  BY <1>2, BasicsHold, QueueInit, QueueStep, CommandsAreAccountedFor, PlaceStep, PTL DEF Spec
<1>4. Spec => []QueueInv
  BY BasicsHold, QueueInit, QueueStep, PTL DEF Spec
<1>5. Basics /\ Basics' /\ QueueInv /\ NoneLost /\ PlaceInv /\ [Next]_vars
          => [Promise!Next]_(Promise!vars)
  BY ServiceStep
<1> QED BY <1>1, <1>3, <1>4, <1>5, BasicsHold, CommandsAreAccountedFor, PTL
        DEF Spec, CommandSpec, Promise!Spec
=============================================================================
