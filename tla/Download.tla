------------------------------- MODULE Download -------------------------------
(***************************************************************************)
(* A node downloading one file from its peers: TransferWorker::download and  *)
(* download_blocks (node/src/transfer_worker.rs), with the peers' block      *)
(* servers (peer_server.rs, local_files.rs) and the progress bar (tui.rs).   *)
(*                                                                           *)
(* A download takes the list of holders from the tracker once, spawns one    *)
(* task per block, and awaits the tasks in order.  When one has failed the   *)
(* download is over, but the others run on, detached, with nobody awaiting   *)
(* them: that is why tasks are indexed by download.                          *)
(*                                                                           *)
(* A block is the half-open interval of the file it covers.                  *)
(***************************************************************************)
EXTENDS Naturals, Sequences, FiniteSets

CONSTANTS Peers,       \* nodes, the downloading one included
          Self,        \* the downloading node
          None,        \* no peer yet
          Setups,      \* choices of a --block-size for every node, and of the number
                       \* of names it has the file under
          FileSize,    \* length of the file
          Downloads,   \* bound on the download commands of a behaviour
          MayHang,     \* whether a peer may take a request and never answer
          MayCorrupt   \* whether a peer may serve bytes that changed after its scan

ASSUME DownloadAssumption ==
    /\ Self \in Peers /\ None \notin Peers
    /\ FileSize \in Nat \ {0} /\ Downloads \in Nat
    /\ Setups \subseteq [size : [Peers -> Nat \ {0}], names : [Peers -> Nat \ {0}]]
    /\ MayHang \in BOOLEAN /\ MayCorrupt \in BOOLEAN

Rounds == 1..Downloads
Blocks == 0..(FileSize - 1)

VARIABLES block_size, \* block_size[p] is the --block-size p runs with: fixed
          names,     \* names[p] is the number of names p has the file under: fixed
          host,      \* "up", "down" or "hung": the block server of each node
          holders,   \* nodes whose share directory has the file
          listing,   \* location.peers of the tracker: who holds it, once per name
          round,     \* number of the latest download
          phase,     \* what the worker does: "idle", "fetching" or "publishing"
          plan,      \* per download, the listing it was given
          task,      \* per download and block, the task that fetches it
          counter,   \* per download, downloaded_count
          refused,   \* history: <<download, block, peer>> that gave no valid block
          result,    \* per download, how it ended
          shown      \* progress, with the download that sent it

fixed == <<block_size, names>>
vars == <<fixed, host, holders, listing, round, phase, plan, task, counter, refused,
          result, shown>>
world == <<fixed, host, holders, listing>>

-----------------------------------------------------------------------------
(* Which peer is asked for which block.                                     *)

\* The number of blocks p cuts the file into, when block_size[p] divides the buffer of
\* index_file or the file is no longer than that buffer: for others see BlockIndexer.
BlockCount(p) == (FileSize + block_size[p] - 1) \div block_size[p]

\* The elements of s in S, in their order: SelectSeq, as a function the provers can
\* look into.
Only(s, S) ==
    LET kept[i \in 0..Len(s)] ==
            IF i = 0 THEN <<>>
            ELSE IF s[i] \in S THEN Append(kept[i - 1], s[i]) ELSE kept[i - 1]
    IN kept[Len(s)]

\* peers.sort_by_key(|peer| peer.node_id == self_node_id): stable, self last
SelfLast(s) == Only(s, Peers \ {Self}) \o Only(s, {Self})

\* Mutants: the rotation stops at the end of the list; there is none.
Rotate_Clamped(s, shift) ==
    [i \in 1..Len(s) |-> s[IF i + shift =< Len(s) THEN i + shift ELSE Len(s)]]
Rotate_Not(s, shift) == s

\* rotated_peers[i] = peers[(i + shift) % total_peers]
Rotate(s, shift) == [i \in 1..Len(s) |-> s[((i - 1 + shift) % Len(s)) + 1]]

Providers(s, b) == Only(s, {p \in Peers : b < BlockCount(p)})

\* get_candidates_for_block
Candidates(s, b) == LET peers == SelfLast(Providers(s, b)) IN Rotate(peers, b)

\* available_blocks of the location, and the blocks a download fetches
Offered(s) == {b \in Blocks : \E i \in 1..Len(s) : b < BlockCount(s[i])}
Wanted(d) == Offered(plan[d])

-----------------------------------------------------------------------------
NoTask == [st |-> "none", k |-> 1, value |-> 0, from |-> None, good |-> TRUE]
\* Mutant: candidates counted from 0.
Start_FromZero == [NoTask EXCEPT !.st = "asking", !.k = 0]

Start == [NoTask EXCEPT !.st = "asking"]

Init ==
    /\ \E s \in Setups : block_size = s.size /\ names = s.names
    /\ host = [p \in Peers |-> "up"]
    /\ holders \in SUBSET (Peers \ {Self})
    /\ listing = <<>>
    /\ round = 0 /\ phase = "idle"
    /\ plan = [d \in Rounds |-> <<>>]
    /\ task = [d \in Rounds |-> [b \in Blocks |-> NoTask]]
    /\ counter = [d \in Rounds |-> 0]
    /\ refused = {}
    /\ result = [d \in Rounds |-> "none"]
    /\ shown = [round |-> 0, blocks |-> 0, total |-> 0]

(* The worker.                                                              *)

\* resolve_download_target answers with a location: one task per block starts,
\* and the progress bar is reset.  (No location: the command fails at once.)
Resolve ==
    LET d == round + 1 IN
    /\ phase = "idle" /\ d \in Rounds /\ listing # <<>>
    /\ round' = d
    /\ phase' = "fetching"
    /\ plan' = [plan EXCEPT ![d] = listing]
    /\ task' = [task EXCEPT ![d] =
                   [b \in Blocks |-> IF b \in Offered(listing) THEN Start ELSE NoTask]]
    /\ shown' = [round |-> d, blocks |-> 0, total |-> Cardinality(Offered(listing))]
    /\ UNCHANGED <<world, counter, refused, result>>

\* What can come back from peer p: a block it has cut as it announced, bytes
\* that changed between its scan and its read, or an error (connection refused,
\* 404, 500).  A hung peer sends nothing, and no timeout ends the wait.
Answers(p) ==
    CASE host[p] = "hung" -> {}
      [] host[p] = "up" /\ p \in holders -> {"block"} \cup IF MayCorrupt THEN {"bad"} ELSE {}
      [] OTHER -> {"error"}

\* Mutant: the hash of the block is not compared.
Accepted_Any(answer) == answer # "error"

\* fetch_block returns Ok: 200, and the hash is the announced one.
Accepted(answer) == answer = "block"

Asked(d, b) == Candidates(plan[d], b)[task[d][b].k]

\* Mutant: one counter for all downloads.
Fetched_SharedCounter(d, b) ==
    /\ task[d][b].st = "asking"
    /\ \E answer \in Answers(Asked(d, b)) :
          /\ Accepted(answer)
          /\ task' = [task EXCEPT ![d][b] =
                 [@ EXCEPT !.st = "counted", !.value = counter[round] + 1,
                           !.from = Asked(d, b), !.good = answer = "block"]]
    /\ counter' = [counter EXCEPT ![round] = @ + 1]
    /\ UNCHANGED <<world, round, phase, plan, refused, result, shown>>

\* The task counts the block, and holds a number to report.
Fetched(d, b) ==
    /\ task[d][b].st = "asking"
    /\ \E answer \in Answers(Asked(d, b)) :
          /\ Accepted(answer)
          /\ task' = [task EXCEPT ![d][b] =
                 [@ EXCEPT !.st = "counted", !.value = counter[d] + 1,
                           !.from = Asked(d, b), !.good = answer = "block"]]
    /\ counter' = [counter EXCEPT ![d] = @ + 1]
    /\ UNCHANGED <<world, round, phase, plan, refused, result, shown>>

\* Mutant: the same candidate is asked for ever.
Refused_Again(d, b) ==
    /\ task[d][b].st = "asking"
    /\ \E answer \in Answers(Asked(d, b)) : ~Accepted(answer)
    /\ refused' = refused \cup {<<d, b, Asked(d, b)>>}
    /\ UNCHANGED <<world, round, phase, plan, task, counter, result, shown>>

\* Err: on to the next candidate, or "All peers failed".
Refused(d, b) ==
    /\ task[d][b].st = "asking"
    /\ \E answer \in Answers(Asked(d, b)) : ~Accepted(answer)
    /\ task' = IF task[d][b].k < Len(Candidates(plan[d], b))
                THEN [task EXCEPT ![d][b].k = @ + 1]
                ELSE [task EXCEPT ![d][b].st = "failed"]
    /\ refused' = refused \cup {<<d, b, Asked(d, b)>>}
    /\ UNCHANGED <<world, round, phase, plan, counter, result, shown>>

\* ProgressUpdate, sent after the counter was incremented, detached or not
Report(d, b) ==
    /\ task[d][b].st = "counted"
    /\ task' = [task EXCEPT ![d][b].st = "done"]
    /\ shown' = [round |-> d, blocks |-> task[d][b].value, total |-> Cardinality(Wanted(d))]
    /\ UNCHANGED <<world, round, phase, plan, counter, refused, result>>

Settle(outcome) ==
    /\ phase' = "idle"
    /\ result' = [result EXCEPT ![round] = outcome]

\* Mutant: the first refusal ends the download.
GiveUp_FirstRefusal ==
    /\ phase = "fetching"
    /\ \E b \in Wanted(round) : task[round][b].k > 1 \/ task[round][b].st = "failed"
    /\ Settle("failed")
    /\ UNCHANGED <<world, round, plan, task, counter, refused, shown>>

\* A task has failed and those awaited before it are done: `handle.await??'
\* returns the error.
GiveUp ==
    /\ phase = "fetching"
    /\ \E b \in Wanted(round) :
          /\ task[round][b].st = "failed"
          /\ \A c \in Wanted(round) : c < b => task[round][c].st = "done"
    /\ Settle("failed")
    /\ UNCHANGED <<world, round, plan, task, counter, refused, shown>>

\* Where the block a task got lies in the file.
From(d, b) == b * block_size[task[d][b].from]
Upto(d, b) == LET e == From(d, b) + block_size[task[d][b].from]
               IN IF e < FileSize THEN e ELSE FileSize

\* The blocks, in order of their index, are the file from end to end.
Whole(d) ==
    \A b \in Wanted(d) :
        /\ task[d][b].good
        /\ From(d, b) = IF b = 0 THEN 0 ELSE Upto(d, b - 1)
        /\ b + 1 \notin Wanted(d) => Upto(d, b) = FileSize

\* join_blocks and the comparison of the whole file's hash
HashMatches(d) == Whole(d)

Joined(d) == phase = "fetching" /\ \A b \in Wanted(d) : task[d][b].st = "done"

Save ==
    /\ Joined(round) /\ HashMatches(round)
    /\ holders' = holders \cup {Self}
    /\ phase' = "publishing"
    /\ UNCHANGED <<fixed, host, listing, round, plan, task, counter, refused, result, shown>>

Reject ==
    /\ Joined(round) /\ ~HashMatches(round)
    /\ Settle("mismatch")
    /\ UNCHANGED <<world, round, plan, task, counter, refused, shown>>

Listed(p) == \E i \in 1..Len(listing) : listing[i] = p

\* The tracker stores a report of p: build_file_index makes p a peer once for each
\* name it has the file under, and an update keeps the place of the record.
Enlist(p) ==
    listing' = IF Listed(p) THEN listing ELSE listing \o [n \in 1..names[p] |-> p]

\* publish_local_files after the download
Publish ==
    /\ phase = "publishing"
    /\ Enlist(Self)
    /\ Settle("saved")
    /\ UNCHANGED <<fixed, host, holders, round, plan, task, counter, refused, shown>>

\* The tracker is out of reach: the command fails, the file stays.
PublishFails ==
    /\ phase = "publishing"
    /\ Settle("unpublished")
    /\ UNCHANGED <<world, round, plan, task, counter, refused, shown>>

-----------------------------------------------------------------------------
(* The other nodes and the tracker.                                         *)

others == <<round, phase, plan, task, counter, refused, result, shown>>

Announces(p) ==
    /\ p # Self /\ host[p] = "up" /\ p \in holders /\ ~Listed(p)
    /\ Enlist(p)
    /\ UNCHANGED <<fixed, host, holders, others>>

\* offline, or the TTL of a record nobody refreshed
Expires(p) ==
    /\ Listed(p)
    /\ listing' = Only(listing, Peers \ {p})
    /\ UNCHANGED <<fixed, host, holders, others>>

Fails(p) ==
    /\ p # Self /\ host[p] = "up"
    /\ host' = [host EXCEPT ![p] = "down"]
    /\ UNCHANGED <<fixed, holders, listing, others>>

Hangs(p) ==
    /\ MayHang /\ p # Self /\ host[p] = "up"
    /\ host' = [host EXCEPT ![p] = "hung"]
    /\ UNCHANGED <<fixed, holders, listing, others>>

Deletes(p) ==
    /\ p \in holders
    /\ holders' = holders \ {p}
    /\ UNCHANGED <<fixed, host, listing, others>>

Step(d, b) == Fetched(d, b) \/ Refused(d, b) \/ Report(d, b)
Worker == Resolve \/ GiveUp \/ Save \/ Reject \/ Publish \/ PublishFails

Next ==
    \/ Worker
    \/ \E d \in Rounds, b \in Blocks : Step(d, b)
    \/ \E p \in Peers : Announces(p) \/ Expires(p) \/ Fails(p) \/ Hangs(p) \/ Deletes(p)

Spec == Init /\ [][Next]_vars

\* tokio runs every task that can go on; nobody has to start a download, and the
\* tracker need not answer the report that follows one.
FairSpec ==
    /\ Spec
    /\ \A d \in Rounds : \A b \in Blocks : WF_vars(Step(d, b))
    /\ WF_vars(GiveUp \/ Save \/ Reject)

-----------------------------------------------------------------------------
Task == [st : {"none", "asking", "counted", "done", "failed"}, k : Nat \ {0},
         value : 0..FileSize, from : Peers \cup {None}, good : BOOLEAN]

\* The state of the downloads and of the nodes is well formed.
TypeOK ==
    /\ [size |-> block_size, names |-> names] \in Setups
    /\ host \in [Peers -> {"up", "down", "hung"}]
    /\ holders \subseteq Peers
    /\ listing \in Seq(Peers)
    /\ round \in 0..Downloads
    /\ phase \in {"idle", "fetching", "publishing"}
    /\ plan \in [Rounds -> Seq(Peers)]
    /\ task \in [Rounds -> [Blocks -> Task]]
    /\ counter \in [Rounds -> 0..FileSize]
    /\ refused \subseteq Rounds \X Blocks \X Peers
    /\ result \in [Rounds -> {"none", "failed", "mismatch", "saved", "unpublished"}]
    /\ shown \in [round : 0..Downloads, blocks : 0..FileSize, total : 0..FileSize]

\* A download gives up only over a block that each of its providers has refused.
FailsForCause ==
    \A d \in Rounds : result[d] = "failed" =>
        \E b \in Wanted(d) : \A i \in 1..Len(plan[d]) :
            b < BlockCount(plan[d][i]) => <<d, b, plan[d][i]>> \in refused

Counting(d) == {b \in Blocks : task[d][b].st \in {"counted", "done"}}

\* Every value of the counter is held by one task and the last one is the number
\* of blocks: tasks running in parallel lose no count and repeat none.
CountsAreExact ==
    \A d \in Rounds :
        /\ \A b, c \in Counting(d) : b # c => task[d][b].value # task[d][c].value
        /\ {task[d][b].value : b \in Counting(d)} = 1..counter[d]

\* How often a listing names p, and the blocks of d that p is asked for first.
Times(s, p) == Cardinality({i \in 1..Len(s) : s[i] = p})
Share(d, p) == {b \in Wanted(d) : Candidates(plan[d], b)[1] = p}

\* Peers that cut the file alike are first choice for equally many blocks, give or
\* take one, FOR EACH NAME they have the file under: a node that has it twice is asked
\* twice as often.
SharesAreFair ==
    \A d \in Rounds : \A i, j \in 1..Len(plan[d]) :
        LET p == plan[d][i]
            q == plan[d][j]
        IN (\A n \in 1..Len(plan[d]) : block_size[plan[d][n]] = block_size[plan[d][1]]) =>
               Cardinality(Share(d, p)) * Times(plan[d], q) =<
                   (Cardinality(Share(d, q)) + Times(plan[d], q)) * Times(plan[d], p)

\* Every download has its blocks or fails, and is then put together or rejected,
\* unless a peer hangs: no request has a timeout.  (The report to the tracker that
\* follows has none either, and may never be answered.)
Ends == phase = "fetching" ~> phase # "fetching" \/ \E p \in Peers : host[p] = "hung"

Lost(d) == {b \in Blocks : task[d][b].st = "failed"}
Outcome(d) == IF d # round \/ phase = "idle" THEN result[d]
              ELSE IF phase = "fetching" THEN "running" ELSE "kept"

\* Whatever the tasks of earlier downloads still do, the downloads are those of Transfer.
Promise == INSTANCE Transfer
               WITH latest <- round, count <- counter, present <- Self \in holders,
                    wanted <- [d \in Rounds |-> Wanted(d)],
                    got <- [d \in Rounds |-> Counting(d)],
                    lost <- [d \in Rounds |-> Lost(d)],
                    outcome <- [d \in Rounds |-> Outcome(d)]
TransferSpec == Promise!Spec

\* If all peers cut the file alike, a download that got all its blocks saves it.
NoFalseAlarm ==
    \A d \in Rounds : result[d] = "mismatch" =>
        \E i, j \in 1..Len(plan[d]) : block_size[plan[d][i]] # block_size[plan[d][j]]

\* The progress shown is that of the latest download.
ShowsLatest == shown.round = round

\* All blocks of one file arrived and verified: the file is saved.
BlocksMakeTheFile == \A d \in Rounds : result[d] # "mismatch"
=============================================================================
