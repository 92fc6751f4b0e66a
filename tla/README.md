# A verification development of the resource distribution system

The repository is a small file sharing system. A **tracker** (Python) keeps a
directory: which node holds which files, cut into which blocks. **Nodes** (Rust)
report their share directory to the tracker, ask it who holds a file, fetch the
blocks from each other in parallel, check them against their hashes, and put the
file together. Tracker and nodes talk HTTP/JSON; so do nodes among themselves.

This directory holds TLA+ modules translated from the source, TLC runs over small
instances, and TLAPS proofs for arbitrary constants. `PROJECT.json` gives the
exact source lines of every definition (`map`), the runs, and for every property a
mutation of the code model that breaks it.

Contents: [inventory](#inventory) · [modules](#modules) · [runs](#runs) ·
[fairness](#fairness) · [proofs](#proofs) · [disagreements](#disagreements-found) ·
[abstractions](#abstractions-and-limits) · [plan](#plan)

## Inventory

| component | source | state it keeps | operations |
|---|---|---|---|
| registry | `tracker/tracker/registry.py` | `_nodes` (id → record with expiry), `state_path`, its `.tmp`, one re-entrant lock | update, offline, cleanup, list, file index, snapshot, load, save |
| tracker server | `tracker/tracker/server.py` | handler threads (daemons), the cleanup thread, a stop event | HTTP routes onto registry calls; `run_tracker` starts and stops the process |
| tracker client | `tracker/tracker/client.py` | none | command line requests with a 5 s timeout |
| node runtime | `node/src/node_runtime.rs`, `signal.rs` | four channels (commands, worker commands, `watch` for shutdown, 32-message broadcast) and the tasks | start, forward commands, shut down with a 2 s grace period |
| transfer worker | `node/src/transfer_worker.rs` | per download: the location, one task per block, `downloaded_count` | publish, list, mark offline, download |
| block server | `node/src/peer_server.rs` | none beside its configuration | `GET /api/v1/blocks` |
| local files | `node/src/local_files.rs` | the share directory | index a file into blocks, read a block back |
| terminal UI | `node/src/tui.rs` | progress, task information, history, input line | read keys, issue commands, show broadcast messages |
| tracker protocol | `node/src/tracker_client.rs`, `tracker_dto.rs` | none | update, query, list, offline and their JSON forms |
| node ids | `node/src/random_id.rs`, `main.rs` | none | one id for each start of the process |
| command line, old shell | `node/src/node_shell.rs` | none | arguments; the old shell's loop is not called any more |

**How they interact.** Node → tracker: `update` (the whole resource list, which
replaces the previous one and renews the lease), `offline`, `query`, `files`.
Node → node: one request per block. Inside a node: the UI sends commands to the
runtime, which forwards them to the worker, which handles one at a time and tells
the UI through the broadcast channel; for `update`, `list` and `offline` the UI
awaits the worker, for `download` it does not. Inside the tracker all threads
share the registry under its lock, and every change is saved under that lock.

**What is hard in it.**

* the registry's calls interleave with the cleanup thread; time stamps are taken
  before the lock; a save is two file operations and can fail or be cut off in
  the middle; a restart loads what the last complete save left;
* a download runs on a plan made from one answer of the tracker, while its peers
  go down, hang, delete or change the file; tasks of a failed download outlive it;
* blocks are matched by their index between nodes that may cut the file
  differently, and between the scan that announced them and the read that serves
  them;
* what a node saves it announces, and what it announces others download: a torn file,
  a file overwritten by a download, a report refused, lost or overtaken by a crash
  spread through the tracker's index to other nodes;
* each start of a node draws a new id, while the record of the previous one lives on;
* the interface does not read its broadcast channel while it awaits an answer, and
  the channel drops what it cannot hold;
* shutting a node down races with the command in progress, with the answers the
  interface waits for, and with a block server that fails to start.

**What makes each component correct.** Registry: an acknowledged lease survives
any crash until it ends; nothing is dropped early; nothing lapsed is kept or told;
the state file is always one state of an abstract directory. Download: a failure has
a cause at every provider; holders that cut the file alike cause no false alarm; load is
spread evenly over the names it is listed under; every fetching of blocks ends; counts are
exact. Local files: the blocks of an index are the file, and what is served under
an index is what was announced under it. Nodes and tracker together: what is listed
is a file some user put; the record of a running node is its directory; the index is exact, and a later report renames nothing. Runtime: commands are handled in the order
they were given, each is answered or its waiter told that no answer will come, `exit` stops the node, and how a command ended gets on the console.

The full list of hazards, each at its line and with the properties that cover it,
is in `PROJECT.json`.

## Modules

`Directory` ← refined by ← `Registry` ← extended by ← `RegistryProofs`, `MCRegistry`;
`Catalog` ← `Swarm` ← `MCSwarm`; `Catalog` ← `CatalogProofs`; `Swarm` and `CatalogProofs` ← `SwarmProofs`;
`Transfer` ← refined by ← `Download` ← `DownloadProofs`, `MCDownload`;
`CommandService` ← refined by ← `NodeRuntime` ← `NodeRuntimeProofs`, `MCNodeRuntime`;
`NodeRuntime` ← extended and refined by ← `Console` ← `ConsoleProofs`, `MCConsole`;
`BlockIndexer` ← `BlockIndexerProofs`, `MCBlockIndexer`;
`NaturalInduction` ← `CatalogProofs`, `DownloadProofs`, `BlockIndexerProofs`.

### Directory

The abstract specification of what the tracker promises: one map from nodes to
leases and a clock. A step is one registration (of a lease never more than `TTL` from
now), one withdrawal, or the eviction of leases that have run out. There is no lock, no file, no crash.

### Registry

The tracker process. A thread carries a call through
`idle → waiting → save → replace → finish → idle`; `waiting` is before
`with self._lock`, the rest is inside it.

| in the model | in the code |
|---|---|
| `BeginUpdate` | `update_node` up to the lock: the record with its `expires_at_epoch` is already built |
| `EnterUpdate`, `EnterOffline`, `EnterSweep` | lock taken and `_nodes` changed; `offline` and the sweep save only if something changed |
| `WriteTemp`, `ReplaceState` | the two halves of `_save_state`: `json.dump` into the temporary file, `os.replace` |
| `Finish` | lock released, answer sent; `snapshot` goes on to its next part and takes the lock again |
| `SaveFails` | `OSError` in either half: the change stays in memory, no answer is sent, the cleanup thread dies, a booting tracker exits |
| `Crash`, `Restart` | the process ends at any point; `_load_state` and its clean-up run before the server listens |
| `SweepStamp` | `cleanup_expired` reads the clock before the lock when called on its own, inside the lock when called by a listing |
| `acked`, `withdrawn` | history only: what clients have been told |

`SaveMayFail` switches file errors. Calls of one node may overlap: a client that timed out
(`client.py`), or whose connection broke, repeats a call whose first copy still waits for the lock.
Listing calls (`/nodes`, `/files`, `/query`) all start by sweeping the table and
then read it; they are one call, `list`.

### Catalog

What the tracker makes of a report, as operators: which it accepts (`Normalizes`: a
file without blocks fails the whole report; `Fits`: the limit on a request body), and
`build_file_index` as its two loops, over the records in the order of the dictionary and
over the resources in the order of the scan (`FileIndex`, `AddRecord`, `AddResource`). Beside it, what the index should be, said
without the loop: `GoesBy`, `Holding`.

### Swarm

Nodes and tracker composed, over share directories. A node is a place: an address and
a directory that outlive the process. `run[n]` is the id of the process there.

| in the model | in the code |
|---|---|
| `UserChanges` | a user puts, replaces or deletes a file; the program does not notice |
| `Start`, `Stop` | a process starts under a fresh id (`generate_node_id`), and ends wherever its worker is: a write is cut short, a report on its way is lost or becomes `late` (`LeavesReport`) |
| `Scan`, `Arrive`, `PublishFails` | `publish_local_files`: the directory is read, the report is handled (`Takes`), or the call fails before that, after it, or in between, and the report becomes `late` |
| `Takes`, `Drops`, `Lapse`, `Reload` | `update_node` and the removal of a record, as changes of a dictionary with an order; after a restart the order is that of `sort_keys` |
| `LateArrives` | a handler thread gets to a report whose connection has broken: its process is gone, or has taken the call for failed and gone on |
| `AskByHash`, `AskByName` | `resolve_download_target`: by hash the location, by name only if it is the only one |
| `Fetch`, `FetchFails` | a block comes from some node that has the file; some block fails everywhere |
| `BeginWrite`, `EndWrite`, `WriteFails` | `tokio::fs::write` to the listed name: truncated first, in place |
| `put`, `cuts`, `stale` | histories: what users have put; whether a write was cut short; what excuses a record from being its directory |

`AskByHash` and `AskByName` use `GoesBy`; `IndexIsExact` says that the index the code builds
gives the same answers.

### Transfer

The abstract specification of what a node's downloads come to, block by block. They run
one at a time. Each block wanted arrives or is lost, once; a download fails only over a
lost block, keeps the file or finds that it does not match only when the last block has
come, and how it ended is never revised, although blocks of a failed one may still arrive
or be lost. There are no peers, no candidates, no tasks and no messages.

`Download!Promise` reads its variables off the tasks: a block has arrived when its task has
counted it, and is lost when its task has failed; `running` and `kept` are the worker's
phases `fetching` and `publishing`.

### Download

One node downloading one file, with the other nodes' block servers and the
tracker's list as environment. `Resolve` takes the list of holders and starts a
task per block; each task asks its candidates in turn (`Fetched`, `Refused`), counts
(`Fetched`) and reports (`Report`) in two separate steps; the worker awaits the tasks
in order (`GiveUp`) and joins, checks, saves and publishes (`Save`, `Reject`, `Publish`,
`PublishFails`). `Candidates` is `get_candidates_for_block`: filter, self last, rotate.
Tasks are indexed by download because `handle.await??` drops the handles of the
others without aborting them.

A block is an interval of the file. Block contents are abstracted to "the bytes of
that interval" or "other bytes", hashes to equality of contents. `block_size` is fixed
at the start, one for each node, so that nodes which cut the file differently are
part of the model. So is `names`, the number of names each node has the file under: the
tracker appends a peer for every resource of a record (`Enlist`, `registry.py` line 240), and
a node with two copies is listed, asked and rotated over twice.

### CommandService

The abstract specification of what a node promises the user who types commands: they
are dealt with one at a time, in the order of their numbers; each is answered or, once
the node is being stopped, given up, never both and never twice; only the last one is
called complete, and only when it has been answered or given up. One step `Close` gives up
any set of commands without an answer, since a shutdown drops them in several places.

`NodeRuntime!Promise` maps to it: a command is at work when the worker is `busy` or `hung`, and the
service is closing once `stop` is set.

### NodeRuntime

The tasks of one node and how they end. A command is a number, given when it is
issued; what the worker does with it is `Download`'s subject, and here only whether
it ends.

| in the model | in the code |
|---|---|
| `keys`, `Type` | lines the user has entered (or Esc) and the interface has not read |
| `ReadCommand`, `Resume` | `handle_command`: send the command, and unless it is `download` await its oneshot answer; while it waits it reads no key and draws nothing |
| `ReadExit` | `exit` and Esc send `RuntimeCommand::Shutdown`, behind the commands sent before |
| `DrawFails` | `terminal.draw` returns an error and the interface ends |
| `commands`, `Forward` | the command channel and `command_loop`, which moves commands to the worker's channel |
| `BeginShutdown`, `PeerEnded` | the arms of `select!` in `run` |
| `AwaitPeer`, `AwaitWorker` | `await_task`: the task ends by itself or is aborted after two seconds |
| `Return`, `Leave` | `run` returns, its receivers go, and `main` ends with the tasks that are left |
| `TakeJob`, `JobDone`, `JobHangs`, `WorkerStops` | the worker's loop; `MayHang` is a request without an answer (the HTTP client has no timeout) |
| `PeerMoves` | the block server: binding, failing to bind, ending gracefully |

`issued`, `handled`, `done`, `dropped` and `reported` are histories, except that an answer
or the loss of its sender is what a waiting interface sees. `BroadcastSignal::Shutdown`
is sent by nobody, so the task that forwards it is left out.

### Console

`NodeRuntime` with the broadcast channel. `Send` never waits: a full channel drops its
oldest line (`Kept`). The worker sends a line for each file of a listing, block tasks send
theirs (`Chats`), also when their download has failed and nobody awaits them
(`leftover`); the last thing `handle` sends for a command is how it ended, an error or
not (`Finishes`). The interface receives when it awaits nothing (`Shows`); when it has
lagged one round of its loop goes by (`CatchesUp`). Every other step is one of
`NodeRuntime`'s, which `ConsoleIsRuntime` proves of all of them.

### BlockIndexer

`index_file` turns each `BufReader::read` into a block; `read_block_by_hash` serves block
`i` from `i * block_size`. The model is that loop over the reader's buffer: three
actions for the three ways a read gets its bytes (`ReadBuffered`, `ReadDirect`,
`ReadFilling`) and the end of the file.

## Runs

Runs that pass:

| run | instance | what it shows |
|---|---|---|
| `registry_promise` | 2 nodes, 2 handler threads, cleanup thread, TTL 2, clock to 3, no file errors, overlapping calls of one node | the state file implements `Directory`; a withdrawn node stays out; listings, and each part of a snapshot, contain nothing that had lapsed on arrival and nothing a crash would lose |
| `registry_faults` | 2 nodes, 1 resource, 2 handler threads, cleanup thread, TTL 1, clock to 1, file errors, no queries | an acknowledged lease survives everything; nothing is dropped early; under fairness a lapsed record is removed even if nobody asks and others compete for the lock, unless a failed save has ended the cleanup thread |
| `swarm` | 2 nodes, 2 starts in all, 2 names, files of 1 and 2 blocks, 3 blocks to a report, 2 changes by users, 1 write cut short; a late report takes the place of a change | what is listed was put by a user; a record is its node's directory; the index is exact; later reports rename no file, until the tracker restarts |
| `download_once` | the node, 2 peers, 3 bytes, block sizes 1 and 2 in every mix with the file under one name, and of size 2 with one node that has it under two; peers may stop, delete or change the file | giving up means every provider refused; equal shares for each name; equal sizes never yield a mismatch |
| `download_again` | the node, 1 peer, 3 bytes in 2 blocks, 2 downloads, peers may also hang, fairness | the downloads are those of `Transfer`; counts are exact beside left-over tasks; every fetching of blocks ends unless a peer hangs |
| `runtime_stops` | `Console`: 3 lines of `update`, `list`, `download` and `exit` in every order, a channel of 2 lines, requests may hang, the block server may fail, the interface may break, fairness | the node is a `CommandService`; commands keep their order and none is lost; a report of completion is true; a shutdown that was asked for ends the process; `exit` is obeyed unless a request hangs; how the last command ended stays in the channel and gets on the console |
| `blocks_any` | buffer 8, all sizes from 1 to 16, files of 0 to 48 bytes | every block is served from where it was indexed just if the size divides the buffer, is no smaller, or the file fits the buffer; blocks tile the file |

Runs that find a disagreement (one each, explained [below](#disagreements-found)):
`registry_offline_retry`, `download_leftover`, `download_sizes`, `runtime_stuck`,
`blocks_unaligned`.

**Why the bounds are enough to be interesting.** Two handler threads and the cleanup
thread give every pairwise overlap of calls, including the three-way race for the
lock; with TTL 2 and a clock to 3 a lease can be renewed, lapse, be swept and be
taken anew; a crash may come at each of these points. Two peers are the least
number for which rotation, a second candidate and different block sizes matter; with
three blocks the rotation wraps around. Two downloads are the least for a left-over
task. Three lines are the least for a command, an exit and one more behind it, so that there
is something in each of the two channels when the node stops; `offline` goes the way of
`update`. A channel of two lines overflows during a listing of two files and can hold the
end of one command before the lines of the next. In `swarm` two starts give a process and
its successor at one place, or two nodes with one downloading from the other; two files
of three blocks in all, under two names, fill a report and overfill it with a copy, give
one name to two files, two names to one, and a torn file that is empty and one that is
not; two changes are the least for a file that is put and replaced. Six buffers are more than the least common period of each block size and the
buffer. `TypeOK` is checked in the first run of each module. `Nodes`, `Handlers`,
`Resources` and the peers are only compared for equality, so the safety runs permute
them (in `swarm` nodes and ids, but not names, which have an order); runs with liveness
properties do not.

Deadlock is checked in all runs of `Registry`. In `Download` a worker with nothing left
to do may stop (`Downloads` is a bound of the model), `BlockIndexer` ends with the
file, the process of `NodeRuntime` ends, and `Swarm` stops when its ids and changes
are used up: these runs do not check it.

## Fairness

* `Registry!FairSpec`: a thread that holds the lock goes on (weak fairness of its
  steps; the OS runs it and nothing inside the lock waits for anything else); the
  cleanup thread's timer fires (weak); a thread waiting for the lock is not passed
  over for ever (strong, for the cleanup thread only: Python's lock is not FIFO,
  but the OS does not starve a waiter for ever). No fairness of clients, crashes,
  restarts or of time.
* `Download!FairSpec`: every task that can go on is run, and so is the worker (tokio
  polls what is ready). Nobody is obliged to start a download. A peer that was asked
  answers or refuses, unless it hangs: a hung peer leaves the task disabled, which is
  exactly what a request without a timeout is, and `Ends` excepts it. The publish after a
  download has no fairness: the tracker need not answer, and its client has no timeout
  either (`tracker_client.rs` line 19); so `Ends` is about the fetching of blocks.
* `NodeRuntime!FairSpec`: the interface, `run` and the worker's loop go on when they can,
  and a request of the worker that does not hang ends (weak, each on its own). `select!`
  picks a ready arm at random, so neither the interface's keys nor its tick are
  starved. Timers fire, so an `await_task` ends; nothing is assumed of the
  block server, whose connections may stay open for ever. Nobody has to type.
* `Console!FairConsoleSpec`: the same, and the interface receives a line when it awaits
  nothing and there is one (weak). The block tasks' lines are under no fairness.
* `Swarm` has no fairness: its properties are safety.

## Proofs

Checked by TLAPS for all values of the constants.

`RegistryProofs`:

* `TypeCorrect`, `AckedLeasesSurvive`, `NoRecordDroppedEarly`: with failing saves, crashes
  and overlapping calls. The invariant `Inv` says: one thread at a time is inside the
  lock, and none outlives the process (`LockInv`, `ModeInv`); a call carries what its
  kind needs, with a stamp from the past (`CallInv`); between the two halves of a save
  the temporary file is the table, and after the second half the state file is
  (`SaveInv`); and an acknowledged lease that stands is in the table, when there is
  one, as well as in the state file (`AckInv`). `AckedSurvives` alone is not inductive: a
  sweep could drop the lease from a table nobody has related to the file, and a save
  could then write that table.
* `WithdrawnStaysOut`, `ImplementsDirectory`: assuming `~SaveMayFail`; calls of one node may
  overlap. `LeaseInv` says that no record and no report on its way has a lease of more than
  `TTL` from now.
  `DiskInv` adds that table and state file differ only by the effect of the call that
  holds the lock (`Pending`), so that `os.replace` is one step of `Directory` and everything
  else is none. `registry_offline_retry` is what happens without the assumption.
* `AnswersAreAlwaysFresh`: under the same assumption. `SweptInv` says that a query, from the
  sweep it starts with to its answer, sees a table without the leases that had lapsed on its
  arrival; that no answer has what a crash would lose is `DiskInv`.

`BlockIndexerProofs`:

* `IndexerTypes`, `BlocksAreTheFile`: for any buffer and any block size the blocks tile the
  file (`TileInv`: the next block starts where the last one ended).
* `AlignedSizesServe`: if each block size divides the buffer or is no smaller than it, a
  node serves under an index what it announced under it. The invariant `FullInv` says
  that all blocks before the end of the file are full and that the buffer holds whole
  blocks.
* `ServesExactlyIfAligned`: the condition is exact, file by file. When none of its three cases
  holds, no read crosses the end of the first full buffer, so that a block begins there
  (`ShortInv`); were all blocks served from where they begin, that offset would be a
  multiple of the size, and the size would divide the buffer (`ShortMisses`). So the
  disagreement `blocks_unaligned` shows for one size is there for every other size too.

`NodeRuntimeProofs`, for any number of lines typed and whatever hangs or fails:

* `RuntimeTypes`: beside the types, each command stems from a line typed (`CountInv`: without
  it the numbers could leave their range), nothing is dropped or stopped before the
  shutdown (`StopInv`), and a busy worker has taken something (`WorkInv`).
* `CommandsKeepTheirOrder`: `QueueInv` says that the commands taken, those in the worker's
  channel and those in the command channel carry consecutive numbers. In the command
  channel this holds only up to the first `Shutdown` (`Clear`), and only while the
  loop runs: what is behind a `Shutdown` is never forwarded.
* `ReportsAreTrue`: inductive with `StopInv`, by which an answer that is missing before
  the shutdown has been sent.
* `CommandsAreAccountedFor`: each transfer between channels, worker and histories moves a
  command and loses none (`MembersAppend`, `MembersTail`).
* `ImplementsService`: every step of the tasks is one of `CommandService` or is not seen
  (`ServiceStep`). The order alone does not say that a command taken has had no answer and
  was not dropped; `PlaceInv` does, by giving each command one place: a channel, the
  worker's hands, the answered or the dropped. Whatever way the node stops,
  what is dropped is one set of commands without an answer (`CloseIsOneStep`).

`SwarmProofs`, for any number of nodes, starts, names, files, changes and torn writes:

* `SwarmTypes`: no two processes have one id, and the order of the tracker's dictionary
  names each id that has a record once (`TakesKeepsOrder`, `DropsKeepsOrder`).
* `ListedFilesWerePut`: a report is made of a directory, a directory of puts and downloads,
  a download of what a listing gave; `PutInv` follows all of them at once, reports that
  are late included. After the first torn write it is weakened, once and for all, to
  beginnings of files that were put (`PartOfPart`, `TornWasPut`).
* `RecordsAreDirectories`: `RecordInv` says that records and late reports are under ids that
  were drawn, so that a fresh id has neither, and that a report under way is the directory
  it was made of. A late report that is handled under the id of a process that still runs
  makes its record `stale`, unless the next report is on its way.
* `IndexesAreExact`: what the loops compute is in `CatalogProofs`: the definitions are functions
  (`RecordLoopExists`, `TableLoopExists`), and at name `n` of record `i` the index is that of
  what has been seen so far (`IndexOf`): a turn of the inner loop keeps this (`IndexGrows`,
  `IndexStays`), and so does the step to the next record (`IndexGoesOn`, which needs that
  a table has one record for an id). `TableIsOne` says that the tracker's table is
  such a table.
* `NamesAreStable`, an action property: a report or a removal changes one record and leaves
  what is before it in place (`TrackerMoves`), and the rows up to the first holder decide the
  name (`FirstsDecide`). A restart is excepted, since the state file is sorted by id.

`DownloadProofs`, for any number of peers, blocks, block sizes and downloads:

* The filter and the rotation lose no peer and repeat none (`OnlyKeeps`, `RotateKeeps`), so that
  a task's candidates are the listed peers that have the block, and all of them
  (`CandidatesAreProviders`). The induction over the length of a list is `NaturalInduction`'s: for
  sets of naturals, since the library's theorems have an operator as parameter.
* `TypeIsInvariant`, `CountsAreAlwaysExact`: `Basics` says what a task, a plan and a list of the
  tracker look like; `CountInv` that the numbers drawn are those up to the counter, each
  once, so that the counter cannot pass the number of blocks (`CountsBound`).
* `FailuresAreForCause`: `RefuseInv` says that the candidates a task has gone past have
  refused it, so that at the end of the list all have.
* `NoFalseAlarms`: blocks of one size end where the next begins (`BlockBegins`), so that all of
  them are the file (`AlikeIsWhole`).
* `SharesAreAlwaysFair`: when all listed peers have all blocks, a block's first choice is given by
  its index modulo the length of `SelfLast` (`FirstChoice`), and the residues of the
  first naturals are spread evenly (`ResiduesAreFair`).
* `ImplementsTransfer`: every step is one of `Transfer` or is not seen (`TransferStep`). A task, of
  whichever download, only ever takes its block from the expected ones to the ones that
  have come or are lost (`TaskTransfers`); a list that is not empty offers a block, so that no
  download begins with nothing to fetch (`SomethingOffered`); a new download finds
  nothing of its own, and touches nothing of the earlier ones, whose tasks may still run
  (`ResolveBegins`).

`ConsoleProofs`, for any capacity of the channel:

* `ConsoleIsRuntime`: `Console` implements `NodeRuntime`, whose invariants it so inherits.
* `ConsoleServes`: with that, the node with its channel is a `CommandService` too, and keeps the
  order, the accounting and the truth of reports.
* `ConsoleTypes`, `OutcomesAreKept`: the channel holds what it may; once the last command
  has ended nothing but left-over tasks sends a line, so that its own is still there.
  This needs that the worker's current command is the last one it has taken and that a
  command that has ended is not on the console before (`DoneInv`, `ConsoleInv`).

Assumptions on the constants are the `ASSUME`s of the modules; TLC evaluates them in
every run.

Only model-checked: the liveness properties (`LapsedAreEvicted`, `Ends`, `ShutdownEnds`,
`ExitIsObeyed`, `OutcomeIsShown`), since liveness under fairness is out of the prover's reach.
Every invariant and every action property of the runs is proved.

## Disagreements found

1. **A withdrawal that is retried after a failed save is answered and lost**
   (`registry_offline_retry`). `mark_node_offline` removes the record from memory, then
   the save raises. The retry finds no record, skips the save and answers "ok"; the
   state file still has the node, and a restart brings it back.
2. **A failed download goes on reporting** (`download_leftover`). Its other tasks are
   detached, not aborted; their progress messages carry no download id and move the
   bar of the next download.
3. **Two holders with different block sizes make a file undownloadable**
   (`download_sizes`). Candidates are matched by block index alone. All blocks arrive
   with their right hashes, and the joined file is rejected, at every attempt that
   spreads its blocks over both holders.
4. **A command that hangs locks the user out** (`runtime_stuck`). While `update`, `list` or
   `offline` waits for its answer the interface reads no key. If the worker's request
   is never answered, or a download before it hangs, `exit` and Esc do nothing,
   although the help says that `exit` stops the node; in raw mode Ctrl-C is a key
   like any other.
5. **Block sizes that do not divide the read buffer break serving** (`blocks_unaligned`;
   `ServesExactlyIfAligned` says exactly when: a size below the buffer's that does not divide
   it, in each file larger than the buffer).
   A short read in the middle of the file shifts all later blocks against the offsets
   they are served from; every downloader rejects them.

Three properties state an exception that is a fact about the code: `LapsedAreEvicted` (one
failed save ends the cleanup thread for good, since `_cleanup_loop` catches nothing),
`Ends` (a peer that never answers stops all further downloads of the node, since the
HTTP client has no timeout) and `ExitIsObeyed` (the same request behind an awaited command).

Noted while modelling, and not the subject of a run: a snapshot takes the lock
three times and its halves may differ; two overlapping reports of one node can be
stored in the wrong order, since they are stamped before the lock (`registry.py` line 149): the
older one then stands until the next report. A node's own calls overlap when the connection of
one breaks while a handler thread has it, those of the Python client when its 5 s run out; the
models let both happen (`BeginUpdate` in `Registry`, `LateArrives` in `Swarm`) and no property
denies it. Counting a block and reporting
it are two steps, so a completed download may leave the bar below 100 %; a download
never asks the tracker again when its candidates are exhausted, although `README.md`
(line 153) wants that where possible; `run` does not await the interface, whose code that
restores the terminal is reached only by a failed draw or the broadcast `Shutdown` nobody sends; a listing of
more than 31 files loses its first lines in the broadcast channel (`tui.rs` line 170 awaits
the end of the listing before it reads any), and the left-over tasks of a failed download
can push out how a later command ended; a node neither reports itself when it starts
nor renews its report, although `README.md` (lines 62-66) says it does, so that its record
lapses while it serves; one empty file in a share directory makes the tracker refuse the
whole report, and the interface says "Publish complete." all the same (`tui.rs` line 171;
the error is in the line before); `peer_count` counts the copies of a file in one node
and the records of processes that are gone, although `src/tracker/README.md` line 205 calls it
the number of nodes that hold the file ("当前持有该文件的节点数量"; `IndexIsExact` is about which
nodes are peers, not how often); after a restart a node that still
is in the list under its old id takes itself for a peer and asks itself over HTTP.

## Abstractions and limits

* The tracker always has a state file (the default); `--no-state` is not modelled.
  `os.replace` is atomic and a crash is that of the process, not of the machine (the
  code does no fsync, so a power failure may lose more).
* The wall clock does not go back. A tick is any length of time.
* In `Registry`, resource lists are values compared for equality, and validation only
  decides whether there is an update; what it decides is `Catalog`'s subject.
* In `Catalog` and `Swarm` a file is the sequence of its blocks and its hash the file itself
  (SHA-256 has no collisions). All nodes cut alike: `Download` has the other case. Names are
  free of surrounding blanks and of backslashes, so that `strip` and the conversion of
  paths leave them alone. `BodyLimit` counts blocks, which make up almost all of a report.
* In `Swarm` a scan, which reads the whole directory, is one step, and torn files end at a
  block. A user does not touch a file while the program writes it. `MaxChanges` bounds
  the changes users have made together with the reports that are late: while a report is late,
  there is one change less. `Reload` gives any order, since ids are hashes.
* In `Download`, a holder has the whole file (nodes announce only whole files), under a number
  of names that stays the same; a file name maps to one hash. `BlockCount` is that of a block
  size which divides the reader's buffer, or of a file within the buffer: what other sizes come to is
  `BlockIndexer`'s subject. A member of `Peers` is one start of a node, since each
  start has a new id. The download's file write is atomic there, and always succeeds.
* In `Console` all lines but the last of a command are alike; a listing may send any number
  of them. Once a download has failed, block tasks may be about for ever (`leftover`).
* In `NodeRuntime` a hung request stays hung, and the time limit of `await_task` may run
  out at any moment: a task that is aborted is one that could have gone on.

### Not modelled

HTTP and JSON, rendering and line editing, `local` and `help`, argument parsing, the walk
over directories and the conversion of paths, the Python client (no state, one request
each), the old shell (nothing calls it), and the forwarder in `node_runtime.rs` lines 56-65
(it waits for a signal that nothing sends).

## Plan

Done: `Directory`, `Registry`, `Transfer`, `Download`, `BlockIndexer`, `CommandService`, `NodeRuntime`, `Catalog`,
`Swarm`, `Console`, their runs, the proofs of every safety property, and of the three abstract
specifications. What could be added, in this order:

1. that `Swarm`'s tracker is `Directory` without the clock, and its downloads are `Download` with
   one block size: the links between the modules are informal so far;
2. a bound on how long a record outlives its node, which needs the clock in `Swarm`.

Runs are few on purpose, one for each question.
