# Forge, specified

TLA+ specifications of the Forge incremental build daemon: models of its
components, TLC configurations that check them on small instances, and TLAPS
proofs for instances of every size. Paths of the program are relative to the
repository's root. `10_forge_incremental_build_graph_daemon.md` is called "the
spec" below, with line numbers.

To check a run: `tlc -config <cfg> <module>`; to check the proofs of a module:
`tlapm <module>.tla`. `PROJECT.json` lists the runs, the code each definition
models, the properties with a mutation of the code that each one catches, the
findings, the hazards and the theorems.

## 1. The system and its parts

Forge keeps a dependency graph, the content state of files and the results of
build actions in one process. The design (docs/ARCHITECTURE.md) is that of a
single event loop which owns all mutable state. What comes from outside -
worker results, fingerprints, protocol frames, a restart - arrives late, twice,
in pieces or not at all, and carries a generation, a token or a sequence by
which the owner tells whether it is still current. Most of what can go wrong is
in those tokens and in the files.

| Part | State | Operations | What is hard | What makes it correct |
| --- | --- | --- | --- | --- |
| State log, `recover_log` (`src/state/recovery.cpp`, `state_codec.cpp`) | bytes of a log | one scan of them | torn tails, interrupted and interleaved transactions, wrong counts and digests | exactly the committed transactions come back, in order, and what is lost is reported, but for two cases |
| `FileStateStore` (`file_state_store.cpp`) | log file, checkpoint file, what was recovered | `append_transaction`, `checkpoint`, `recover` | a crash between or within file operations, write and rename errors, unreadable files | acknowledged is durable; a transaction is there as a whole or not at all |
| `FipcSession` over `FipcCodec` (`src/ipc`) | session state, streams with generation, sequence and credit, request tokens | `feed`, `send_credit`, `reserve_send` | frames in any order, split anywhere, replayed over close and reopen | no replay, one request per token, no send beyond credit, a closed session stays closed |
| `ExecutorManager`, executors (`src/execute`) | attempt per job, cancelled leases | `lease`, `run`, `validate_current`, `revoke` | results that arrive after a retry or a revocation | only the current lease completes an attempt |
| `EventHub` (`src/event`) | queue and credit per stream | `open_stream`, `add_credit`, `publish`, `drain` | credit that runs out and comes back | terminal events are kept, order is kept, drops are marked |
| `FileEventCoalescer` (`src/workspace/file_coalescer.cpp`) | pending event and token per path, fingerprints | `push`, `due`, `complete` | fingerprint jobs that complete late | no stale content becomes the input state |
| `ArtifactStore` (`src/artifact`) | objects and leases, files | `publish`, `read`, `acquire`, `release`, `gc` | a crash while publishing, republishing what is held | published stays readable, held is not collected |
| `BuildGraph` (`src/graph`) | nodes, edges, ids, generation | `put_node`, `put_edge`, `remove_discovered_from`, `reverse_closure`, `cycle_witness`, `snapshot` | searches over graphs with cycles, ids and generations that outlive what they name | the closure is exact, cycles are found exactly, nothing is named twice |
| `WorkspaceCore` (`workspace.cpp`) | the parts above | `build`, `file_event` | partial failure, sharing of jobs | just what the targets need, dependencies first, no false success |
| `InotifyWatcher`, `PathPolicy` (`inotify_watcher.cpp`, `path_policy.cpp`) | inotify descriptor and watch | `start`, `poll_events`, `stop`, `normalize` | the kernel's queue overflows, files change while they are read, one file has many spellings | a file that changed is fingerprinted again, under one path |
| Daemon, socket service, client (`server.cpp`, `client.cpp`, `forged_main.cpp`) | lifecycle, listening socket | `start`, `serve_once`, `stop`, `status` | failing half way through start, two processes on one path, bytes split anywhere, a client that misbehaves | path, descriptor and state agree, but for two cases; replies match requests; a status call returns |
| Manifest (`manifest.cpp`) | - | `parse_manifest`, `apply_manifest` | an error half way, a graph that is there already | the graph is what it was and what the manifest says |
| Command line, base utilities, placeholders | - | - | - | - |

How they interact: `WorkspaceCore::build` searches the `BuildGraph` for a
cycle, plans an order, runs each node through an `ExecutorManager` and puts
what comes back into the `ArtifactStore`; `file_event` pushes into the
coalescer and completes it; `apply_manifest` mutates the graph for the command
line, which builds its targets; `UnixSocketDaemon::serve_once` feeds what it
receives to a `FipcSession` and answers a `UnixSocketClient`. The store, the
watcher and the reverse closure have no caller in `src/src` yet: the models
take the program that embeds them as their environment. All calls are
synchronous and nothing in `src/` starts a thread; what interleaves are
processes on one socket path or state directory, the kernel, and jobs of the
embedding program.

## 2. The modules

| Module | Models | Extends, or is used by |
| --- | --- | --- |
| `StateLog` | the contents of a log, the encoding of a transaction, the contract of `recover_log` | |
| `RecoverLog` | `recover_log`, one action per branch of its loop | `StateLog` |
| `FileStateStore` | the store as file operations, crashes, errors, restarts | `StateLog` |
| `DurableState` | what the store promises: no files in it | refined by `FileStateStore` |
| `FipcSession` | `feed`, `apply_frame`, `send_credit`, `reserve_send` | |
| `ExecutorManager` | leases, runs, late results, revocation | |
| `EventHub` | streams of events under credit | |
| `FipcCodec` | bytes to frames: buffer, limits, checksums | |
| `SocketDaemon` | `forged` processes, `status()` calls and other peers on one path | `FipcCodec` |
| `FileEventCoalescer` | pending events, debounce, tokens, fingerprints, as operators | |
| `PathPolicy` | `normalize`, as operators | |
| `FileWatch` | disk, kernel queue, watcher, coalescer with jobs, `file_event` | `FileEventCoalescer`, `PathPolicy` |
| `ArtifactStore` | objects, leases, files, restarts | |
| `BuildGraph` | the graph and its mutations | |
| `ReverseClosure` | `reverse_closure`, one step per turn of its loop | `BuildGraph` |
| `WorkspaceBuild` | `build`: `cycle_witness`, `plan_order`, the loop over the order | `BuildGraph` |
| `Manifest` | `parse_manifest`, `apply_manifest`, and the builds of `cmd_build` | `WorkspaceBuild` |
| `RecoverLog_proofs`, `FileStateStore_proofs`, `FipcSession_proofs`, `FileWatch_proofs`, `SocketDaemon_proofs` | theorems of a module | the module and TLAPS |
| `Services_proofs` | theorems of `ExecutorManager`, `ArtifactStore` and `EventHub`, whose names do not overlap (`ManagerSpec`, `ArtifactSpec`, `HubSpec`) | these and TLAPS |
| `ReverseClosure_proofs` | theorems of `BuildGraph` and `ReverseClosure` (`ClosureSpec`) | `ReverseClosure`, TLAPS |
| `Manifest_proofs` | theorems of `WorkspaceBuild` and `Manifest` | `Manifest`, `ReverseClosure_proofs` for the graph |
| `MC*` | constants and symmetry for TLC | the module |

Definitions carry the names of the code. A comment in front of an action says
which function it is; history variables, which the code does not have, are
marked so at their declaration. A definition whose comment calls it a variant
with a mistake stands in front of the one it is a variant of; it is used by
nothing but the mutations listed in `PROJECT.json`.

**State log.** A file is a sequence of cells, one per encoded record; a cell
that does not decode is `Torn`. A torn cell ends the scan, as in the code,
where a decoding error leaves the offset without a next record. `StateLog`
states what recovery has to return by quantifying over the positions of a log:
which transactions are committed, which position is published, which log is
clean. `RecoverLog` follows the code instead: `offset`, the open transaction,
`staged`, `committed_records`, `diagnostics`. `FileStateStore` uses the
contract in place of the scan, which `RecoverLog` and its proofs justify.

**Store.** `append_transaction` and `checkpoint` are broken into the file
operations they make: reading and recovering, writing a compacted log beside
the old one, `replace_file` with its rename, removal and second rename,
appending in parts. A crash takes the process away between any two and in the
middle of an append. It is a crash of the process: what the file system
accepted stays, since the code never calls `fsync`, and what would survive a
power failure is not defined by it. In `store_faults` a second process appends
to the same directory between any two steps (`OtherAppends`). `DurableState`
has only the durable transactions and the sequence; the refinement maps what a
restart would find.

**Session.** `feed` is a sequence of steps, one per frame, which the caller
sees when the last complete frame is applied; how the bytes are split decides
how many frames a feed applies, so every split is a choice of the model. The
codec appears as its three outcomes. Credit keeps its width: `checked_add` is
the test against `MaxCredit`.

**Daemon.** A step of `SocketDaemon` is a system call that another process can
see, with what its process does by itself around it. A process runs `start` (the
daemon, the socket, `unlink`, `bind`, `listen`), then `serve_once` over and over
(`accept`, `recv`, the decoding loop, the replies), and `stop` from wherever
`forged_main` or the destructor calls it; another program that embeds it may
call `start` again after an error. A byte is known by the frame it was encoded
from and its place there, so that `FipcCodec` splits, joins and checks frames
without their text. Of the session there is what `HELLO`, `OPEN_STREAM` and
requests reach: its state, the control stream, which takes nearly everything
(`OnControl`), and one other with its sequence (`Apply`); `FipcSession` has all
of it. The replies to one `feed` and the close behind them are one step
(`Respond`): the client's `recv` takes any part of the bytes, so it sees no more
of their order than the splits of the model show. Peers other than `status()`
send one of a few byte strings and leave when they like. A history variable,
`robbed`, has the processes whose socket file another one unlinked. A process may be
killed at any point: its descriptors close, its path stays.

**Watcher, coalescer, path policy.** `FileWatch` follows a change from the disk
to the fingerprint: the kernel's queue with its merging and its overflow, the
one watch on the root, `poll_events`, and behind it either a coalescer whose
fingerprint jobs the program starts and completes when it likes, or
`file_event`. `file_event` reads the workspace's `VirtualFileSystem`; the model
takes it that the program keeps that like the disk. The kinds of the kernel are
reduced to the classes of `map_kind`. A path is a sequence of components;
`lexically_normal` and `relative` are those of the C++ library, without
symbolic links.

**Executor, events, artifacts.** Each has the operations as actions
and, around them, what makes them hard: results on their way, drains between
publishes, restarts.

**Graph and build.** The two recursive searches of a build are kept as stacks
of calls with the loop position of each; edges are visited in the order of
their ids, dependencies in the order of node ids, as `std::map` and `std::set`
have it. The contract is stated without following a path: a graph is cyclic if
there is a set of nodes each of which depends on one of the set, and the
reverse closure is the least set that holds the seeds and what depends on a
member. The action key of a node is its command, because `build` passes neither
inputs nor artifacts to `action_key_for`. `Manifest` adds the other way to make
a graph: a text is a sequence of lines with their fields, `apply_manifest` a
step per node, edge and target, after which the command line builds or stops.

## 3. The runs

| Run | Asks | Bounds, and why they are enough |
| --- | --- | --- |
| `recover_log` | does the scan meet the contract, report what it drops but for the two silent cases, and end? | all logs of five cells over two transactions: an interrupted transaction, another one interleaved, and the commit of either fit in five |
| `store` | is anything acknowledged lost, and is the store a `DurableState`? | three transactions of one or two records, a checkpoint, three faults: a fault in an operation, in the retry and in the recovery between |
| `store_faults` | atomicity and order with failing renames, unreadable files and a second writer too | as above, and empty transactions |
| `session` | replay, tokens, credit, lost events | two streams, two generations and sequences, two tokens, six frames: hello, open, use, close, reopen, replay |
| `executor` | late results after retries and revocations | two jobs, five leases, three revocations of a job |
| `events` | retention, order, credit, the first drop | four events of three sizes, two grants: credit runs out, comes back and runs out |
| `coalescer` | stale completions and merged kinds within a burst; is a changed file ever forgotten; does a file have one path? | three changes of two files in the root and one below it, a queue of two, two jobs: an overflow, a rename over a file and a change behind a read fit in; every spelling of up to four components |
| `daemon` | where do path, descriptor and state disagree, is a connection left open, do replies match, does `status()` return? | two processes, one with `--once`, two starts, one client, one peer with four byte strings (a repeated `HELLO` and a malformed frame behind it, a request on the control stream, no `HELLO`, a part of a header), one fault or kill; a header of two bytes and a payload of one, which split in every way; a backlog of one, so that it is full |
| `artifacts` | what stays readable, what stays held | two artifacts with up to two holders, two faults |
| `closure` | is the reverse closure exact, and does it end? | five mutations on three nodes, every set of seeds |
| `build` | are cycles found exactly, is the plan just what is needed and in order, which jobs are shared, does every build end; what does a manifest leave in the graph? | every graph of three edges on three nodes, two commands, two targets: cycles of length one to three, shared dependencies, shared jobs; manifests of four shapes over all names, with duplicates, unknown names and lines in any order, on a graph of earlier calls |

One run ends in a violation on purpose. It checks a statement of the
documentation that the code does not keep:

| Run | The documentation | What TLC shows |
| --- | --- | --- |
| `build_false_success` | failures never publish success (spec:693) | `WorkerResult::success` is not read; the dependents of the node run too, against spec:313 |

`PROJECT.json` quotes the sentence and the lines.

**Other divergences.** The models keep what the code does, and the properties
of the passing runs are stated up to the following differences from the
documentation; the last column says where the model shows them.

| Code | Documentation | In the model |
| --- | --- | --- |
| `recover` takes the log's sequence only if the log has committed records (`file_state_store.cpp:120`), so a transaction without records does not advance it | docs/STATE_FORMAT.md:9 | `Recovered`; `store` has transactions of at least one record |
| a second begin record drops the transaction that is open, and a record outside a transaction is skipped, without a diagnostic (`recovery.cpp:28-31`, `:56-58`) | spec:212, "ignored on replay after a diagnostic" | `DroppedAtBegin`, `OutsideTransaction`; `LossesReported` says that all other losses are diagnosed and that only these are silent |
| the base sequence of a transaction is written and never read back, so nothing compares it with the state | spec:238 | left out of the records of `StateLog` |
| `replace_file` removes the published file before the second rename (`file_state_store.cpp:180`), so two failing renames lose the committed log | spec:671 | `RenameError`; durability is checked without failing renames, atomicity and order with them |
| a file that cannot be stat'ed reads as an empty one (`file_state_store.cpp:143`), and the next transaction is appended behind a digest of the wrong bytes | docs/STATE_FORMAT.md:12 | `AppendTransactionStatError`, likewise |
| `checkpoint` publishes the new checkpoint and then empties the log; a process that stops in between recovers the log's older sequence over the checkpoint's (`file_state_store.cpp:120`) | spec:692; tests/unit/forge_tests.cpp:352 expects the checkpoint's | `Checkpoint`, `Recovered`; `store` takes checkpoints at the log's sequence, `store_faults` ahead of it |
| nothing locks the state directory: of two processes that append, the later one's commit record covers bytes that are no longer the log, and an acknowledged transaction is not recovered | spec:80 | `OtherAppends`; what is recovered is still whole and in order |
| `feed` returns the error of a frame in place of the events of the frames before it (`session.cpp:21`) | spec:412 | `Reject`; `LossCloses` says how far the loss goes |
| no sequence is checked on the control stream and a second HELLO is a frame like any other (`session.cpp:85-120`) | docs/FIPC_PROTOCOL.md:12, spec:248 | `InSequence`, `ApplyOther`, and `OnControl` in `SocketDaemon`; `NoReplay` is about streams, `RepliesMatch` says that each such frame is answered once |
| `revoke` erases the attempt of the job (`executor_manager.cpp:34`), the next lease has the same attempt again, and the late result of the revoked lease passes `validate_current` | spec:90 | `Revoke`; `LateResultsRejected` holds between revocations |
| `gap_emitted` is never reset (`event_hub.cpp:41`): only the first drop of a stream is marked | docs/FIPC_PROTOCOL.md:20 | `Drop`; `FirstDropMarked` |
| `complete` erases the token with the entry (`file_coalescer.cpp:36`), a later event of the path gets it again, and a job from before is accepted | docs/ARCHITECTURE.md:8 | `Complete`; `StaleRejected` holds within a burst |
| `complete` takes the next epoch also when the content is the same (`file_coalescer.cpp:34`) | spec:379 | `Completed` |
| the overflow event has no name and is skipped, only the root itself is watched, what is there at `start` is not looked at, and a removed root leaves the watcher blind (`inotify_watcher.cpp:65`, `:119`) | spec:375; docs/DECISIONS.md:23 has the recursive watch as pending | `Enqueued`, `Heard`, `Start`, `RemoveRoot`; the files concerned are in `missed` |
| a failing directory, address or socket leaves the daemon running without a socket (`server.cpp:104-119`), and the next `start` is refused until `stop` | docs/DECISIONS.md:5 | `CreateFails`; `HalfStarted` in `SocketIsRunning`: where the process is then, and that it takes a failing call |
| an error of one client, or one that hangs up, ends `forged` for all (`forged_main.cpp:34`) | spec:78 | `ServeFails`; `trouble` in `StatusReturns` |
| `start` and `stop` unlink the path whoever bound it (`server.cpp:120`, `:200`), so a second `forged` takes over the path and either one's end removes it, from a daemon that goes on listening where no client finds it | spec:80 | `UnlinkPath`, `robbed`; `PathIsKept` says that a daemon loses its path in no other way |
| no `recv` has a timeout: a peer that stays connected in silence keeps all others waiting (`server.cpp:150`) | - | `PeerLeaves` and its fairness |
| a frame is at least 40 bytes (`fipc_codec.cpp:7`) | docs/FIPC_PROTOCOL.md:7 says 36 | `LegalLength` |
| `apply_manifest` that fails leaves what it has put (`manifest.cpp:144`) | spec:687 | `ApplyFails`; `ManifestApplied` says what is left |
| publishing an artifact again sets its lease count to zero (`cas.cpp:44`), and `gc` takes it from its holders | spec:672 | `StoreObject`; `HeldKept` excepts what was published again |
| `build` calls `action_key_for` without inputs and artifacts (`workspace.cpp:59`): a node with the command of its dependency is attached to the dependency's job and never runs | spec:441-442 | `Key`, `Attach`; `NeededBuiltInOrder` says that the job came back before, not that it ran behind the dependencies of the node attached |

Deadlock is checked in `build`, where it means that no build gets stuck. In the
other runs it is not: `recover_log` returns, and the other models stop where a
named bound (`MaxFrames`, `MaxFaults`, `MaxGeneration`, ...) is used up; the
code has no such bound and no state in which it waits for itself.

**Fairness.** Three specifications have it. `RecoverLog` and `ReverseClosure` are
loops in one thread without a blocking call, so the thread gets to its next
step: weak fairness of the loop. In `SocketDaemon` each process and each
connected program takes its next step when it can: a blocked `recv` or `accept`
is a step that is not enabled. That peers do not stay connected in silence for
ever is an assumption about them which the code does not enforce; nobody has to
start a daemon, retry, fail or call `status()`. The callers - when a graph is mutated, when a
search is asked for - have no fairness. The end of a build is stated without
fairness, as `WorkShrinks`: each step leaves less to do than the one before,
which together with the absence of deadlock means that a build whose thread
runs and whose executors return comes to its end. The other modules state
safety only: nothing in the code promises that a client sends, that a worker
answers or that a holder releases.

## 4. The proofs

| Module | Theorem | Property |
| --- | --- | --- |
| `RecoverLog_proofs` | `LoopInvariantHolds`, `ReturnsCommittedHolds`, `ReturnsLastSequenceHolds`, `LossesReportedHolds`, `CompactionShrinksHolds`, `PublishesOnCommitHolds`, `TypeCorrect` | the contract of `recover_log`, for every log over every set of records and every checksum |
| `FileStateStore_proofs` | `RecoversWholeTransactions` (`TransactionsAtomic`), `StoreTypes` (`TypeOK`) | atomicity under every fault of the model, for every digest function |
| | `AcknowledgedIsDurable` (`AckedDurable`), `AppendsToItsBase` (`StoreInvariant`), `AcknowledgedAppendHeals` (`AckedAppendHeals`), `StoreImplementsDurableState` (`ImplementsDurableState`) | durability and the refinement, under write errors and crashes |
| | `ReplayedInCommitOrder` (`LogInCommitOrder`) | order, under every fault, when digests do not collide |
| `FipcSession_proofs` | `SessionInvariantHolds`, `SessionShapeHolds`, `GenerationsGrowHolds`, `NoReplayHolds`, `OneMeaningPerTokenHolds`, `NoOverCreditHolds`, `LossClosesHolds`, `ClosedIsFinalHolds`, `TypeCorrect` | the safety of a session, for any streams, tokens and credits and any number of frames |
| `Services_proofs` | `ManagerConsistent` (`ManagerInvariant`), `ManagerRejectsLate` (`LateResultsRejected`) | leases, for any jobs, leases and revocations |
| | `LeasesConsistent` (`LeaseInvariant`), `PublishedStaysReadable` (`PublishedReadable`), `GcKeepsHeld` (`HeldKept`) | artifacts, for any keys, holders and faults |
| | `HubWithinCredit` (`HubInvariant`), `HubRetainsTerminals` (`TerminalsRetained`), `HubKeepsOrder` (`InOrder`), `HubMarksFirstDrop` (`FirstDropMarked`) | events, for any streams, sizes and widths of the credit |
| `ReverseClosure_proofs` | `LoopInvariantHolds`, `ReachedAffectedHolds`, `ResultCompleteHolds`, `UniqueHolds`, `GenerationTellsGraphHolds`, `EdgeIdsNotReusedHolds` | the reverse closure is the least closed set, and the graph's names, ids and generations are used once, for graphs of any size |
| `Manifest_proofs` | `SearchConsistent` (`SearchInvariant`), `CyclesFoundExactly` (`CyclesExact`), `NeededAreBuiltInOrder` (`NeededBuiltInOrder`), `ManifestsAppliedExactly` (`ManifestApplied`), `SearchesEnd` (`WorkShrinks`), `WorkStaysFinite` | the build, and the manifests it may be made from, for graphs and manifests of any size |
| `FileWatch_proofs` | `KindsAreMerged` (`CoalescerInvariant`), `StaleJobsRejected` (`StaleRejected`), `ChangesRemembered` (`NothingForgotten`), `OnePathPerFile` (`SpellingsAgree`) | from the disk to the fingerprint, for any files, queue, times and jobs, and the paths, for any workspace and spelling |
| `SocketDaemon_proofs` | `DaemonsConsistent` (`DaemonInvariant`), `NoConnectionOrphaned` (`NoOrphans`), `RepliesFollowRequests` (`RepliesMatch`) | the socket service and what is said on each connection, for any processes, clients, peers, bytes of a peer, backlog and faults, with the session of `SocketDaemon` |

**Assumptions on the constants**, each evaluated by TLC in a run.
`LogsAssumption`: a log is a sequence of cells. `SessionAssumption`: stream ids
exclude the control stream 0, generations, sequences and amounts are naturals.
`StoreAssumption`: the bounds are naturals, a transaction may have a record, the
four fault kinds are all there are, and the payload of a commit that is too
short is not a number. `HubAssumption`: sizes are within the width of the
credit. `GraphAssumption`: names are finitely many, and there are two kinds of
edge. `ManifestAssumption`: a text is a sequence of lines. `WatchAssumption`: a
file is named by one component or more, none of them empty, `.` or `..`, as the
kernel names it, and the paths of callers are any sequences of strings.
`PolicyAssumption`: the workspace's directory is spelled in the same way, as
`weakly_canonical` returns it. `DaemonAssumption`: `none` and `stale` are names
of no process or connection, and what a peer sends is a sequence of bytes whose
length fields hold numbers, legal ones or not. `LeasesAssumption`, `ArtifactAssumption`: the bounds are
naturals.

**Hypotheses of the store's theorems.** Atomicity needs none. The others say
what they need, because the code keeps less without it (see the divergences in
section 3): `FileErrorsOnly`, that files fail by refusing or cutting short a
write - a second failing rename loses the log, a failing stat reads as an empty
file, a second writer is not locked out - as in the run `store`; `Digests`, that
no digest is the mark of a payload that is too short to hold one; `Numbered`,
that a transaction has a record and a checkpoint is taken at the sequence of the
state; `CollisionFree`, that two logs with one digest are one log.

**`recover_log`.** What is returned at the end says nothing about the middle of
the scan. `LoopInvariant` describes every turn of the loop: the cells before
`offset` are decoded; `staged` holds the positions of the open transaction;
`committed_records` holds, increasing, exactly the published positions before
`offset`; the sequence is that of the last commit before it; and the cells are
accounted for - each is committed, staged, a marker or diagnosed - from which it
follows that a log with a complaint compacts to a shorter one. `LostSoFar` adds
that without a diagnostic each cell before `offset` is kept, lost in one of the
two silent ways or in the open transaction. Each branch of
the loop extends the prefix by one cell; a lemma per branch says what becomes
of the published positions.

**Store.** `AtomicInd` is about every sequence of cells that is or may become a
file: wherever a transaction ends in it that has the number of records it says,
these are mutations that were issued and split no transaction (`Sound`). Cutting
a sequence short, tearing its last cell, compacting it and appending a
transaction, in part or behind other bytes than it was made for, keep that,
which is why no hypothesis on the faults is needed. `DurableInd` adds where the
process is: the bytes it is about to write fit the file they go to (`Fitting`),
and what the caller knows is what recovery would find (`UpToDate`). The key is
`CompactionShrinks`: a log that was compacted has another size, so the test of
sizes tells whether the digest covers the file. `SequencedInd` adds the sequence,
for the refinement: the step that writes the commit record is the step of
`DurableState` that publishes, a failure or a death before it the one that
abandons, and compaction, checkpoints and restarts stutter. `OrderInd`
has the log, the bytes of the call and those of the replacement in the order of
issue; a transaction which another process overtook has a digest of another log
and is not committed.

**Session.** `NoReplay` and `OneMeaningPerToken` are about the history of all
frames applied. They become inductive with the facts that tie the history to
the tables: every applied frame is behind the counter of a live stream or of a
generation below the closed one (`AppliedBehind`), every request applied is
recorded under its token (`RequestsRecorded`), and credit granted is credit
sent plus credit left (`CreditConserved`). A stream that is reopened must have
a newer generation, which is what keeps old frames out.

**Leases, artifacts, events.** A late result is rejected because the attempts of
a job's leases since its last revocation rise with their ids (`AttemptsRise`);
with a revocation in between they need not, which is the divergence. What was
published is readable because the file of a published key is never anything but
whole (`FilesWhole`): a publish writes beside it and renames. `gc` takes nothing
held because the leases of a key that was not published again are its holders
(`LeasesExact`). What is queued and delivered of a stream is one sequence
(`StreamInd`): numbered upwards, with all terminal events, with nothing missing
in front of its gap, and with progress that together with the credit left is
within what was granted. `ProgressBytes` is a sum; that it is the limit of the
partial sums is proved by the least number at which it would not be.

**Reverse closure.** The result is complete because a reached node which no
longer waits in `work` has all its dependents reached; it is exact because
every closed set that holds the seeds holds each node found. Both need that
what waits in `work` was reached. The graph changes only between searches, and
then nothing is reached.

**Build.** `BuildInd` has a part for each phase. `Searching`: the calls on the
stack are those of the gray nodes, each made for the edge its caller looks at;
an edge looked at leads to a black node; black nodes depend on black ones and
hold no cycle. So an edge to a gray node closes a cycle along the stack, and a
search that ends has all nodes black. `Planning`: what was seen is on the stack
or in the order, not both; the dependencies looked at are in the order; the order
is sorted. That an edge to a node on the stack cannot occur here is where the
absence of cycles is used. `Running`: there is an event for each node come to,
in the order, and a failure is the last. `NeededInd` adds what the plan is for:
every node on the stack or in the order is needed, since it is a target or a
dependency of one that is; the targets come to were seen; and of the nodes run
with a command the first made the job, which came back before any other was
attached. An order that holds the targets and with each node its dependencies
is then all that is needed. What is left to do (`CycleWork`,
`PlanWork`) is a finite set that becomes a proper subset in each step.

**Manifest.** `ApplyInd` says of the items before `at`: the names of the node
items are those that can be looked up (`LookedUp`), their nodes have their
commands and no other node changed (`NodesPut`), an edge is there if and only if
it was or an item asks for it (`EdgesPut`), the targets resolved are those of the
target items (`TargetsFound`). The items are the nodes, then the edges, then the
targets of the text, whatever the order of its lines.

**File watch.** `WatchInd`: a file whose stored fingerprint is not that of its
content is announced - in the kernel's queue, among the polled events or among
the changes without an event - or pending (`FilesInd`); the kinds pushed since
an entry was made are those of the entry (`KindsInd`); and for a job of the
present burst, the token of the entry has moved on since by as much as events
were pushed, and if by nothing the job has the content or a change of it is
announced (`JobsInd`). A token that is equal therefore means that nothing was
pushed, and nothing was missed.

`SpellingsAgree` compares `normalize` with a walk along the components. After
each component of a path `lexically_normal` holds some `..` and then names
(`Along`): there is a `..` exactly if the path has been above its start; the
names of an absolute path are where the walk is, as at the root of the file
system `..` stays there; those of a relative one, with no `..` in front, lead
there from the workspace. `relative` to the workspace has no `..` exactly if the
workspace is a prefix of where the path leads, and is the rest of it then.
`NamesInd` says of the coalescer that no fingerprint has another name.

**Daemon.** `ServiceInd`: place, descriptor, state, backlog and client of a
process say the same of it (`ForgedOK`); the path is that of a process which
listens or is about to unlink it; and a connection is held at one place at most,
at none before `connect` and after its daemon end was closed, and at one as long
as its program talks (`HeldOK`). Every way out of `serve_once` and `stop` gives
up connections and closes just these (`GivenUp`), `accept` moves each of a
backlog by a place, `connect` takes a free one. `RobbedInd` tells the file from
the socket: a process that has bound its socket has the path or was robbed of it,
one in front of `bind` has neither, and one that is half started met a failing
call. So the two ways in which file, descriptor and state disagree are the only
ones.

`TalkInd` adds what was said. Of a connection that is served, the bytes of the
frames decoded, then those in the daemon's codec, then those on the way are the
bytes that were sent (`Serve`); one that waits has had nothing read from it
(`Fresh`). The frames decoded before the present `feed` were all answered, and
with `WELCOME` only, since a `STATUS_EVENT` ends the connection (`Replied`);
whatever happens to the connection later, its replies are to the first of its
questions, and at most the last is not a `WELCOME` (`Paired`). The bytes to a
client are of replies to its own three frames, one of which asks for a status,
so that a `STATUS_EVENT` decoded by `status()`, however it arrived, is the answer
to it (`OnlyStatus`). What carries the step of the codec is that `feed` takes a
frame off the buffer exactly as `encode` put it there, or leaves the bytes alone
(`FeedTakes`), and that `FlattenSeq` of a concatenation is the concatenation.
Which frames the session accepts is not used: the theorem holds whatever `Apply`
does with frames that it does not have.

`CompactionShrinks`, `PublishesOnCommit`, `ClosedIsFinal`, `EdgeIdsNotReused`
and `GenerationTellsGraph` are proved and have no run of their own.

**Only model-checked.** `Terminates`, `SearchEnds` and `StatusReturns`: liveness
under fairness is outside what the prover does. Every safety property of the
passing runs is also a theorem. The library's induction theorems take an
operator, which the provers cannot instantiate, so what a recursive function
computes (`FlattenSeq`, `lexically_normal`, `Of`, `Read`, `ProgressBytes`) is
proved by a function that satisfies its equation, the uniqueness of such a
function, and the least place at which a claim would fail, with
`NatLessThanWellFounded` and `WFMin`; `SelectSeq` and the folds of the library are
out of reach, so the modules that are proved about use recursive functions.

## 5. What is not modelled

- Power failure and `fsync`, bit errors within a record that passes its
  checksum, collisions of digests: a digest or checksum of something stands for
  it.
- The `.tmp` files of the store, which nothing reads.
- Over the socket: `CREDIT`, `CLOSE_STREAM`, a second stream, generations and a
  token used for another request. The session model takes frames of every kind,
  the daemon model `HELLO`, `OPEN_STREAM` and requests. The limit on a payload,
  which the default limits make that on the frame (`error.hpp:82-83`). `FipcCodec::eof`, which only tests call. `forged` without
  `--socket`, which starts and stops at once. Signals (`EINTR`).
- More than one append of a second writer at a time, and its crashes.
- Symbolic links below the workspace; a root that is moved away
  (`IN_MOVE_SELF`, whose event has no name and is skipped); the Windows branches.
- An error of `open_stream` in `build` (`workspace.cpp:50`): it refuses stream 0
  only, and requests are numbered from 1.
- The state and the last action key of a node, which nothing reads.
- The text of manifests and of the command line, the little-endian encodings and
  `crc32c` of `src/base/checked.cpp`, and the placeholder
  files of `src/schedule`, `src/state`, `src/event`, `src/execute` and
  `src/base`, which hold no logic.

## 6. The plan

Done: the modules above. The durable state and the protocol came first, as they
carry the promises that are hardest to keep, then the graph and the build, then
the parts at the edge: manifest, watcher, codec and daemon.

What is left to model is little: `FipcCodec::eof`, the argument handling of the
command line. The placeholders have no logic to model.

Proved since: every safety property of the passing runs, and the refinement of
`DurableState`.

What could follow is what `AcknowledgedIsDurable` becomes with a second process
that appends, and whether a bound on the silence of a peer would let
`StatusReturns` do without the assumption about peers.
