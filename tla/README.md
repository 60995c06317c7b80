# MultiRaft in TLA+

Specifications of the Raft library in `src/src/raft` and of the services built on it,
model-checked with TLC and, where it matters most, proved with TLAPS.

## The system

| part | code | role |
|---|---|---|
| Raft log | `raft/raft_log.go` | the log slice with its dummy entry |
| Raft peer | `raft/raft.go`, `raft_election.go`, `raft_append_entry.go`, `raft_snapshot.go`, `raft_rpc.go`, `utility.go` | elections, replication, commitment, snapshots, the applier goroutine |
| Persister | `raft/persister.go` | the state that survives a crash |
| Network | `labrpc/labrpc.go` | simulated RPC that loses, delays and reorders |
| Encoding | `labgob/labgob.go` | gob with warnings; arguments and persisted state pass through it |
| Key/value service | `kvraft/*.go` | Get, Put, Append with exactly-once semantics on top of Raft |
| Shard controller | `shardctrler/*.go` | configurations that assign shards to groups, on top of Raft |
| Sharded service | `shardkv/*.go` | a client and a server skeleton |
| Linearizability checker | `porcupine/*.go`, `models/kv.go` | third-party checker and the key/value model the tests give it |
| Test harnesses | `*/config.go`, `*/test_test.go` | cluster set-up, crashes, partitions, checks |

A service calls `Start(command)` on its Raft peer. The leader appends the command to its log,
sends it to the other peers with AppendEntries (or a snapshot, to a peer that lags behind the
start of the leader's log), and moves `commitIndex` once a majority holds it. Each peer's applier
goroutine hands committed commands to its service over `applyCh`. The service answers the client
that waits for the command, and now and then hands a snapshot back to Raft, which drops the log
up to it.

The services use Raft in the same way. A clerk sends a command to one server after the other until
one answers. The server calls `Start` and waits on a channel until `listenApplyCh`, which reads `applyCh`,
finds the command and wakes it, or until a timer expires. As a clerk sends a command again when no answer comes,
commands carry a number by which servers recognise duplicates. The tests run all of this on the simulated
network of `labrpc`, crash and partition servers with the operations of a `config.go`, and judge what clerks
saw with `porcupine`.

Within a peer, one mutex `rf.mu` guards all state. It is held through each RPC handler and each
processing of a reply, and released while a call is on the network. So a step of the models is
one critical section, and everything that a goroutine remembers across two of them (the arguments
of its call, a captured `commitIndex`) may be stale in the second one. That is where most of the
hazards in `PROJECT.json` lie.

## Modules

| module | models |
|---|---|
| `RaftLog` | `raft_log.go`, and the two loops of `HandleAppendEntries` over the log (`appendFrom`, `conflictIndex`) |
| `Raft` | the peers, their persisters and the network, and the properties of the protocol |
| `ReplicatedLog` | the abstract specification: one log that only grows, of which peers learn prefixes |
| `RaftSafety` | the refinement mapping from `Raft` to `ReplicatedLog`, and the invariants behind it |
| `RaftInv` | the inductive invariants of the proofs |
| `MCRaft`, `MCRaftOldTerm` | instances for TLC |
| `RaftApplier` | the applier goroutine of one peer, its channel, and the service at the other end |
| `ShardConfig` | the shard controller's configurations: `CopyConfig`, `ReAllocGID`, and JOIN, LEAVE and MOVE in `listenApplyCh` |
| `Replicator` | how a leader brings one follower up to date: `appendThread`, its condition variable, the heartbeat's rounds |
| `MemoryKV` | the map of the key/value service |
| `KVServer`, `MCKVServer` | clerks and servers of the key/value service over the agreed log |
| `AtomicMap` | the abstract specification of the service: operations that take effect at one moment between call and return |
| `ShardCtrler`, `MCShardCtrler` | clerks and servers of the shard controller over the agreed log |
| `LabRPC` | `labrpc`: a call, `processReq`, the handler's goroutine, and the operations that change the network |
| `TestCluster` | `kvraft/config.go` composed with `LabRPC`: shutdown, restart, partitions, and the handover of the Persister |
| `ApplyCheck`, `MCApplyCheck` | `raft/config.go`: the readers of `applyCh`, their checks, and restarts |
| `Porcupine`, `MCPorcupine` | `checkOperations` for `KvModel`: the search, and the searches of all keys in parallel |
| `RaftLogProofs` | lemmas about the operators of `RaftLog` |
| `RaftStepProofs`, `RaftAppendProofs` | a step of one peer preserves the index invariant: elections and restarts, replication |
| `RaftProofs` | the same for snapshots; types, indices, votes per peer |
| `RaftElectionProofs` | one leader per term |

### Raft: state and actions

`rf[i]` is peer i's `Raft` structure and `persister[i]` what it last stored. `grantedVotes` is the
counter that the closure in `StartElection` captures, as the set of peers counted. `inc` numbers the
incarnations of a peer: labrpc does not deliver replies to the client ends of an earlier one. Two
history variables record what the code does not keep: `votes`, every vote given, and `committed`,
the longest sequence of commands a leader has committed. `net` holds the messages in flight.

| action | code |
|---|---|
| `StartElection` | `ticker`'s election case and `StartElection` |
| `HandleRequestVote` | `HandleRequestVote` |
| `CountVote`, `LoseElection` | the closure in `StartElection`, vote granted or higher term |
| `Start` | `Start` on a leader |
| `sendAppendEntries`, `sendInstallSnapshot` | the two branches of `appendOneRound` up to the call |
| `RejectStaleAppend`, `RejectCompactedAppend`, `RejectUnmatchedAppend`, `AcceptAppend` | the four ways through `HandleAppendEntries` |
| `AppendSucceeded`, `AppendConflicted`, `StepDownOnReply` | `processAppendEntriesReply` with `advanceCommitIndexForLeader` |
| `Snapshot` | `Snapshot`, called by the service for a committed index |
| `RejectStaleSnapshot`, `IgnoreOutdatedSnapshot`, `InstallSnapshot` | `HandleInstallSnapshot` |
| `SnapshotAcknowledged`, `StepDownOnReply` | `processInstallSnapshotReply` |
| `Make` | a crash and `Make` with `readPersist` |

Abstractions:

- Time. Timers fire at any moment, so the election timeouts that make progress likely play no
  part, and rounds of AppendEntries are made at any moment by a leader. This covers the heartbeat
  and `appendThread`. It also means that no liveness is claimed here; `Replicator` has it.
- Data. A command is a model value and a snapshot is the sequence of commands it stands for.
- The network. A message is received at any later time, or never. Vote messages are received at most
  once, since a candidate asks each peer once per election. AppendEntries and InstallSnapshot stay
  in flight: the heartbeat makes the same call again and again. `MaxInFlight` bounds the pool, and a
  message that would exceed it displaces another, which is then lost.
- A crash falls between two critical sections. Inside a handler the only crash that would differ is
  the one in `HandleInstallSnapshot` between saving the new term and saving the snapshot. It leaves the state that
  `IgnoreOutdatedSnapshot` leaves, without its reply.

### RaftApplier: state and actions

`rf` holds the fields that the applier shares with the rest of the peer, `applier` its place in the
loop and its local variables, `applyCh` the channel, and `service` the commands the service has applied.

| action | code |
|---|---|
| `Wait`, `Collect`, `Push`, `Finish` | `applier`: the wait on `applyCond`, the first critical section, a send, the second critical section |
| `Commit` | `commitIndex` advances in `advanceCommitIndexForLeader` or `HandleAppendEntries` |
| `HandleInstallSnapshot` | the part of the handler after its early returns |
| `Receive`, `Snapshot` | an iteration of `listenApplyCh` in `kvraft`, up to `takeSnapShot`, and `takeSnapShot` with Raft's `Snapshot` |
| `Make` | `StartKVServer` after a crash |

All peers agree on committed commands (`StateMachineSafety`), so a command is its index here.
A snapshot is the index it ends at. How large the state is (`needSnapShot`) is left open: a snapshot may
follow any command.

### ShardConfig: state and actions

`config` is the latest configuration and `op` the command that made it. `JOIN`, `LEAVE` and `MOVE` are
the cases of the switch in `listenApplyCh`. `ReAllocGID` and the two searches it uses are operators under their names in
the code. The server lists of groups play no part in any decision and are left out. `NShards` is 10, as in the code.

### Replicator: state and actions

One leader and one follower, which are a majority. `leader` has the leader's log, `commitIndex`, and `nextIndex` and
`matchIndex` for the follower; `thread` is where `appendThread` is, and `rounds` holds the calls in flight.
The model starts where a leader of term 3 has just been elected, with every pair of logs of up to two older entries
that can be there then. No election happens afterwards. Either peer may compact its log.

| action | code |
|---|---|
| `CheckNeed`, `Wait` | the loop of `appendThread`; between the two a signal is lost |
| `appendOneRound` | its first critical section, called after `needAppend` has released the lock |
| `Start` | `Start`, whose `BroadcastAppend` signals the condition variable |
| `Heartbeat` | the ticker's heartbeat case: a round in a goroutine of its own |
| `HandleAppendEntries`, `HandleInstallSnapshot` | the handlers, for calls of the current term |
| `processAppendEntriesReply`, `processInstallSnapshotReply`, `Lose` | the end of `appendOneRound` |
| `SnapshotLeader`, `SnapshotFollower` | `Snapshot`, called by either service |

### KVServer: state and actions

`clerk` holds the clerks with the command each has in progress, `calls` every attempt at a command (request, running
handler or reply), `kv` the servers, `snapshot` what they have persisted, and `log` the commands that Raft has agreed on.
`Commit` stands for Raft, which `ReplicatedLog` specifies: a command given to `Start` is agreed on later,
in any order, or never. `agreed` is history: the state after every prefix of the log. `test`, chosen at the start, says how many
commands each clerk issues, whether servers take snapshots, and how many restarts there are.

| action | code |
|---|---|
| `Command`, `Retry`, `Accept` | `Clerk.Command`: the first attempt, a timeout or an error, an answer |
| `Check`, `Start`, `Timeout`, `Wakeup` | `KVServer.Command`: the first critical section, the call of Raft, and the two cases of the select |
| `deleteWaitChannelL` | the goroutine that deletes the channel of an attempt that failed |
| `ApplyCommand`, `installSnapshot` | an iteration of `listenApplyCh` |
| `Restart` | `Kill` and `StartKVServer` |

A value is the command that wrote it, and a string is the sequence of the values appended. `Seq`, which is drawn at random, is taken to be
unique. Whether a server thinks that it leads, and whether it takes a snapshot, is left open at every step.

### ShardCtrler: state and actions

As `KVServer`, with these differences. A clerk waits for a call to end before it makes the next one, so its call is part of `clerk`.
`listenApplyCh` holds `sc.mu` only while it marks a command as done, and Command reads `sc.configs` without it. So
`Take`, `Fill`, `Mark` and `Notify` are steps of their own: `Take` ends where `append` has stored the new length
of `sc.configs`, and `Fill` stores the element. A `Wakeup` in between may read zeros (configuration 0), a configuration of which some words
are stored (`torn`), or all of it; the slice header itself is taken to be read as a whole. `JOIN` stands for JOIN, LEAVE and MOVE, which go through the same code; what
they make of a configuration is in `ShardConfig`. The types of a clerk's commands are chosen at the start (`Workloads`).
`MaxFaults` bounds attempts that fail and restarts together.

| action | code |
|---|---|
| `Call`, `Return`, `Retry`, `Lose` | `Clerk.Command`, and a call that labrpc fails |
| `Check`, `Register`, `Start`, `Timeout`, `Wakeup`, `Leave` | `ShardCtrler.Command` |
| `Take`, `Fill`, `Mark`, `Notify` | an iteration of `listenApplyCh` |
| `Restart` | `Kill` and `StartServer`; there are no snapshots, the log is replayed |

### LabRPC: state and actions

`net` is the `Network`. A server object is the number of the instance that it was made for, under the server's name. `call` has,
for every call, where its `processReq` is, what `readEndnameInfo` returned, and where the handler's goroutine is.
Actions are named after the functions; `processReq` is `readEndnameInfo`, `Refuse`, `DropRequest`, `StartHandler`,
`ReceiveReply`, `PollServer`, `replyCall` and `DelayedReply`. `Hang` is a handler that never returns. What a call carries
and how long delays last are left out.

### TestCluster: state and actions

`net` and `call` are `LabRPC`'s, and its actions are used unchanged (`Net == INSTANCE LabRPC`); a handler also persists something.
`saved` is `cfg.saved`: what the Persister holds and which instance has it. `ShutdownServer` and `StartServer` begin an operation,
and the steps that touch the network or `cfg.saved` follow one by one, while calls go on: `Disconnect`,
`DeleteServer`, `CopyAndKill`, `MakeEnds`, `MakePersister`, `AddServer`. That connections are changed only between operations and while all
servers are up (`allUp` in `Next`) is assumed of the tests, which do so; the code does not check it.
`shardctrler/config.go` has the same operations.

### ApplyCheck: state and actions

`logs`, `lastApplied` and `saved` are the harness's. `rf` has, for every instance of every server, what of its Raft a reader can tell: the indices, the
Persister, and the batch that its applier is pushing. `reader` is the place of the goroutine that reads it.
`pushed` is history: the commands that any peer has pushed at an index. They may differ, for the checks are there for a
Raft that is wrong. `overlap` is history too: the kinds of message with which the reader of a previous instance changed `logs` or
`lastApplied` after `start1`, or failed. `test`, chosen at the start, says whether
the test takes snapshots, how many crashes there are, and how long the log gets.

| action | code |
|---|---|
| `Commit`, `HandleInstallSnapshot`, `Collect` | Raft: a commit, a snapshot installed and persisted, and a batch collected by its applier |
| `applier` | a message handled in one critical section, in tests without snapshots |
| `ReceiveCommand`, `CheckCommand`, `SetLastApplied`, `TakeSnapshot` | `applierSnap`, a command: the index compared, `checkLogs`, `lastApplied` set, the log encoded and given to `Snapshot` |
| `ReceiveSnapshot` | `applierSnap`, a snapshot: `ingestSnap` |
| `crash1`, `Kill` | `crash1` up to its copy of the Persister, and the rest; the instance may go on in between |
| `start1` | `start1` |

A killed instance pushes what its applier has collected, snapshots included, and its applier may collect once more.

### Porcupine: state and actions

Every history that an element of `Inputs` allows (lengths, keys, operations, times, options of the check) is an initial state. `search` has the local variables of `checkSingle` for every key,
and `Killed`, `AtCall`, `AtReturn` and `Complete` are the ways through a turn of its loop. `main` is `checkParallel`, with
`Receive`, `Timeout` and `Drain`. The linked list is a pair of functions on the positions of the entries; bitsets keep their words,
of two bits here so that an operation falls in the second one. The hash is left out: the cache is a set.

## Properties and runs

### Raft

All runs of `Raft` have three peers, the smallest cluster in which a majority is not everyone. Terms, entries, restarts and messages
in flight are bounded by constants (`MaxTerm`, `MaxIndex`, `MaxRestarts`, `MaxInFlight`), in guards
of the actions that would exceed them. With these bounds every peer stops in the end, so deadlock is not
checked. No run of `Raft` assumes fairness.

| run | instance | checks |
|---|---|---|
| `replication` | 1 term, 2 entries, snapshots at 1, 2 messages | `IndexInv`, `CommitInLog`, `MatchIndexSound`, `CommittedOnMajority`, `CommitMonotone` |
| `restarts` | 2 terms, 1 entry, snapshots at 1, 1 restart per peer, 1 message | `TypeOK`, `ElectionSafety`, `ElectionInv`, `VoteOncePerTerm`, `NextIndexInLog`, `CommittedOnMajority`, `LeaderCompleteness` |
| `old_term` | terms 3 and 4, 2 entries, 2 commands, snapshots at 1, 1 message | `LogMatching`, `StateMachineSafety`, `Refinement` |

Each instance is as small as the hazard it aims at allows: reordering needs two entries and an old
call beside a newer one or its reply; losing a committed entry across leaders needs two terms; a second vote needs a restart.
The case of an entry that sits on a majority and is nevertheless overwritten needs four terms, out
of TLC's reach from the initial state. `MCRaftOldTerm` starts in the middle of that story, in a
state described there together with the steps that lead to it. Two entries together with two terms and
two messages from the initial state are beyond TLC's reach too, so no run has restarts and reordering together.

- `ElectionSafety`, `VoteOncePerTerm`: one leader per term, and one vote per peer and term, across restarts.
- `MatchIndexSound`: what a leader believes replicated is replicated, though replies are late and out of order.
- `NextIndexInLog`, `CommitInLog`: no slice of the log that the code takes is out of range.
- `LogMatching`: two logs that agree on the term of an entry agree up to it. This is claimed only of
  logs from which nothing was compacted: `HandleInstallSnapshot` keeps the entries after a snapshot
  without comparing terms, so they need not follow from it.
- `CommitMonotone`: only a restart moves `commitIndex` back.
- `CommittedOnMajority`, `LeaderCompleteness`, `StateMachineSafety`, `Refinement`: committed commands
  form one log, which survives restarts and changes of leader, and what a peer considers committed
  is a prefix of it.
- `IndexInv`, `ElectionInv`: the inductive invariants of the proofs.

### The rest of a peer, and the services

| run | instance | checks |
|---|---|---|
| `applier` | 5 indices, 1 restart, a channel of 1 | `AppliedInOrder`, `SliceInLog`, `CommittedIsApplied` |
| `replicator` | 3 indices, 1 heartbeat round beside `appendThread`'s | `StuckOnlyBehindSnapshot` |
| `kv` | 2 servers, 1 key, 1 retry; 2 clerks with a command each, or 1 clerk with 2 commands, snapshots and a restart | `ServerHoldsPrefix`, `NotifyNeverBlocks`, `NoChannelLeaks`, `Linearizable` |
| `ctrler` | 2 servers, 1 fault; one clerk that joins and one that queries, or one clerk with 3 commands | `ConfigsFollowLog`, `JoinReturnsDone`, `QueryFresh`, `CommandReturns` |
| `shard_config` | 10 shards, 3 groups, 4 commands | `EvenAfterReAlloc`, `MinimalTransfer` |

- `AppliedInOrder`: the service applies every command once and in order, though snapshots are installed while the applier pushes.
- `SliceInLog`: the applier's slice starts inside the log, whatever was compacted since it last looked.
- `CommittedIsApplied`: every committed command reaches the service.
- `StuckOnlyBehindSnapshot`: a command the leader has taken is committed by both peers, whatever signals and calls are lost, or
  the leader sends for ever from an index that the follower has compacted.
- `Linearizable`: the service implements `AtomicMap`. A write takes effect once although it may be agreed on twice, and a Get
  sees a state no older than its call. `ServerHoldsPrefix` is the reason on the server's side.
- `NotifyNeverBlocks`, `NoChannelLeaks`: timeouts neither block `listenApplyCh` with `kv.mu` held nor leave channels behind.
- `ConfigsFollowLog`, `JoinReturnsDone`, `CommandReturns`: controllers number configurations alike, a Join that returns
  has been done, and every command returns.
- `QueryFresh`: a Query is given the configuration it asks for, no older than its call. Its two exceptions are exact: configuration 0 for a
  retried Query that is taken for a duplicate, and, for one that reads `sc.configs` while an element is being stored, zeros
  or part of a configuration that was agreed on after the call. `by` records which way an answer came about. Without either exception TLC finds a violation.
- `EvenAfterReAlloc`, `MinimalTransfer`: JOIN and LEAVE leave the groups even and every shard served,
  whatever MOVE did before, and from an even configuration they move only shards that gain or lose a group.

Five indices let two snapshots and commands on both sides of each pass through one peer. Three indices let the logs of a new
leader and its follower conflict and be compacted differently. Two attempts at one command, at two servers, are the fewest with which a command is agreed on
twice or a late answer meets a retry. Four configurations let three groups join, one move, and another join or leave follow;
three groups are the fewest in which the largest, the smallest and another one differ. Two clerks with several commands each are
out of TLC's reach in `kv` and `ctrler`.

### The network, the harness and the checker

| run | instance | checks |
|---|---|---|
| `labrpc` | 1 end, 1 server with 2 instances, 1 call | `TrueRepliesAreLive`, `CallReturns`, `HandlersEnd` |
| `test_cluster` | 3 servers, one of which is replaced once, 1 call | `PositiveReplyPersisted`, `OldInstanceCannotSend` |
| `apply_check` | 2 servers, 2 values; no snapshots, 2 crashes and 2 indices or 1 and 3; snapshots, no crash, 4 indices; or snapshots, 1 crash, 3 indices | `NoFalseAlarm`, `DisagreementReported` |
| `porcupine` | 3 operations on 1 key with 3 times; 3 on 2 keys with 2 times, with a timeout that may come; or 2 or none with every option | `AnswerIsRight`, `ListIsRest`, `LongestIsLongest`, `CheckEnds` |

- `TrueRepliesAreLive`, `CallReturns`, `HandlersEnd`: the comment at the head of `labrpc.go` on what Call promises, and that no handler's goroutine is left blocked.
- `PositiveReplyPersisted`, `OldInstanceCannotSend`: what the comments in `ShutdownServer` and `StartServer` want of the order of their steps.
- `NoFalseAlarm`, `DisagreementReported`: the readers of `applyCh` report a disagreement if, and only if, there is one. The exception of the first is a
  test with snapshots in which the reader of a previous instance has changed what it shares with its successor, or fails on it; that of the second, such a reader that has
  ingested a snapshot. Without either exception TLC finds a violation; a crash alone, wherever it falls, causes none.
- `AnswerIsRight`, `LongestIsLongest`: the search agrees with a definition of linearizability that tries all orders.
  `ListIsRest` is why: `unlift` undoes `lift`. `CheckEnds`: an answer comes, also after a timeout. The exception
  is the empty history without a timeout: `checkParallel` waits in its select (`checker.go:293`) for a result that no search sends.

Calls do not influence each other in `labrpc`, so one is enough. The snapshot interval of `apply_check` is 2 (10 in the code), and a word
of a bitset has 2 bits (64) so that three operations need two words.

The `TypeOK` of `RaftApplier`, `ShardConfig`, `KVServer`, `ShardCtrler`, `Replicator` and `LabRPC` states the types of the
variables for a reader. No run lists it; that of `Raft` is checked and proved.

### Fairness and deadlock

| run | assumed | because |
|---|---|---|
| `applier` | weak fairness of the applier and of `listenApplyCh` | Go runs a goroutine that can run, and mutexes are held for short critical sections only |
| `replicator` | weak fairness of `appendThread`, the heartbeat timer and the end of every call; strong fairness of a heartbeat's delivery and reply | `Call` returns; a network that loses every heartbeat for ever lets nobody agree |
| `ctrler` | weak fairness of handlers, listeners and Raft's agreement on what was proposed | as above; that a majority is connected is an assumption, and faults are bounded |
| `labrpc` | weak fairness of the goroutines, and of a handler that does not hang | as above; `Hang` is not excluded |
| `porcupine` | weak fairness of `Next` | every step is one of a goroutine that runs |

Nothing is assumed of commits in `applier`, of commands, snapshots and restarts. A restart forgets what was not compacted, so
`CommittedIsApplied` speaks of the last incarnation. Deadlock is checked in `replicator`, `labrpc` and `test_cluster`, which never run out of steps.
The others stop when commands, configurations or bounds are used up, or when a check ends.

### Where a comment and the code disagree

- `raft_snapshot.go:51`, at the end of `HandleInstallSnapshot`, says that "entries with index smaller or equal to commitIndex
  will be applied before applying snapshot". The handler sets `lastApplied` to the end of the snapshot, so entries that are
  committed and not yet collected are skipped. The service loses nothing, since the snapshot covers them.
- `shardctrler/common.go:12`: "Query(num) -> fetch Config # num, or latest config if num==-1". A Query that is sent again after it was done is taken for a
  duplicate and answered without a configuration (`shardctrler/server.go:51`). And `server.go:91` reads `sc.configs` while
  `listenApplyCh` appends to it. These are the two exceptions in `QueryFresh`.
- `one()` in `raft/config.go` expects agreement on a command. A follower that has compacted its log beyond
  `PrevLogIndex` answers with term 0 (`raft_append_entry.go:124`), which the leader ignores. If the
  leader's log still has that entry, it repeats the call for ever: the exception in `StuckOnlyBehindSnapshot`.
- `raft/config.go:279` wants to "isolate previous instance of this server". With snapshots, the readers of both instances
  share `cfg.logs` and `cfg.lastApplied` (`config.go:250`), so a message that the old one still handles can make the test fail though nothing is wrong,
  or take a log back so that a disagreement goes unnoticed: the exceptions in `NoFalseAlarm` and `DisagreementReported`.

## Proofs

All theorems hold for every set of peers and commands and every value of the bounds, from
`RaftAssumption` alone (finitely many peers, `Nil` is neither a peer nor a command).

- `TypeCorrect`, `NextIndexSafe` (`RaftProofs`). `NextIndexInLog` is not inductive: `nextIndex` comes
  out of replies. `IndexInv` adds that logs are well formed (consecutive indices, a dummy entry), that a persister mirrors
  its peer, that a call in flight was made by a leader of that term, whose log still covers it
  as long as it leads, and that a ConflictIndex that its caller will use lies between one and the
  index it sent. The proof has one lemma per action. General lemmas reduce each to the
  peer it changes and the messages it sends, and `Evolves` (what a step may do to a peer)
  carries the messages that stay in flight.
- `VoteOnce` (`RaftProofs`). From `Evolves`, and for a restart from the mirror of the peer in its persister.
- `ElectionSafe` (`RaftElectionProofs`). `ElectionInv` says that a vote given stays on record
  with its voter, is never given twice in a term, and that every vote counted was given; two
  majorities of a finite set meet (`MajoritiesMeet`).

Only model-checked so far: `MatchIndexSound`, `CommitInLog`, `CommitMonotone`, `LogMatching`,
`CommittedOnMajority`, `LeaderCompleteness`, `StateMachineSafety` and `Refinement`, which rest on the
full safety argument of Raft, with snapshots; and every property of `RaftApplier`, `ShardConfig`, `Replicator`, `KVServer`,
`ShardCtrler`, `LabRPC`, `TestCluster`, `ApplyCheck` and `Porcupine`. Liveness is out of the prover's reach and stays with TLC; so
does what recursive definitions compute (`rebalance` of `ShardConfig`, the states in `Porcupine`).

Next to prove: `CommitInLog` and `CommitMonotone` by way of log matching and leader completeness; then
`StateMachineSafety`; the order of application in `RaftApplier`; `ServerHoldsPrefix` in `KVServer`;
`TrueRepliesAreLive` in `LabRPC` and `PositiveReplyPersisted` on top of it.

## Not modelled

- `labgob`: encoding. Persisted state and messages are values here.
- `shardkv`: the server is a skeleton whose handlers are empty.
- `labrpc`: the counters of calls and bytes, how long delays last, and the reflection that finds a handler.
- `porcupine`: the variants for events, which no test uses, and the HTML of `visualization.go`.
- The harnesses' statistics, their loops that only poll (`one`, `wait`, `checkOneLeader`), the groups of `shardkv/config.go`, and the
  tests themselves. What the polling checks sample appears as the invariants above.
- Sizes in bytes: `needSnapShot` is a free choice. So the boundary at which a snapshot is due is not checked.
- Durations of timers, and `Kill`, which only sets a flag that loops look at.
- The data race on the controller's map `sc.chans`, which is taken to read a consistent map.
