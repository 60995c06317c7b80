-------------------------------- MODULE Raft --------------------------------
(***************************************************************************)
(* The replication protocol of src/raft: elections, log replication,       *)
(* commitment, snapshots, persistence and restarts.                        *)
(*                                                                         *)
(* Every step below is one critical section of rf.mu on one peer: a timer  *)
(* firing, a call from the service, an RPC handler, or the processing of   *)
(* an RPC reply.  Time is abstracted: timers may fire at any moment.       *)
(*                                                                         *)
(* The network is labrpc: it loses, delays and reorders, so a message in   *)
(* flight is received at any later time or never.  A vote request is sent  *)
(* once per election and peer, so it and its reply are received at most    *)
(* once.  The same AppendEntries or InstallSnapshot call is made again     *)
(* whenever the heartbeat fires, so receiving one leaves others like it in *)
(* flight.                                                                 *)
(*                                                                         *)
(* lastApplied, hasSnapshot and the applier goroutine are the subject of   *)
(* module RaftApplier; here the service appears only as the caller of      *)
(* Start and Snapshot.                                                     *)
(***************************************************************************)
EXTENDS RaftLog

CONSTANTS Server,          \* the peers
          SnapshotIndices, \* the indices at which services take snapshots
          MaxTerm,         \* bound: no election is started in this term
          MaxIndex,        \* bound: no command is accepted at this last index
          MaxRestarts,     \* bound: restarts of each peer
          MaxInFlight      \* bound: messages in flight

ASSUME RaftAssumption ==
    /\ IsFiniteSet(Server)
    /\ Nil \notin Server
    /\ Nil \notin Value
    /\ SnapshotIndices \subseteq Nat
    /\ {MaxTerm, MaxIndex, MaxRestarts, MaxInFlight} \subseteq Nat

StateLeader    == "leader"
StateCandidate == "candidate"
StateFollower  == "follower"

VARIABLES
    rf,         \* rf[i]: the Raft structure of peer i
    persister,  \* persister[i]: what peer i last stored
    net,        \* the messages in flight
    votes,      \* history: <<term, voter, candidate>> for every vote given
    committed   \* history: the commands that leaders have committed

vars == <<rf, persister, net, votes, committed>>

\* A snapshot is the service's state: the commands it has applied, in order.
SnapshotData == Seq(Value \cup {Nil})

Persister == [currentTerm : Nat, votedFor : Server \cup {Nil},
              logs : Seq(Entry) \ {<< >>}, snapshot : SnapshotData]

(***************************************************************************)
(* The Raft structure.  grantedVotes holds the peers that the counter of   *)
(* the running election has counted; inc counts the restarts of the peer.  *)
(***************************************************************************)
RaftState ==
    [state : {StateLeader, StateCandidate, StateFollower},
     currentTerm : Nat, votedFor : Server \cup {Nil}, logs : Seq(Entry) \ {<< >>},
     commitIndex : Nat, nextIndex : [Server -> Nat], matchIndex : [Server -> Nat],
     grantedVotes : SUBSET Server, inc : Nat]

(***************************************************************************)
(* RPC records, raft_rpc.go.  A reply carries the arguments of its call:   *)
(* the goroutine that made the call still holds them.  `inc' is the        *)
(* incarnation of the caller: labrpc drops replies to the client ends of   *)
(* an earlier incarnation, though its requests may still be delivered.     *)
(***************************************************************************)
RequestVoteArgs ==
    [kind : {"RequestVote"}, from : Server, to : Server, inc : Nat,
     Term : Nat, LastLogIndex : Nat, LastLogTerm : Nat]
RequestVoteReply ==
    [kind : {"RequestVoteReply"}, args : RequestVoteArgs,
     Term : Nat, VoteGranted : BOOLEAN]

AppendEntriesArgs ==
    [kind : {"AppendEntries"}, from : Server, to : Server, inc : Nat,
     Term : Nat, PrevLogIndex : Nat, PrevLogTerm : Nat,
     Entries : Seq(Entry), LeaderCommit : Nat]
AppendEntriesReply ==
    [kind : {"AppendEntriesReply"}, args : AppendEntriesArgs,
     Term : Nat, Success : BOOLEAN, ConflictIndex : Nat]

InstallSnapshotArgs ==
    [kind : {"InstallSnapshot"}, from : Server, to : Server, inc : Nat,
     Term : Nat, LastIncludedIndex : Nat, LastIncludedTerm : Nat,
     Snapshot : SnapshotData]
InstallSnapshotReply ==
    [kind : {"InstallSnapshotReply"}, args : InstallSnapshotArgs, Term : Nat]

Message == RequestVoteArgs \cup RequestVoteReply
             \cup AppendEntriesArgs \cup AppendEntriesReply
             \cup InstallSnapshotArgs \cup InstallSnapshotReply

-----------------------------------------------------------------------------
Commands(entries) == [k \in DOMAIN entries |-> entries[k].Command]

\* Every command of peer i's log, compacted ones included.
history(i) == persister[i].snapshot \o Commands(Tail(rf[i].logs))

Majority(S) == Cardinality(S) > Cardinality(Server) \div 2

(***************************************************************************)
(* Put messages on the network.  A message that is lost is one that is     *)
(* never received; only when more than MaxInFlight would be in flight are  *)
(* some taken off.                                                         *)
(***************************************************************************)
transmit(sent, received) ==
    LET all == (net \ received) \cup sent
    IN  net' \in kSubset(Min({MaxInFlight, Cardinality(all)}), all)

send(m) == transmit({m}, {})

(***************************************************************************)
(* rf.persist(): the state as the handler leaves it reaches the persister  *)
(* before rf.mu is released, hence before any reply or request that        *)
(* depends on it is sent.  SaveStateAndSnapshot also replaces the snapshot.*)
(***************************************************************************)
SaveStateAndSnapshot(i, snapshot) ==
    persister' = [persister EXCEPT ![i] =
        [currentTerm |-> rf'[i].currentTerm, votedFor |-> rf'[i].votedFor,
         logs |-> rf'[i].logs, snapshot |-> snapshot]]

\* Mutant of persist: the vote is not saved.
persistWithoutVote(i) ==
    persister' = [persister EXCEPT ![i].currentTerm = rf'[i].currentTerm,
                                   ![i].logs = rf'[i].logs]

\* Mutant of persist: new log entries are not saved.
persistWithoutLog(i) ==
    persister' = [persister EXCEPT ![i].currentTerm = rf'[i].currentTerm,
                                   ![i].votedFor = rf'[i].votedFor]

persist(i) == SaveStateAndSnapshot(i, persister[i].snapshot)

\* Mutant of stepDown: votedFor is reset to Go's zero value instead of -1.
stepDownToZero(r, term) ==
    [r EXCEPT !.state = StateFollower, !.currentTerm = term, !.votedFor = 0]

\* A reply with a higher term makes its receiver a follower in that term.
stepDown(r, term) ==
    [r EXCEPT !.state = StateFollower, !.currentTerm = term, !.votedFor = Nil]

\* A request of a leader that is not stale makes its receiver follow that leader.
follow(r, term) ==
    [r EXCEPT !.state = StateFollower, !.currentTerm = term,
              !.votedFor = IF term > r.currentTerm THEN Nil ELSE @]

-----------------------------------------------------------------------------
emptyPersister == [currentTerm |-> 0, votedFor |-> Nil, logs |-> newLogs, snapshot |-> << >>]

\* The structure that Make builds from a persister.
newRaft(p, inc) ==
    [state |-> StateFollower, currentTerm |-> p.currentTerm, votedFor |-> p.votedFor,
     logs |-> p.logs, commitIndex |-> dummyIndex(p.logs),
     nextIndex |-> [j \in Server |-> 0], matchIndex |-> [j \in Server |-> 0],
     grantedVotes |-> {}, inc |-> inc]

Init ==
    /\ rf = [i \in Server |-> newRaft(emptyPersister, 0)]
    /\ persister = [i \in Server |-> emptyPersister]
    /\ net = {}
    /\ votes = {}
    /\ committed = << >>

(***************************************************************************)
(* The peer crashes and Make starts it again from its persister.  Requests *)
(* it sent may still be delivered, replies to them are dropped.            *)
(***************************************************************************)
Make(i) ==
    /\ rf[i].inc < MaxRestarts
    /\ rf' = [rf EXCEPT ![i] = newRaft(persister[i], @.inc + 1)]
    /\ UNCHANGED <<persister, net, votes, committed>>

-----------------------------------------------------------------------------
(* Elections, raft_election.go *)

\* ticker: the election timer of a peer that does not lead fires.
StartElection(i) ==
    /\ rf[i].state # StateLeader
    /\ rf[i].currentTerm < MaxTerm
    /\ rf' = [rf EXCEPT ![i] =
         [rf[i] EXCEPT !.state = StateCandidate, !.currentTerm = @ + 1,
                   !.votedFor = i, !.grantedVotes = {i}]]
    /\ persist(i)
    /\ votes' = votes \cup {<<rf[i].currentTerm + 1, i, i>>}
    /\ transmit({[kind |-> "RequestVote", from |-> i, to |-> j, inc |-> rf[i].inc,
                  Term |-> rf[i].currentTerm + 1, LastLogIndex |-> lastIndex(rf[i].logs),
                  LastLogTerm |-> lastEntry(rf[i].logs).Term] : j \in Server \ {i}}, {})
    /\ UNCHANGED committed

\* The vote a peer has given once it has caught up with the request's term.
voteInTerm(m) == IF m.Term > rf[m.to].currentTerm THEN Nil ELSE rf[m.to].votedFor

\* Mutant of grantsVote: a second candidate of the same term gets the vote too.
grantsEveryVote(m) ==
    /\ m.Term >= rf[m.to].currentTerm
    /\ isLogUpToDate(rf[m.to].logs, m.LastLogTerm, m.LastLogIndex)

grantsVote(m) ==
    /\ m.Term >= rf[m.to].currentTerm
    /\ voteInTerm(m) \in {Nil, m.from}
    /\ isLogUpToDate(rf[m.to].logs, m.LastLogTerm, m.LastLogIndex)

HandleRequestVote(m) ==
    LET i == m.to
        newTerm == m.Term > rf[i].currentTerm
    IN
    /\ m.kind = "RequestVote"
    /\ rf' = [rf EXCEPT ![i] =
         [rf[i] EXCEPT !.state = IF newTerm THEN StateFollower ELSE @,
                   !.currentTerm = IF newTerm THEN m.Term ELSE @,
                   !.votedFor = IF grantsVote(m) THEN m.from ELSE voteInTerm(m)]]
    /\ persist(i)
    /\ votes' = votes \cup (IF grantsVote(m) THEN {<<m.Term, i, m.from>>} ELSE {})
    /\ transmit({[kind |-> "RequestVoteReply", args |-> m, Term |-> rf'[i].currentTerm,
                  VoteGranted |-> grantsVote(m)]}, {m})
    /\ UNCHANGED committed

\* Mutant of inElection: votes of an earlier round are counted too.
inAnyElection(r) ==
    LET i == r.args.from IN
    /\ r.kind = "RequestVoteReply"
    /\ r.args.inc = rf[i].inc
    /\ rf[i].state = StateCandidate

\* The closure in StartElection counts replies only in the round it belongs to.
inElection(r) ==
    LET i == r.args.from IN
    /\ r.kind = "RequestVoteReply"
    /\ r.args.inc = rf[i].inc
    /\ r.args.Term = rf[i].currentTerm
    /\ rf[i].state = StateCandidate

\* Mutant of becomeLeader: nextIndex is one past the first free index.
becomeLeaderTooFar(r) ==
    [r EXCEPT !.state = StateLeader, !.matchIndex = [j \in Server |-> 0],
              !.nextIndex = [j \in Server |-> lastIndex(r.logs) + 2]]

becomeLeader(r) ==
    [r EXCEPT !.state = StateLeader, !.matchIndex = [j \in Server |-> 0],
              !.nextIndex = [j \in Server |-> lastIndex(r.logs) + 1]]

CountVote(r) ==
    LET i == r.args.from
        counted == [rf[i] EXCEPT !.grantedVotes = @ \cup {r.args.to}]
    IN
    /\ inElection(r)
    /\ r.VoteGranted
    /\ rf' = [rf EXCEPT ![i] = IF Majority(counted.grantedVotes)
                               THEN becomeLeader(counted) ELSE counted]
    /\ transmit({}, {r})
    /\ UNCHANGED <<persister, votes, committed>>

LoseElection(r) ==
    LET i == r.args.from IN
    /\ inElection(r)
    /\ ~r.VoteGranted
    /\ r.Term > rf[i].currentTerm
    /\ rf' = [rf EXCEPT ![i] = stepDown(@, r.Term)]
    /\ persist(i)
    /\ transmit({}, {r})
    /\ UNCHANGED <<votes, committed>>

-----------------------------------------------------------------------------
(* Replication, raft.go and raft_append_entry.go *)

\* Start on the leader; on other peers Start changes nothing.
Start(i, command) ==
    /\ rf[i].state = StateLeader
    /\ lastIndex(rf[i].logs) < MaxIndex
    /\ rf' = [rf EXCEPT ![i].logs = Append(@,
         [Index |-> lastIndex(@) + 1, Term |-> rf[i].currentTerm, Command |-> command])]
    /\ persist(i)
    /\ UNCHANGED <<net, votes, committed>>

(***************************************************************************)
(* appendOneRound, run by the heartbeat and by the peer's appendThread: a  *)
(* round sends every entry the peer is missing, or the snapshot when the   *)
(* entry before them was compacted away.                                   *)
(***************************************************************************)
prevLogIndex(i, j) == rf[i].nextIndex[j] - 1

sendAppendEntries(i, j) ==
    LET prev == prevLogIndex(i, j) IN
    /\ rf[i].state = StateLeader
    /\ prev >= dummyIndex(rf[i].logs)
    /\ send([kind |-> "AppendEntries", from |-> i, to |-> j, inc |-> rf[i].inc,
             Term |-> rf[i].currentTerm, PrevLogIndex |-> prev,
             PrevLogTerm |-> getEntry(rf[i].logs, prev).Term,
             Entries |-> sliceFrom(rf[i].logs, prev + 1),
             LeaderCommit |-> rf[i].commitIndex])
    /\ UNCHANGED <<rf, persister, votes, committed>>

sendInstallSnapshot(i, j) ==
    /\ rf[i].state = StateLeader
    /\ prevLogIndex(i, j) < dummyIndex(rf[i].logs)
    /\ send([kind |-> "InstallSnapshot", from |-> i, to |-> j, inc |-> rf[i].inc,
             Term |-> rf[i].currentTerm, LastIncludedIndex |-> dummyIndex(rf[i].logs),
             LastIncludedTerm |-> dummyTerm(rf[i].logs),
             Snapshot |-> persister[i].snapshot])
    /\ UNCHANGED <<rf, persister, votes, committed>>

replyAppend(m, term, success, conflict) ==
    send([kind |-> "AppendEntriesReply", args |-> m, Term |-> term,
          Success |-> success, ConflictIndex |-> conflict])

\* HandleAppendEntries, a request from an earlier term.
RejectStaleAppend(m) ==
    /\ m.kind = "AppendEntries"
    /\ m.Term < rf[m.to].currentTerm
    /\ replyAppend(m, rf[m.to].currentTerm, FALSE, 0)
    /\ UNCHANGED rf
    /\ persist(m.to)
    /\ UNCHANGED <<votes, committed>>

\* The entry before the new ones is already compacted: the reply's Term is 0.
RejectCompactedAppend(m) ==
    LET i == m.to IN
    /\ m.kind = "AppendEntries"
    /\ m.Term >= rf[i].currentTerm
    /\ m.PrevLogIndex < dummyIndex(rf[i].logs)
    /\ rf' = [rf EXCEPT ![i] = follow(@, m.Term)]
    /\ persist(i)
    /\ replyAppend(m, 0, FALSE, dummyIndex(rf[i].logs) + 1)
    /\ UNCHANGED <<votes, committed>>

RejectUnmatchedAppend(m) ==
    LET i == m.to IN
    /\ m.kind = "AppendEntries"
    /\ m.Term >= rf[i].currentTerm
    /\ m.PrevLogIndex >= dummyIndex(rf[i].logs)
    /\ ~matchLog(rf[i].logs, m.PrevLogTerm, m.PrevLogIndex)
    /\ rf' = [rf EXCEPT ![i] = follow(@, m.Term)]
    /\ persist(i)
    /\ replyAppend(m, m.Term, FALSE, conflictIndex(rf[i].logs, m.PrevLogIndex))
    /\ UNCHANGED <<votes, committed>>

\* The follower trusts LeaderCommit up to its own last entry.
followerCommit(commitIndex, leaderCommit, l) ==
    IF leaderCommit > commitIndex THEN Min({leaderCommit, lastIndex(l)}) ELSE commitIndex

AcceptAppend(m) ==
    LET i == m.to
        l == appendFrom(rf[i].logs, m.Entries)
    IN
    /\ m.kind = "AppendEntries"
    /\ m.Term >= rf[i].currentTerm
    /\ m.PrevLogIndex >= dummyIndex(rf[i].logs)
    /\ matchLog(rf[i].logs, m.PrevLogTerm, m.PrevLogIndex)
    /\ rf' = [rf EXCEPT ![i] =
         [follow(rf[i], m.Term) EXCEPT
            !.logs = l, !.commitIndex = followerCommit(@, m.LeaderCommit, l)]]
    /\ persist(i)
    /\ replyAppend(m, m.Term, TRUE, 0)
    /\ UNCHANGED <<votes, committed>>

\* Mutant of committable: entries of earlier terms are committed by counting too.
committableInAnyTerm(i, match, k) ==
    Majority({i} \cup {j \in Server \ {i} : match[j] >= k})

\* Only an entry of the leader's own term is committed by counting replicas.
committable(i, match, k) ==
    /\ Majority({i} \cup {j \in Server \ {i} : match[j] >= k})
    /\ getEntry(rf[i].logs, k).Term = rf[i].currentTerm

advanceCommitIndexForLeader(i, match) ==
    LET from == rf[i].commitIndex
    IN  Max({from} \cup {k \in from + 1 .. lastIndex(rf[i].logs) : committable(i, match, k)})

\* processAppendEntriesReply and processInstallSnapshotReply, higher term.
StepDownOnReply(r) ==
    LET i == r.args.from IN
    /\ r.kind \in {"AppendEntriesReply", "InstallSnapshotReply"}
    /\ r.args.inc = rf[i].inc
    /\ r.Term > rf[i].currentTerm
    /\ rf' = [rf EXCEPT ![i] = stepDown(@, r.Term)]
    /\ persist(i)
    /\ UNCHANGED <<net, votes, committed>>

\* The reply belongs to this term's leadership and to the peer's current nextIndex.
replyIsCurrent(r) ==
    LET i == r.args.from IN
    /\ r.kind = "AppendEntriesReply"
    /\ r.args.inc = rf[i].inc
    /\ r.Term = rf[i].currentTerm
    /\ rf[i].state = StateLeader
    /\ r.args.Term = rf[i].currentTerm
    /\ r.args.PrevLogIndex = prevLogIndex(i, r.args.to)

\* Mutant of replicated: the leader's log may have grown since the call.
replicatedSoFar(r) == lastIndex(rf[r.args.from].logs)

\* The last index that a successful call has put on the peer.
replicated(r) == r.args.PrevLogIndex + Len(r.args.Entries)

AppendSucceeded(r) ==
    LET i == r.args.from
        match == [rf[i].matchIndex EXCEPT ![r.args.to] = replicated(r)]
        commit == advanceCommitIndexForLeader(i, match)
    IN
    /\ replyIsCurrent(r)
    /\ r.Success
    /\ rf' = [rf EXCEPT ![i] =
         [rf[i] EXCEPT !.matchIndex = match, !.nextIndex[r.args.to] = replicated(r) + 1,
                   !.commitIndex = commit]]
    /\ committed' = IF commit > rf[i].commitIndex /\ commit > Len(committed)
                    THEN SubSeq(history(i), 1, commit) ELSE committed
    /\ UNCHANGED <<persister, net, votes>>

AppendConflicted(r) ==
    /\ replyIsCurrent(r)
    /\ ~r.Success
    /\ rf' = [rf EXCEPT ![r.args.from].nextIndex[r.args.to] = r.ConflictIndex]
    /\ UNCHANGED <<persister, net, votes, committed>>

-----------------------------------------------------------------------------
(* Snapshots, raft_snapshot.go *)

\* The service's state after applying every entry up to index: external to raft.
serviceState(i, index) ==
    LET l == rf[i].logs
    IN  persister[i].snapshot \o Commands(slice(l, dummyIndex(l) + 1, index + 1))

\* The service calls Snapshot with the index of a command it was given, which is
\* committed (CommitInLog shows that it is then in the log).
Snapshot(i, index) ==
    /\ dummyIndex(rf[i].logs) < index
    /\ index <= Min({rf[i].commitIndex, lastIndex(rf[i].logs)})
    /\ rf' = [rf EXCEPT ![i].logs =
         LET l == sliceFrom(@, index) IN setDummy(l, dummyIndex(l), dummyTerm(l))]
    /\ SaveStateAndSnapshot(i, serviceState(i, index))
    /\ UNCHANGED <<net, votes, committed>>

replySnapshot(m, term) ==
    send([kind |-> "InstallSnapshotReply", args |-> m, Term |-> term])

RejectStaleSnapshot(m) ==
    /\ m.kind = "InstallSnapshot"
    /\ m.Term < rf[m.to].currentTerm
    /\ replySnapshot(m, rf[m.to].currentTerm)
    /\ UNCHANGED <<rf, persister, votes, committed>>

\* Mutant of outdated: the snapshot is compared with the last one, not the commit index.
outdatedByLog(m) == m.LastIncludedIndex <= dummyIndex(rf[m.to].logs)

outdated(m) == m.LastIncludedIndex <= rf[m.to].commitIndex

IgnoreOutdatedSnapshot(m) ==
    /\ m.kind = "InstallSnapshot"
    /\ m.Term >= rf[m.to].currentTerm
    /\ outdated(m)
    /\ rf' = [rf EXCEPT ![m.to] = follow(@, m.Term)]
    /\ persist(m.to)
    /\ replySnapshot(m, m.Term)
    /\ UNCHANGED <<votes, committed>>

\* The entries after the snapshot are kept, whatever the term of the entry it ends at.
afterSnapshot(l, index) ==
    IF index > lastIndex(l) THEN newLogs ELSE sliceFrom(l, index)

InstallSnapshot(m) ==
    LET i == m.to
        index == m.LastIncludedIndex
    IN
    /\ m.kind = "InstallSnapshot"
    /\ m.Term >= rf[i].currentTerm
    /\ ~outdated(m)
    /\ rf' = [rf EXCEPT ![i] =
         [follow(rf[i], m.Term) EXCEPT
            !.logs = setDummy(afterSnapshot(@, index), index, m.LastIncludedTerm),
            !.commitIndex = index]]
    /\ SaveStateAndSnapshot(i, m.Snapshot)
    /\ replySnapshot(m, m.Term)
    /\ UNCHANGED <<votes, committed>>

\* Whatever happened to the peer since the call, its indices are set back to the snapshot.
SnapshotAcknowledged(r) ==
    LET i == r.args.from
        index == r.args.LastIncludedIndex
    IN
    /\ r.kind = "InstallSnapshotReply"
    /\ r.args.inc = rf[i].inc
    /\ r.Term <= rf[i].currentTerm
    /\ rf[i].state = StateLeader
    /\ r.args.Term = rf[i].currentTerm
    /\ rf' = [rf EXCEPT ![i] =
         [rf[i] EXCEPT !.matchIndex[r.args.to] = index, !.nextIndex[r.args.to] = index + 1]]
    /\ UNCHANGED <<persister, net, votes, committed>>

-----------------------------------------------------------------------------
Next ==
    \/ \E i \in Server :
         \/ StartElection(i)
         \/ \E command \in Value : Start(i, command)
         \/ \E j \in Server \ {i} : sendAppendEntries(i, j)
         \/ \E j \in Server \ {i} : sendInstallSnapshot(i, j)
         \/ \E index \in SnapshotIndices : Snapshot(i, index)
         \/ Make(i)
    \/ \E m \in net :
         \/ HandleRequestVote(m)
         \/ CountVote(m)
         \/ LoseElection(m)
         \/ RejectStaleAppend(m)
         \/ RejectCompactedAppend(m)
         \/ RejectUnmatchedAppend(m)
         \/ AcceptAppend(m)
         \/ AppendSucceeded(m)
         \/ AppendConflicted(m)
         \/ RejectStaleSnapshot(m)
         \/ IgnoreOutdatedSnapshot(m)
         \/ InstallSnapshot(m)
         \/ SnapshotAcknowledged(m)
         \/ StepDownOnReply(m)

Spec == Init /\ [][Next]_vars
-----------------------------------------------------------------------------
\* Types of the variables.
TypeOK ==
    /\ rf \in [Server -> RaftState]
    /\ persister \in [Server -> Persister]
    /\ net \subseteq Message
    /\ votes \subseteq Nat \X Server \X Server
    /\ committed \in SnapshotData

(***************************************************************************)
(* At most one leader per term: the vote counting in StartElection and the *)
(* voting in HandleRequestVote, across crashes.  checkOneLeader in         *)
(* raft/config.go samples this.                                            *)
(***************************************************************************)
ElectionSafety ==
    \A i, j \in Server :
        /\ rf[i].state = StateLeader
        /\ rf[j].state = StateLeader
        /\ rf[i].currentTerm = rf[j].currentTerm
        => i = j

(***************************************************************************)
(* A peer's term never decreases and its vote within a term never changes, *)
(* through every handler and every restart from the persister.             *)
(***************************************************************************)
VoteOncePerTerm ==
    [][\A i \in Server :
         /\ rf'[i].currentTerm >= rf[i].currentTerm
         /\ rf'[i].currentTerm = rf[i].currentTerm /\ rf[i].votedFor # Nil
              => rf'[i].votedFor = rf[i].votedFor]_vars

(***************************************************************************)
(* What a leader believes a peer to hold, the peer holds, as long as it is *)
(* in the leader's term: matchIndex, from which advanceCommitIndexForLeader*)
(* commits, is sound although replies arrive late and out of order.        *)
(***************************************************************************)
MatchIndexSound ==
    \A i, j \in Server :
        rf[i].state = StateLeader /\ rf[j].currentTerm = rf[i].currentTerm
          => /\ rf[i].matchIndex[j] <= lastIndex(rf[j].logs)
             /\ \A k \in 1 .. rf[i].matchIndex[j] : history(i)[k] = history(j)[k]

(***************************************************************************)
(* appendOneRound never panics, and never reads below index 0: a leader's  *)
(* nextIndex stays inside its log, although late replies move it back and  *)
(* ConflictIndex comes from another peer's log (which a comment in         *)
(* processAppendEntriesReply claims to be at least one).                   *)
(***************************************************************************)
NextIndexInLog ==
    \A i \in Server : rf[i].state = StateLeader =>
        \A j \in Server \ {i} : rf[i].nextIndex[j] \in 1 .. lastIndex(rf[i].logs) + 1

(***************************************************************************)
(* commitIndex stays inside the log while snapshots cut it and conflicting *)
(* entries are truncated: the slices that the applier, Snapshot and        *)
(* advanceCommitIndexForLeader take never panic.                           *)
(***************************************************************************)
CommitInLog ==
    \A i \in Server : rf[i].commitIndex \in dummyIndex(rf[i].logs) .. lastIndex(rf[i].logs)

(***************************************************************************)
(* Two logs that agree on the term at an index agree on all earlier ones:  *)
(* the induction that matchLog rests on.  It is claimed of logs from which *)
(* nothing was compacted: HandleInstallSnapshot keeps the entries after a  *)
(* snapshot without comparing terms, so they need not follow from it.      *)
(***************************************************************************)
LogMatching ==
    \A i, j \in Server :
      LET l == rf[i].logs
          ll == rf[j].logs
      IN  dummyIndex(l) = 0 /\ dummyIndex(ll) = 0 =>
            \A k \in 1 .. Min({Len(l), Len(ll)}) :
              l[k].Term = ll[k].Term => SubSeq(l, 1, k) = SubSeq(ll, 1, k)

(***************************************************************************)
(* Only a restart moves commitIndex back: a late snapshot or LeaderCommit  *)
(* never makes the applier hand out a command twice.                       *)
(***************************************************************************)
CommitMonotone ==
    [][\A i \in Server :
         rf'[i].commitIndex < rf[i].commitIndex => rf'[i].inc > rf[i].inc]_vars
=============================================================================
