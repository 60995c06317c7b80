------------------------- MODULE RaftElectionProofs -------------------------
(***************************************************************************)
(* Elections in Raft, for any number of peers and restarts: ElectionInv is *)
(* an invariant, and with it ElectionSafety holds.                         *)
(***************************************************************************)
EXTENDS RaftProofs, FiniteSetTheorems

\* A step that has nothing to do with votes: no vote is given, no vote reply is sent,
\* and no peer becomes a candidate or a leader or counts a vote.
Quiet ==
    /\ votes' = votes
    /\ \A m \in net' : m.kind = "RequestVoteReply" => m \in net
    /\ \A i \in Server : rf'[i].state # StateFollower =>
         /\ rf'[i].state = rf[i].state
         /\ rf'[i].currentTerm = rf[i].currentTerm
         /\ rf'[i].grantedVotes = rf[i].grantedVotes

\* A quiet step of one peer.
LEMMA QuietPeer ==
    ASSUME rf \in [Server -> RaftState], NEW i \in Server, NEW X, rf' = [rf EXCEPT ![i] = X],
           X.state # StateFollower =>
              /\ X.state = rf[i].state /\ X.currentTerm = rf[i].currentTerm
              /\ X.grantedVotes = rf[i].grantedVotes,
           NEW sent, net' \subseteq net \cup sent,
           \A m \in sent : m.kind # "RequestVoteReply", votes' = votes
    PROVE  Quiet
  <1>1. rf'[i] = X /\ \A j \in Server \ {i} : rf'[j] = rf[j]
    OBVIOUS
  <1> QED
    BY <1>1 DEF Quiet

\* A vote that was given stays on record as the voter evolves.
LEMMA VoteStays ==
    ASSUME IndexInv, IndexInv', ElectionInv, \A j \in Server : Evolves(rf[j], rf'[j]),
           NEW x \in votes
    PROVE  /\ x[1] <= rf'[x[2]].currentTerm
           /\ x[1] = rf'[x[2]].currentTerm => rf'[x[2]].votedFor = x[3]
  <1> DEFINE v == x[2]
  <1>1. x[1] \in Nat /\ v \in Server /\ x[3] \in Server
    BY DEF IndexInv, TypeOK
  <1>2. rf[v].currentTerm \in Nat /\ rf'[v].currentTerm \in Nat
    BY <1>1 DEF IndexInv, TypeOK, RaftState
  <1>3. x[1] <= rf[v].currentTerm /\ (x[1] = rf[v].currentTerm => rf[v].votedFor = x[3])
    BY DEF ElectionInv
  <1>4. /\ rf'[v].currentTerm >= rf[v].currentTerm
        /\ rf'[v].currentTerm = rf[v].currentTerm /\ rf[v].votedFor # Nil =>
             rf'[v].votedFor = rf[v].votedFor
    BY <1>1 DEF Evolves
  <1>5. x[3] # Nil
    BY <1>1, ConstantFacts
  <1> HIDE DEF v
  <1>6. /\ x[1] <= rf'[v].currentTerm
        /\ x[1] = rf'[v].currentTerm => rf'[v].votedFor = x[3]
    BY <1>1, <1>2, <1>3, <1>4, <1>5
  <1> QED
    BY <1>6 DEF v

\* A quiet step preserves ElectionInv.
LEMMA QuietStep ==
    ASSUME IndexInv, IndexInv', ElectionInv, \A j \in Server : Evolves(rf[j], rf'[j]), Quiet
    PROVE  ElectionInv'
  <1>1. votes' = votes
    BY DEF Quiet
  <1>2. \A x \in votes : /\ x[1] <= rf'[x[2]].currentTerm
                         /\ x[1] = rf'[x[2]].currentTerm => rf'[x[2]].votedFor = x[3]
    BY VoteStays
  <1>3. \A m \in net' : m.kind = "RequestVoteReply" /\ m.VoteGranted =>
          <<m.args.Term, m.args.to, m.args.from>> \in votes
    BY DEF Quiet, ElectionInv
  <1>4. \A i \in Server : rf'[i].state # StateFollower =>
          \A v \in rf'[i].grantedVotes : <<rf'[i].currentTerm, v, i>> \in votes
    BY DEF Quiet, ElectionInv
  <1>5. \A i \in Server : rf'[i].state = StateLeader => Majority(rf'[i].grantedVotes)
    BY DEF Quiet, ElectionInv, StateLeader, StateFollower
  <1>6. \A x, y \in votes : x[1] = y[1] /\ x[2] = y[2] => x[3] = y[3]
    BY DEF ElectionInv
  <1> QED
    BY <1>1, <1>2, <1>3, <1>4, <1>5, <1>6 DEF ElectionInv, Majority

\* Nothing that is sent in these steps is a vote reply: replication, snapshots, restarts.
LEMMA PeerIsQuiet ==
    ASSUME IndexInv, NEW i \in Server,
           \/ Make(i)
           \/ \E command \in Value : Start(i, command)
           \/ \E j \in Server \ {i} : sendAppendEntries(i, j) \/ sendInstallSnapshot(i, j)
           \/ \E index \in SnapshotIndices : Snapshot(i, index)
    PROVE  Quiet
  <1>1. rf \in [Server -> RaftState] /\ rf[i] \in RaftState
    BY PeerFacts
  <1>2. CASE Make(i)
    <2> DEFINE X == newRaft(persister[i], rf[i].inc + 1)
               sent == {}
    <2>1. /\ rf' = [rf EXCEPT ![i] = X] /\ net' \subseteq net \cup sent /\ votes' = votes
          /\ \A m \in sent : m.kind # "RequestVoteReply"
      BY <1>2 DEF Make
    <2>2. X.state = StateFollower
      BY DEF newRaft
    <2> HIDE DEF X, sent
    <2> QED
      BY <1>1, <2>1, <2>2, QuietPeer
  <1>3. CASE \E command \in Value : Start(i, command)
    <2>1. PICK l : rf' = [rf EXCEPT ![i] = [rf[i] EXCEPT !.logs = l]]
      BY <1>3 DEF Start
    <2>2. \A j \in Server : /\ rf'[j].state = rf[j].state
                            /\ rf'[j].currentTerm = rf[j].currentTerm
                            /\ rf'[j].grantedVotes = rf[j].grantedVotes
      BY <1>1, <2>1 DEF RaftState
    <2>3. net' = net /\ votes' = votes
      BY <1>3 DEF Start
    <2> QED
      BY <2>2, <2>3 DEF Quiet
  <1>4. CASE \E j \in Server \ {i} : sendAppendEntries(i, j) \/ sendInstallSnapshot(i, j)
    <2>1. PICK m : send(m) /\ m.kind # "RequestVoteReply" /\ rf' = rf /\ votes' = votes
      BY <1>4 DEF sendAppendEntries, sendInstallSnapshot
    <2>2. net' \subseteq net \cup {m}
      BY <2>1, TransmitSubset DEF send
    <2> QED
      BY <2>1, <2>2 DEF Quiet
  <1>5. CASE \E index \in SnapshotIndices : Snapshot(i, index)
    <2>1. PICK l : rf' = [rf EXCEPT ![i] = [rf[i] EXCEPT !.logs = l]]
      BY <1>5 DEF Snapshot
    <2>2. \A j \in Server : /\ rf'[j].state = rf[j].state
                            /\ rf'[j].currentTerm = rf[j].currentTerm
                            /\ rf'[j].grantedVotes = rf[j].grantedVotes
      BY <1>1, <2>1 DEF RaftState
    <2>3. net' = net /\ votes' = votes
      BY <1>5 DEF Snapshot
    <2> QED
      BY <2>2, <2>3 DEF Quiet
  <1> QED
    BY <1>2, <1>3, <1>4, <1>5

\* A handler or a reply after which the peer is a follower.
LEMMA FollowerIsQuiet ==
    ASSUME IndexInv, NEW m \in net,
           \/ LoseElection(m) \/ StepDownOnReply(m)
           \/ RejectStaleAppend(m) \/ RejectCompactedAppend(m) \/ RejectUnmatchedAppend(m)
           \/ AcceptAppend(m)
           \/ RejectStaleSnapshot(m) \/ IgnoreOutdatedSnapshot(m) \/ InstallSnapshot(m)
    PROVE  Quiet
  <1>1. rf \in [Server -> RaftState] /\ m \in Message
    BY DEF IndexInv, TypeOK
  <1>2. CASE LoseElection(m) \/ StepDownOnReply(m)
    <2> DEFINE i == m.args.from
               X == stepDown(rf[i], m.Term)
               sent == {}
    <2>1. m.kind \in {"RequestVoteReply", "AppendEntriesReply", "InstallSnapshotReply"}
      BY <1>2 DEF LoseElection, StepDownOnReply, inElection
    <2>2. i \in Server
      BY <1>1, <2>1, MessageKinds DEF RequestVoteReply, RequestVoteArgs, AppendEntriesReply,
            AppendEntriesArgs, InstallSnapshotReply, InstallSnapshotArgs
    <2>3. rf[i] \in RaftState
      BY <1>1, <2>2
    <2>4. X.state = StateFollower
      BY <2>3 DEF stepDown, RaftState
    <2>5. /\ rf' = [rf EXCEPT ![i] = X] /\ net' \subseteq net \cup sent /\ votes' = votes
          /\ \A n \in sent : n.kind # "RequestVoteReply"
      BY <1>2, TransmitSubset DEF LoseElection, StepDownOnReply
    <2> HIDE DEF X, i, sent
    <2> QED
      BY <1>1, <2>2, <2>4, <2>5, QuietPeer
  <1>3. CASE RejectStaleAppend(m) \/ RejectStaleSnapshot(m)
    <2>1. PICK r : send(r) /\ r.kind # "RequestVoteReply" /\ rf' = rf /\ votes' = votes
      BY <1>3 DEF RejectStaleAppend, replyAppend, RejectStaleSnapshot, replySnapshot
    <2>2. net' \subseteq net \cup {r}
      BY <2>1, TransmitSubset DEF send
    <2> QED
      BY <2>1, <2>2 DEF Quiet
  <1>4. CASE \/ RejectCompactedAppend(m) \/ RejectUnmatchedAppend(m) \/ AcceptAppend(m)
             \/ IgnoreOutdatedSnapshot(m) \/ InstallSnapshot(m)
    <2> DEFINE i == m.to
    <2>1. m.kind \in {"AppendEntries", "InstallSnapshot"}
      BY <1>4 DEF RejectCompactedAppend, RejectUnmatchedAppend, AcceptAppend,
                  IgnoreOutdatedSnapshot, InstallSnapshot
    <2>2. i \in Server
      BY <1>1, <2>1, MessageKinds DEF AppendEntriesArgs, InstallSnapshotArgs
    <2>3. rf[i] \in RaftState
      BY <1>1, <2>2
    <2>4. follow(rf[i], m.Term).state = StateFollower
      BY <2>3 DEF follow, RaftState
    <2>5. PICK X : rf' = [rf EXCEPT ![i] = X] /\ X.state = StateFollower
      <3>1. CASE RejectCompactedAppend(m) \/ RejectUnmatchedAppend(m) \/ IgnoreOutdatedSnapshot(m)
        BY <3>1, <2>4 DEF RejectCompactedAppend, RejectUnmatchedAppend, IgnoreOutdatedSnapshot
      <3>2. ASSUME NEW l, NEW c
            PROVE  [follow(rf[i], m.Term) EXCEPT !.logs = l, !.commitIndex = c].state
                     = StateFollower
        BY <2>3, <2>4 DEF follow, RaftState
      <3>3. CASE AcceptAppend(m)
        BY <3>2, <3>3 DEF AcceptAppend
      <3>4. CASE InstallSnapshot(m)
        BY <3>2, <3>4 DEF InstallSnapshot
      <3> QED
        BY <1>4, <3>1, <3>3, <3>4
    <2>6. PICK r : send(r) /\ r.kind # "RequestVoteReply" /\ votes' = votes
      BY <1>4 DEF RejectCompactedAppend, RejectUnmatchedAppend, AcceptAppend, replyAppend,
                  IgnoreOutdatedSnapshot, InstallSnapshot, replySnapshot
    <2> DEFINE sent == {r}
    <2>7. net' \subseteq net \cup sent /\ \A n \in sent : n.kind # "RequestVoteReply"
      BY <2>6, TransmitSubset DEF send
    <2> HIDE DEF i, sent
    <2> QED
      BY <1>1, <2>2, <2>5, <2>6, <2>7, QuietPeer
  <1> QED
    BY <1>2, <1>3, <1>4

\* The replies a leader uses change only what it knows of its peers.
LEMMA LeaderIsQuiet ==
    ASSUME IndexInv, NEW r \in net,
           AppendSucceeded(r) \/ AppendConflicted(r) \/ SnapshotAcknowledged(r)
    PROVE  Quiet
  <1>1. rf \in [Server -> RaftState]
    BY DEF IndexInv, TypeOK
  <1>2. net' = net /\ votes' = votes
    BY DEF AppendSucceeded, AppendConflicted, SnapshotAcknowledged
  <1>3. \A j \in Server : /\ rf'[j].state = rf[j].state
                          /\ rf'[j].currentTerm = rf[j].currentTerm
                          /\ rf'[j].grantedVotes = rf[j].grantedVotes
    <2>1. CASE AppendSucceeded(r)
      BY <1>1, <2>1, SMTT(30) DEF AppendSucceeded, RaftState
    <2>2. CASE AppendConflicted(r)
      BY <1>1, <2>2 DEF AppendConflicted, RaftState
    <2>3. CASE SnapshotAcknowledged(r)
      BY <1>1, <2>3 DEF SnapshotAcknowledged, RaftState
    <2> QED
      BY <2>1, <2>2, <2>3
  <1> QED
    BY <1>2, <1>3 DEF Quiet

\* A vote given by a peer that then has that vote and that term on record.
LEMMA VoteGiven ==
    ASSUME IndexInv, IndexInv', ElectionInv, \A j \in Server : Evolves(rf[j], rf'[j]),
           NEW v \in Server, NEW c \in Server,
           votes' \subseteq votes \cup {<<rf'[v].currentTerm, v, c>>},
           <<rf'[v].currentTerm, v, c>> \in votes' => rf'[v].votedFor = c \/ votes' = votes
    PROVE  /\ \A x \in votes' : /\ x[1] <= rf'[x[2]].currentTerm
                                /\ x[1] = rf'[x[2]].currentTerm => rf'[x[2]].votedFor = x[3]
           /\ \A x, y \in votes' : x[1] = y[1] /\ x[2] = y[2] => x[3] = y[3]
  <1> DEFINE t == rf'[v].currentTerm
             new == <<t, v, c>>
  <1>1. t \in Nat
    BY DEF IndexInv, TypeOK, RaftState
  <1>2. \A x \in votes : /\ x[1] <= rf'[x[2]].currentTerm
                         /\ x[1] = rf'[x[2]].currentTerm => rf'[x[2]].votedFor = x[3]
    BY VoteStays
  <1>3. new[1] = t /\ new[2] = v /\ new[3] = c /\ t <= t
    BY <1>1
  <1>4. \A x, y \in votes : x[1] = y[1] /\ x[2] = y[2] => x[3] = y[3]
    BY DEF ElectionInv
  <1>5. CASE votes' = votes
    BY <1>2, <1>4, <1>5
  <1>6. CASE votes' # votes /\ new \in votes'
    <2>1. rf'[v].votedFor = c /\ votes' \subseteq votes \cup {new}
      BY <1>6
    <2> HIDE DEF new
    <2>2. \A x \in votes : x[1] = t /\ x[2] = v => x[3] = c
      BY <1>2, <2>1
    <2> QED
      BY <1>2, <1>3, <1>4, <2>1, <2>2
  <1>7. CASE new \notin votes'
    <2>1. votes' \subseteq votes
      BY <1>7
    <2> QED
      BY <1>2, <1>4, <2>1
  <1> QED
    BY <1>5, <1>6, <1>7

\* StartElection: the candidate votes for itself.
LEMMA StartElectionVote ==
    ASSUME IndexInv, IndexInv', ElectionInv, \A j \in Server : Evolves(rf[j], rf'[j]),
           NEW i \in Server, StartElection(i)
    PROVE  ElectionInv'
  <1> DEFINE t == rf[i].currentTerm + 1
             sent == {[kind |-> "RequestVote", from |-> i, to |-> j, inc |-> rf[i].inc,
                       Term |-> rf[i].currentTerm + 1,
                       LastLogIndex |-> lastIndex(rf[i].logs),
                       LastLogTerm |-> lastEntry(rf[i].logs).Term] : j \in Server \ {i}}
  <1>1. rf \in [Server -> RaftState] /\ rf[i] \in RaftState
    BY PeerFacts
  <1>2. /\ rf'[i].currentTerm = t /\ rf'[i].votedFor = i /\ rf'[i].state = StateCandidate
        /\ rf'[i].grantedVotes = {i} /\ \A j \in Server \ {i} : rf'[j] = rf[j]
    BY <1>1 DEF StartElection, RaftState
  <1>3. votes' = votes \cup {<<t, i, i>>} /\ transmit(sent, {})
    BY DEF StartElection
  <1>4. net' \subseteq net \cup sent
    BY <1>3, TransmitSubset
  <1>5. \A m \in sent : m.kind # "RequestVoteReply"
    OBVIOUS
  <1> HIDE DEF t, sent
  <1>6. /\ \A x \in votes' : /\ x[1] <= rf'[x[2]].currentTerm
                             /\ x[1] = rf'[x[2]].currentTerm => rf'[x[2]].votedFor = x[3]
        /\ \A x, y \in votes' : x[1] = y[1] /\ x[2] = y[2] => x[3] = y[3]
    BY <1>2, <1>3, VoteGiven
  <1>7. \A m \in net' : m.kind = "RequestVoteReply" /\ m.VoteGranted =>
          <<m.args.Term, m.args.to, m.args.from>> \in votes'
    BY <1>3, <1>4, <1>5 DEF ElectionInv
  <1>8. \A j \in Server : rf'[j].state # StateFollower =>
          \A v \in rf'[j].grantedVotes : <<rf'[j].currentTerm, v, j>> \in votes'
    BY <1>2, <1>3 DEF ElectionInv
  <1>9. \A j \in Server : rf'[j].state = StateLeader => Majority(rf'[j].grantedVotes)
    BY <1>2 DEF ElectionInv, StateLeader, StateCandidate
  <1> QED
    BY <1>6, <1>7, <1>8, <1>9 DEF ElectionInv, Majority

\* HandleRequestVote: a vote is given only when none was given in the term before.
LEMMA HandleRequestVoteVote ==
    ASSUME IndexInv, IndexInv', ElectionInv, \A j \in Server : Evolves(rf[j], rf'[j]),
           NEW m \in net, HandleRequestVote(m)
    PROVE  ElectionInv'
  <1> DEFINE i == m.to
             c == m.from
             reply == [kind |-> "RequestVoteReply", args |-> m, Term |-> rf'[i].currentTerm,
                       VoteGranted |-> grantsVote(m)]
             sent == {reply}
  <1>1. m \in Message /\ m.kind = "RequestVote"
    BY DEF IndexInv, TypeOK, HandleRequestVote
  <1>2. m \in RequestVoteArgs /\ i \in Server /\ c \in Server /\ m.Term \in Nat
    BY <1>1, MessageKinds DEF RequestVoteArgs
  <1>3. rf \in [Server -> RaftState] /\ rf[i] \in RaftState /\ rf[i].currentTerm \in Nat
    BY <1>2, PeerFacts
  <1>4. /\ rf'[i].currentTerm = IF m.Term > rf[i].currentTerm THEN m.Term ELSE rf[i].currentTerm
        /\ rf'[i].votedFor = IF grantsVote(m) THEN c ELSE voteInTerm(m)
        /\ rf'[i].state = IF m.Term > rf[i].currentTerm THEN StateFollower ELSE rf[i].state
        /\ rf'[i].grantedVotes = rf[i].grantedVotes
        /\ \A j \in Server \ {i} : rf'[j] = rf[j]
    BY <1>2, <1>3 DEF HandleRequestVote, RaftState
  <1>5. /\ votes' = votes \cup (IF grantsVote(m) THEN {<<m.Term, i, c>>} ELSE {})
        /\ transmit(sent, {m})
    BY DEF HandleRequestVote
  <1>6. grantsVote(m) => rf'[i].currentTerm = m.Term
    BY <1>2, <1>3, <1>4 DEF grantsVote
  <1>7. /\ \A x \in votes' : /\ x[1] <= rf'[x[2]].currentTerm
                             /\ x[1] = rf'[x[2]].currentTerm => rf'[x[2]].votedFor = x[3]
        /\ \A x, y \in votes' : x[1] = y[1] /\ x[2] = y[2] => x[3] = y[3]
    <2>1. votes' \subseteq votes \cup {<<rf'[i].currentTerm, i, c>>}
      BY <1>5, <1>6
    <2>2. rf'[i].votedFor = c \/ votes' = votes
      BY <1>4, <1>5
    <2> HIDE DEF i, c
    <2> QED
      BY <1>2, <2>1, <2>2, VoteGiven
  <1>8. \A n \in net' : n.kind = "RequestVoteReply" /\ n.VoteGranted =>
          <<n.args.Term, n.args.to, n.args.from>> \in votes'
    <2>1. net' \subseteq net \cup sent
      BY <1>5, TransmitSubset
    <2>2. grantsVote(m) => <<m.Term, i, c>> \in votes'
      BY <1>5
    <2>3. \A n \in net : n.kind = "RequestVoteReply" /\ n.VoteGranted =>
            <<n.args.Term, n.args.to, n.args.from>> \in votes'
      BY <1>5 DEF ElectionInv
    <2>4. reply.args = m /\ reply.VoteGranted = grantsVote(m)
      OBVIOUS
    <2> HIDE DEF reply
    <2> QED
      BY <2>1, <2>2, <2>3, <2>4
  <1>9. \A j \in Server : rf'[j].state # StateFollower =>
          \A v \in rf'[j].grantedVotes : <<rf'[j].currentTerm, v, j>> \in votes'
    BY <1>4, <1>5 DEF ElectionInv
  <1>10. \A j \in Server : rf'[j].state = StateLeader => Majority(rf'[j].grantedVotes)
    BY <1>4 DEF ElectionInv, StateLeader, StateFollower
  <1> QED
    BY <1>7, <1>8, <1>9, <1>10 DEF ElectionInv, Majority

\* The closure in StartElection counts only votes that were given.
LEMMA CountVoteVote ==
    ASSUME IndexInv, IndexInv', ElectionInv, \A j \in Server : Evolves(rf[j], rf'[j]),
           NEW r \in net, CountVote(r)
    PROVE  ElectionInv'
  <1> DEFINE i == r.args.from
             granted == rf[i].grantedVotes \cup {r.args.to}
             counted == [rf[i] EXCEPT !.grantedVotes = @ \cup {r.args.to}]
             X == IF Majority(counted.grantedVotes) THEN becomeLeader(counted) ELSE counted
  <1>1. r \in Message /\ r.kind = "RequestVoteReply" /\ rf[i].state = StateCandidate
        /\ r.VoteGranted /\ r.args.Term = rf[i].currentTerm
    BY DEF IndexInv, TypeOK, CountVote, inElection
  <1>2. i \in Server
    BY <1>1, MessageKinds DEF RequestVoteReply, RequestVoteArgs
  <1>3. rf \in [Server -> RaftState] /\ rf[i] \in RaftState
    BY <1>2, PeerFacts
  <1>4. counted.grantedVotes = granted /\ counted.currentTerm = rf[i].currentTerm
        /\ counted.state = StateCandidate
    BY <1>1, <1>3 DEF RaftState
  <1>5. /\ becomeLeader(counted).grantedVotes = granted
        /\ becomeLeader(counted).currentTerm = rf[i].currentTerm
    BY <1>3, <1>4 DEF becomeLeader, RaftState
  <1>6. rf' = [rf EXCEPT ![i] = X] /\ transmit({}, {r}) /\ votes' = votes
    BY DEF CountVote
  <1> HIDE DEF counted, granted
  <1>7. /\ X.grantedVotes = granted /\ X.currentTerm = rf[i].currentTerm
        /\ X.state = StateLeader => Majority(granted)
    BY <1>4, <1>5 DEF StateLeader, StateCandidate
  <1>8. rf'[i] = X /\ \A j \in Server \ {i} : rf'[j] = rf[j]
    BY <1>2, <1>3, <1>6
  <1> HIDE DEF X
  <1>9. net' \subseteq net
    BY <1>6, TransmitSubset
  <1>10. <<rf[i].currentTerm, r.args.to, i>> \in votes
    BY <1>1 DEF ElectionInv
  <1>11. \A v \in granted : <<rf[i].currentTerm, v, i>> \in votes
    BY <1>1, <1>2, <1>10 DEF ElectionInv, granted, StateCandidate, StateFollower
  <1>12. \A j \in Server : rf'[j].state # StateFollower =>
           \A v \in rf'[j].grantedVotes : <<rf'[j].currentTerm, v, j>> \in votes
    BY <1>7, <1>8, <1>11 DEF ElectionInv
  <1>13. \A j \in Server : rf'[j].state = StateLeader => Majority(rf'[j].grantedVotes)
    BY <1>7, <1>8 DEF ElectionInv
  <1>14. \A n \in net' : n.kind = "RequestVoteReply" /\ n.VoteGranted =>
           <<n.args.Term, n.args.to, n.args.from>> \in votes
    BY <1>9 DEF ElectionInv
  <1>15. /\ \A x \in votes : /\ x[1] <= rf'[x[2]].currentTerm
                             /\ x[1] = rf'[x[2]].currentTerm => rf'[x[2]].votedFor = x[3]
         /\ \A x, y \in votes : x[1] = y[1] /\ x[2] = y[2] => x[3] = y[3]
    BY VoteStays DEF ElectionInv
  <1> QED
    BY <1>6, <1>12, <1>13, <1>14, <1>15 DEF ElectionInv, Majority

\* Every step preserves ElectionInv.
LEMMA ElectionInvStep ==
    ASSUME IndexInv, ElectionInv, [Next]_vars
    PROVE  ElectionInv'
  <1>1. IndexInv' /\ \A j \in Server : Evolves(rf[j], rf'[j])
    BY IndexInvStep
  <1>2. ASSUME NEW i \in Server, StartElection(i)
        PROVE  ElectionInv'
    BY <1>1, <1>2, StartElectionVote
  <1>3. ASSUME NEW i \in Server,
               \/ Make(i)
               \/ \E command \in Value : Start(i, command)
               \/ \E j \in Server \ {i} : sendAppendEntries(i, j) \/ sendInstallSnapshot(i, j)
               \/ \E index \in SnapshotIndices : Snapshot(i, index)
        PROVE  ElectionInv'
    BY <1>1, <1>3, PeerIsQuiet, QuietStep
  <1>4. ASSUME NEW m \in net, HandleRequestVote(m)
        PROVE  ElectionInv'
    BY <1>1, <1>4, HandleRequestVoteVote
  <1>5. ASSUME NEW m \in net, CountVote(m)
        PROVE  ElectionInv'
    BY <1>1, <1>5, CountVoteVote
  <1>6. ASSUME NEW m \in net,
               \/ LoseElection(m) \/ StepDownOnReply(m)
               \/ RejectStaleAppend(m) \/ RejectCompactedAppend(m) \/ RejectUnmatchedAppend(m)
               \/ AcceptAppend(m)
               \/ RejectStaleSnapshot(m) \/ IgnoreOutdatedSnapshot(m) \/ InstallSnapshot(m)
        PROVE  ElectionInv'
    BY <1>1, <1>6, FollowerIsQuiet, QuietStep
  <1>7. ASSUME NEW m \in net,
               AppendSucceeded(m) \/ AppendConflicted(m) \/ SnapshotAcknowledged(m)
        PROVE  ElectionInv'
    BY <1>1, <1>7, LeaderIsQuiet, QuietStep
  <1>8. CASE UNCHANGED vars
    BY <1>8 DEF vars, ElectionInv, Majority
  <1> QED
    BY <1>2, <1>3, <1>4, <1>5, <1>6, <1>7, <1>8 DEF Next

\* Two majorities of the peers have a peer in common.
LEMMA MajoritiesMeet ==
    ASSUME NEW S \in SUBSET Server, NEW T \in SUBSET Server, Majority(S), Majority(T)
    PROVE  \E v \in Server : v \in S /\ v \in T
  <1>1. IsFiniteSet(Server) /\ IsFiniteSet(S) /\ IsFiniteSet(T)
    BY ConstantFacts, FS_Subset
  <1>2. Cardinality(Server) \in Nat /\ Cardinality(S) \in Nat /\ Cardinality(T) \in Nat
    BY <1>1, FS_CardinalityType
  <1>3. Cardinality(S) + Cardinality(T) > Cardinality(Server)
    BY <1>2 DEF Majority
  <1>4. S \cap T # {}
    BY <1>1, <1>3, FS_MajoritiesIntersect
  <1> QED
    BY <1>4

\* ElectionInv is an invariant.
LEMMA ElectionInvariant == Spec => []ElectionInv
  <1>1. Init => ElectionInv
    BY DEF Init, newRaft, ElectionInv, StateFollower, StateLeader
  <1>2. IndexInv /\ ElectionInv /\ [Next]_vars => ElectionInv'
    BY ElectionInvStep
  <1> QED
    BY <1>1, <1>2, IndexInvariant, PTL DEF Spec

(***************************************************************************)
(* At most one leader per term, for any number of peers and through any    *)
(* number of crashes and restarts: persist saves currentTerm and votedFor  *)
(* before a vote leaves the peer, and the closure in StartElection counts  *)
(* only votes of its own term.                                             *)
(***************************************************************************)
THEOREM ElectionSafe == Spec => []ElectionSafety
  <1>1. IndexInv /\ ElectionInv => ElectionSafety
    <2>1. SUFFICES ASSUME IndexInv, ElectionInv, NEW i \in Server, NEW j \in Server,
                          rf[i].state = StateLeader, rf[j].state = StateLeader,
                          rf[i].currentTerm = rf[j].currentTerm
                   PROVE  i = j
      BY DEF ElectionSafety
    <2> DEFINE S == rf[i].grantedVotes
               T == rf[j].grantedVotes
               t == rf[i].currentTerm
    <2>2. S \in SUBSET Server /\ T \in SUBSET Server
      BY <2>1 DEF IndexInv, TypeOK, RaftState
    <2>3. Majority(S) /\ Majority(T)
      BY <2>1 DEF ElectionInv
    <2>4. /\ \A v \in S : <<t, v, i>> \in votes
          /\ \A v \in T : <<t, v, j>> \in votes
      BY <2>1 DEF ElectionInv, StateLeader, StateFollower
    <2> HIDE DEF S, T, t
    <2>5. PICK v \in Server : v \in S /\ v \in T
      BY <2>2, <2>3, MajoritiesMeet
    <2>6. <<t, v, i>> \in votes /\ <<t, v, j>> \in votes
      BY <2>4, <2>5
    <2> QED
      BY <2>1, <2>6 DEF ElectionInv
  <1> QED
    BY <1>1, IndexInvariant, ElectionInvariant, PTL
=============================================================================
