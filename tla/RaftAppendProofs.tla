--------------------------- MODULE RaftAppendProofs ---------------------------
(***************************************************************************)
(* The actions of replication preserve IndexInv.                           *)
(***************************************************************************)
EXTENDS RaftStepProofs

\* Start: the leader appends a command.
LEMMA StartStep ==
    ASSUME IndexInv, NEW i \in Server, NEW command \in Value, Start(i, command)
    PROVE  IndexInv' /\ \A j \in Server : Evolves(rf[j], rf'[j])
  <1> DEFINE l == rf[i].logs
             e == [Index |-> lastIndex(l) + 1, Term |-> rf[i].currentTerm,
                   Command |-> command]
             ll == Append(l, e)
             X == [rf[i] EXCEPT !.logs = ll]
             sent == {}
  <1>1. /\ rf[i] \in RaftState /\ StructOK(i, rf[i]) /\ lastIndex(l) \in Nat
        /\ rf[i].currentTerm \in Nat /\ WellFormed(l)
        /\ rf \in [Server -> RaftState]
    BY PeerFacts
  <1>2. e \in Entry /\ e.Index = lastIndex(l) + 1
    BY <1>1 DEF Entry
  <1>3. rf' = [rf EXCEPT ![i] = X]
    BY <1>1 DEF Start
  <1> HIDE DEF e
  <1>4. /\ WellFormed(ll) /\ dummyIndex(ll) = dummyIndex(l)
        /\ lastIndex(ll) = lastIndex(l) + 1
    BY <1>1, <1>2, AppendWellFormed
  <1> HIDE DEF ll
  <1>5. ll \in Seq(Entry) \ {<< >>}
    BY <1>4 DEF WellFormed
  <1>6. /\ X \in RaftState /\ X.logs = ll /\ X.currentTerm = rf[i].currentTerm
        /\ X.state = rf[i].state /\ X.votedFor = rf[i].votedFor
        /\ X.nextIndex = rf[i].nextIndex /\ X.commitIndex = rf[i].commitIndex
    BY <1>1, <1>5 DEF RaftState
  <1> HIDE DEF X, l
  <1>7. StructOK(i, X) /\ Evolves(rf[i], X)
    <2>1. \A n : n \in 1 .. lastIndex(l) + 1 => n \in 1 .. lastIndex(l) + 1 + 1
      BY <1>1
    <2>2. l = rf[i].logs
      BY DEF l
    <2> QED
      BY <1>1, <1>4, <1>6, <2>1, <2>2 DEF StructOK, Evolves
  <1>8. /\ net' \subseteq net \cup sent
        /\ \A m \in sent : m \in Message /\ MessageOK(m, rf)
        /\ votes' \subseteq Nat \X Server \X Server /\ committed' \in SnapshotData
    BY PeerFacts DEF Start
  <1>9. SaveStateAndSnapshot(i, persister[i].snapshot)
    BY DEF Start, persist
  <1>10. /\ persister[i].snapshot \in SnapshotData
         /\ Len(persister[i].snapshot) = dummyIndex(X.logs)
    BY <1>4, <1>6, PeerFacts DEF l
  <1> HIDE DEF sent
  <1> QED
    BY <1>3, <1>7, <1>8, <1>9, <1>10, SavingStep

\* A step that only sends.
LEMMA SendStep ==
    ASSUME IndexInv, NEW i \in Server, rf' = rf, persister' = persister,
           NEW m \in Message, send(m), MessageOK(m, rf), votes' = votes, committed' = committed
    PROVE  IndexInv' /\ \A j \in Server : Evolves(rf[j], rf'[j])
  <1> DEFINE X == rf[i]
             sent == {m}
  <1>1. /\ StructOK(i, X) /\ rf[i].currentTerm \in Nat /\ lastIndex(rf[i].logs) \in Nat
        /\ rf \in [Server -> RaftState]
    BY PeerFacts
  <1>2. rf' = [rf EXCEPT ![i] = X]
    BY <1>1
  <1>3. Evolves(rf[i], X)
    BY <1>1 DEF Evolves
  <1>4. /\ net' \subseteq net \cup sent
        /\ \A n \in sent : n \in Message /\ MessageOK(n, rf)
        /\ votes' \subseteq Nat \X Server \X Server /\ committed' \in SnapshotData
    BY TransmitSubset, PeerFacts DEF send
  <1>5. /\ X.currentTerm = rf[i].currentTerm /\ X.votedFor = rf[i].votedFor
        /\ X.logs = rf[i].logs
    OBVIOUS
  <1> HIDE DEF X, sent
  <1> QED
    BY <1>1, <1>2, <1>3, <1>4, <1>5, UnsavedStep

\* An AppendEntries call made by appendOneRound.
LEMMA SendAppendEntriesStep ==
    ASSUME IndexInv, NEW i \in Server, NEW j \in Server \ {i}, sendAppendEntries(i, j)
    PROVE  IndexInv' /\ \A k \in Server : Evolves(rf[k], rf'[k])
  <1> DEFINE l == rf[i].logs
             prev == prevLogIndex(i, j)
             prevTerm == getEntry(l, prev).Term
             entries == sliceFrom(l, prev + 1)
             m == [kind |-> "AppendEntries", from |-> i, to |-> j, inc |-> rf[i].inc,
                   Term |-> rf[i].currentTerm, PrevLogIndex |-> prev,
                   PrevLogTerm |-> prevTerm, Entries |-> entries,
                   LeaderCommit |-> rf[i].commitIndex]
  <1>1. /\ rf[i] \in RaftState /\ StructOK(i, rf[i]) /\ WellFormed(l)
        /\ lastIndex(l) \in Nat /\ dummyIndex(l) \in Nat
        /\ rf[i].currentTerm \in Nat /\ rf[i].commitIndex \in Nat /\ rf[i].inc \in Nat
    BY PeerFacts DEF RaftState
  <1>2. /\ rf[i].state = StateLeader /\ prev >= dummyIndex(l) /\ send(m)
        /\ rf' = rf /\ persister' = persister /\ votes' = votes /\ committed' = committed
    BY DEF sendAppendEntries
  <1>3. rf[i].nextIndex[j] \in 1 .. lastIndex(l) + 1 /\ rf[i].currentTerm >= 1
    BY <1>1, <1>2 DEF StructOK, StateLeader, StateFollower
  <1>4. /\ prev \in Nat /\ prev \in dummyIndex(l) .. lastIndex(l)
        /\ prev + 1 \in dummyIndex(l) .. lastIndex(l) + 1
        /\ lastIndex(l) + 1 - (prev + 1) = lastIndex(l) - prev
        /\ prev + (lastIndex(l) - prev) = lastIndex(l)
        /\ \A k \in Nat : prev + 1 + k - 1 = prev + k
    BY <1>1, <1>2, <1>3 DEF prevLogIndex
  <1> HIDE DEF prev
  <1>5. prevTerm \in Nat /\ (prev = 0 => prevTerm = 0)
    <2>1. getEntry(l, prev) \in Entry
      BY <1>1, <1>4, GetEntryInLog
    <2>2. prev = 0 => prev - dummyIndex(l) + 1 = 1 /\ l[1].Index = 0
      BY <1>1, <1>4 DEF dummyIndex
    <2>3. prev = 0 => getEntry(l, prev) = l[1] /\ l[1].Term = 0
      BY <1>1, <2>2 DEF getEntry, convertIndex, WellFormed
    <2> QED
      BY <2>1, <2>3 DEF Entry
  <1>6. /\ entries \in Seq(Entry) /\ Len(entries) = lastIndex(l) - prev
        /\ \A k \in 1 .. Len(entries) : entries[k].Index = prev + k
    <2>1. /\ entries \in Seq(Entry) /\ Len(entries) = lastIndex(l) + 1 - (prev + 1)
          /\ \A k \in 1 .. Len(entries) : entries[k].Index = prev + 1 + k - 1
      BY <1>1, <1>4, SliceFromEntries
    <2>2. Len(entries) \in Nat
      BY <2>1
    <2>3. \A k \in 1 .. Len(entries) : k \in Nat
      BY <2>2
    <2> QED
      BY <1>4, <2>1, <2>3
  <1> HIDE DEF prevTerm, entries, l
  <1>7. m \in AppendEntriesArgs /\ m.kind = "AppendEntries"
    BY <1>1, <1>4, <1>5, <1>6 DEF AppendEntriesArgs
  <1>8. AppendOK(m)
    BY <1>5, <1>6 DEF AppendOK
  <1>9. lastSent(m) = lastIndex(rf[i].logs)
    BY <1>4, <1>6 DEF lastSent, l
  <1>10. m.from = i /\ m.Term = rf[i].currentTerm
    OBVIOUS
  <1> HIDE DEF m
  <1>11. CallOK(m, rf[m.from])
    BY <1>1, <1>2, <1>3, <1>9, <1>10 DEF CallOK, StateLeader, StateCandidate, l
  <1>12. m \in Message /\ MessageOK(m, rf)
    BY <1>7, <1>8, <1>11 DEF Message, MessageOK
  <1> QED
    BY <1>2, <1>12, SendStep

\* An InstallSnapshot call made by appendOneRound.
LEMMA SendInstallSnapshotStep ==
    ASSUME IndexInv, NEW i \in Server, NEW j \in Server \ {i}, sendInstallSnapshot(i, j)
    PROVE  IndexInv' /\ \A k \in Server : Evolves(rf[k], rf'[k])
  <1> DEFINE l == rf[i].logs
             m == [kind |-> "InstallSnapshot", from |-> i, to |-> j, inc |-> rf[i].inc,
                   Term |-> rf[i].currentTerm, LastIncludedIndex |-> dummyIndex(l),
                   LastIncludedTerm |-> dummyTerm(l), Snapshot |-> persister[i].snapshot]
  <1>1. /\ rf[i] \in RaftState /\ StructOK(i, rf[i]) /\ WellFormed(l)
        /\ dummyIndex(l) \in Nat
        /\ rf[i].currentTerm \in Nat /\ rf[i].inc \in Nat
        /\ persister[i].snapshot \in SnapshotData
        /\ Len(persister[i].snapshot) = dummyIndex(l)
    BY PeerFacts DEF RaftState
  <1>2. /\ rf[i].state = StateLeader /\ send(m)
        /\ rf' = rf /\ persister' = persister /\ votes' = votes /\ committed' = committed
    BY DEF sendInstallSnapshot
  <1>3. rf[i].currentTerm >= 1
    BY <1>1, <1>2 DEF StructOK, StateLeader, StateFollower
  <1>4. dummyTerm(l) \in Nat /\ dummyIndex(l) <= lastIndex(l)
    BY <1>1, LastIndexValue
  <1>5. m \in InstallSnapshotArgs /\ m.kind = "InstallSnapshot"
    BY <1>1, <1>4 DEF InstallSnapshotArgs
  <1>6. /\ m.from = i /\ m.Term = rf[i].currentTerm /\ lastSent(m) = dummyIndex(l)
        /\ Len(m.Snapshot) = m.LastIncludedIndex
    BY <1>1 DEF lastSent
  <1> HIDE DEF m
  <1>7. CallOK(m, rf[m.from])
    BY <1>1, <1>2, <1>3, <1>4, <1>6 DEF CallOK, StateLeader, StateCandidate
  <1>8. m \in Message /\ MessageOK(m, rf)
    BY <1>5, <1>6, <1>7 DEF Message, MessageOK
  <1> QED
    BY <1>2, <1>8, SendStep

\* A handler that saves the peer's state and replies.
LEMMA HandlerStep ==
    ASSUME IndexInv, NEW i \in Server, NEW X, rf' = [rf EXCEPT ![i] = X], persist(i),
           StructOK(i, X), Evolves(rf[i], X), dummyIndex(X.logs) = dummyIndex(rf[i].logs),
           NEW r \in Message, MessageOK(r, rf), send(r),
           votes' = votes, committed' = committed
    PROVE  IndexInv' /\ \A j \in Server : Evolves(rf[j], rf'[j])
  <1> DEFINE sent == {r}
  <1>1. /\ net' \subseteq net \cup sent
        /\ \A m \in sent : m \in Message /\ MessageOK(m, rf)
        /\ votes' \subseteq Nat \X Server \X Server /\ committed' \in SnapshotData
    BY TransmitSubset, PeerFacts DEF send
  <1> HIDE DEF sent
  <1>2. /\ persister[i].snapshot \in SnapshotData
        /\ Len(persister[i].snapshot) = dummyIndex(X.logs)
    BY PeerFacts
  <1> QED
    BY <1>1, <1>2, SavingStep DEF persist

\* What the invariant says of an AppendEntries call and the peer that receives it.
LEMMA AppendCallFacts ==
    ASSUME IndexInv, NEW m \in net, m.kind = "AppendEntries"
    PROVE  /\ m \in Message /\ m \in AppendEntriesArgs
           /\ m.to \in Server /\ m.from \in Server /\ m.Term \in Nat
           /\ m.PrevLogIndex \in Nat /\ m.PrevLogTerm \in Nat /\ m.LeaderCommit \in Nat
           /\ m.Entries \in Seq(Entry) /\ Len(m.Entries) \in Nat
           /\ CallOK(m, rf[m.from]) /\ AppendOK(m)
  <1>1. m \in Message /\ MessageOK(m, rf)
    BY DEF IndexInv, TypeOK
  <1>2. m \in AppendEntriesArgs
    BY <1>1, MessageKinds
  <1>3. CallOK(m, rf[m.from]) /\ AppendOK(m)
    BY <1>1 DEF MessageOK
  <1>4. m.Entries \in Seq(Entry)
    BY <1>2 DEF AppendEntriesArgs
  <1>5. Len(m.Entries) \in Nat
    BY <1>4
  <1> QED
    BY <1>1, <1>2, <1>3, <1>4, <1>5 DEF AppendEntriesArgs

\* A reply to an AppendEntries call.
LEMMA AppendReplyOK ==
    ASSUME IndexInv, NEW m \in net, m.kind = "AppendEntries",
           NEW term \in Nat, NEW success \in BOOLEAN, NEW conflict \in Nat,
           ~success /\ term = m.Term => conflict \in 1 .. m.PrevLogIndex
    PROVE  LET r == [kind |-> "AppendEntriesReply", args |-> m, Term |-> term,
                     Success |-> success, ConflictIndex |-> conflict]
           IN  r \in Message /\ MessageOK(r, rf)
  <1> DEFINE r == [kind |-> "AppendEntriesReply", args |-> m, Term |-> term,
                   Success |-> success, ConflictIndex |-> conflict]
  <1>1. m \in AppendEntriesArgs /\ CallOK(m, rf[m.from]) /\ AppendOK(m)
    BY AppendCallFacts
  <1>2. r \in AppendEntriesReply /\ r.kind = "AppendEntriesReply" /\ r.args = m
    BY <1>1 DEF AppendEntriesReply
  <1>3. ConflictOK(r)
    BY DEF ConflictOK
  <1> HIDE DEF r
  <1>4. r \in Message /\ MessageOK(r, rf)
    BY <1>1, <1>2, <1>3 DEF Message, MessageOK
  <1> QED
    BY <1>4 DEF r

\* HandleAppendEntries: a request from an earlier term.
LEMMA RejectStaleAppendStep ==
    ASSUME IndexInv, NEW m \in net, RejectStaleAppend(m)
    PROVE  IndexInv' /\ \A j \in Server : Evolves(rf[j], rf'[j])
  <1> DEFINE i == m.to
             X == rf[i]
             r == [kind |-> "AppendEntriesReply", args |-> m, Term |-> rf[i].currentTerm,
                   Success |-> FALSE, ConflictIndex |-> 0]
  <1>1. /\ m.kind = "AppendEntries" /\ m.Term < rf[i].currentTerm /\ send(r)
        /\ rf' = rf /\ persist(i) /\ votes' = votes /\ committed' = committed
    BY DEF RejectStaleAppend, replyAppend
  <1>2. i \in Server /\ m.Term \in Nat
    BY <1>1, AppendCallFacts
  <1>3. /\ StructOK(i, X) /\ rf[i].currentTerm \in Nat /\ lastIndex(rf[i].logs) \in Nat
        /\ rf \in [Server -> RaftState]
    BY <1>2, PeerFacts
  <1>4. rf' = [rf EXCEPT ![i] = X] /\ Evolves(rf[i], X)
    BY <1>1, <1>2, <1>3 DEF Evolves
  <1>5. dummyIndex(X.logs) = dummyIndex(rf[i].logs)
    OBVIOUS
  <1>6. r \in Message /\ MessageOK(r, rf)
    <2>1. rf[i].currentTerm # m.Term /\ FALSE \in BOOLEAN /\ 0 \in Nat
      BY <1>1, <1>2, <1>3
    <2> QED
      BY <1>1, <1>3, <2>1, AppendReplyOK
  <1> HIDE DEF X, i, r
  <1> QED
    BY <1>1, <1>2, <1>3, <1>4, <1>5, <1>6, HandlerStep

\* HandleAppendEntries: a request that begins in the compacted part of the log.
LEMMA RejectCompactedAppendStep ==
    ASSUME IndexInv, NEW m \in net, RejectCompactedAppend(m)
    PROVE  IndexInv' /\ \A j \in Server : Evolves(rf[j], rf'[j])
  <1> DEFINE i == m.to
             X == follow(rf[i], m.Term)
             r == [kind |-> "AppendEntriesReply", args |-> m, Term |-> 0,
                   Success |-> FALSE, ConflictIndex |-> dummyIndex(rf[i].logs) + 1]
  <1>1. /\ m.kind = "AppendEntries" /\ m.Term >= rf[i].currentTerm /\ send(r)
        /\ rf' = [rf EXCEPT ![i] = X] /\ persist(i) /\ votes' = votes /\ committed' = committed
    BY DEF RejectCompactedAppend, replyAppend
  <1>2. i \in Server /\ m.Term \in Nat /\ CallOK(m, rf[m.from])
    BY <1>1, AppendCallFacts
  <1>3. /\ StructOK(i, rf[i]) /\ rf[i].currentTerm \in Nat /\ dummyIndex(rf[i].logs) \in Nat
    BY <1>2, PeerFacts
  <1>4. StructOK(i, X) /\ Evolves(rf[i], X) /\ X.logs = rf[i].logs
    BY <1>1, <1>2, <1>3, FollowOK
  <1>5. m.Term # 0 /\ dummyIndex(rf[i].logs) + 1 \in Nat /\ 0 \in Nat
    BY <1>2, <1>3 DEF CallOK
  <1>6. r \in Message /\ MessageOK(r, rf)
    BY <1>1, <1>5, AppendReplyOK
  <1> HIDE DEF X, i, r
  <1> QED
    BY <1>1, <1>2, <1>4, <1>6, HandlerStep

\* HandleAppendEntries: a request whose previous entry is not in the log.
LEMMA RejectUnmatchedAppendStep ==
    ASSUME IndexInv, NEW m \in net, RejectUnmatchedAppend(m)
    PROVE  IndexInv' /\ \A j \in Server : Evolves(rf[j], rf'[j])
  <1> DEFINE i == m.to
             X == follow(rf[i], m.Term)
             conflict == conflictIndex(rf[i].logs, m.PrevLogIndex)
             r == [kind |-> "AppendEntriesReply", args |-> m, Term |-> m.Term,
                   Success |-> FALSE, ConflictIndex |-> conflict]
  <1>1. /\ m.kind = "AppendEntries" /\ m.Term >= rf[i].currentTerm /\ send(r)
        /\ m.PrevLogIndex >= dummyIndex(rf[i].logs)
        /\ ~matchLog(rf[i].logs, m.PrevLogTerm, m.PrevLogIndex)
        /\ rf' = [rf EXCEPT ![i] = X] /\ persist(i) /\ votes' = votes /\ committed' = committed
    BY DEF RejectUnmatchedAppend, replyAppend
  <1>2. /\ i \in Server /\ m.Term \in Nat /\ m.PrevLogIndex \in Nat /\ m.PrevLogTerm \in Nat
        /\ AppendOK(m)
    BY <1>1, AppendCallFacts
  <1>3. StructOK(i, rf[i]) /\ WellFormed(rf[i].logs)
    BY <1>2, PeerFacts
  <1>4. StructOK(i, X) /\ Evolves(rf[i], X) /\ X.logs = rf[i].logs
    BY <1>1, <1>2, <1>3, FollowOK
  <1>5. conflict \in 1 .. m.PrevLogIndex
    <2>1. m.PrevLogIndex = 0 => m.PrevLogTerm = 0
      BY <1>2 DEF AppendOK
    <2> QED
      BY <1>1, <1>2, <1>3, <2>1, ConflictIndexRange
  <1>6. conflict \in Nat
    BY <1>2, <1>5
  <1> HIDE DEF conflict
  <1>7. r \in Message /\ MessageOK(r, rf)
    BY <1>1, <1>2, <1>5, <1>6, AppendReplyOK
  <1> HIDE DEF X, i, r
  <1> QED
    BY <1>1, <1>2, <1>4, <1>7, HandlerStep

\* HandleAppendEntries: entries are merged into the log and commitIndex follows.
LEMMA AcceptAppendStep ==
    ASSUME IndexInv, NEW m \in net, AcceptAppend(m)
    PROVE  IndexInv' /\ \A j \in Server : Evolves(rf[j], rf'[j])
  <1> DEFINE i == m.to
             F == follow(rf[i], m.Term)
             l == appendFrom(rf[i].logs, m.Entries)
             commit == followerCommit(F.commitIndex, m.LeaderCommit, l)
             X == [F EXCEPT !.logs = l, !.commitIndex = commit]
             r == [kind |-> "AppendEntriesReply", args |-> m, Term |-> m.Term,
                   Success |-> TRUE, ConflictIndex |-> 0]
  <1>1. /\ m.kind = "AppendEntries" /\ m.Term >= rf[i].currentTerm /\ send(r)
        /\ m.PrevLogIndex >= dummyIndex(rf[i].logs)
        /\ matchLog(rf[i].logs, m.PrevLogTerm, m.PrevLogIndex)
        /\ rf' = [rf EXCEPT ![i] = X] /\ persist(i) /\ votes' = votes /\ committed' = committed
    BY DEF AcceptAppend, replyAppend
  <1>2. /\ i \in Server /\ m.Term \in Nat /\ m.PrevLogIndex \in Nat /\ m.LeaderCommit \in Nat
        /\ m.Entries \in Seq(Entry) /\ AppendOK(m)
    BY <1>1, AppendCallFacts
  <1>3. /\ StructOK(i, rf[i]) /\ WellFormed(rf[i].logs) /\ rf[i].commitIndex \in Nat
        /\ rf[i].currentTerm \in Nat
        /\ lastIndex(rf[i].logs) \in Nat /\ dummyIndex(rf[i].logs) \in Nat
    BY <1>2, PeerFacts
  <1>4. /\ StructOK(i, F) /\ Evolves(rf[i], F) /\ F.logs = rf[i].logs
        /\ F.state = StateFollower /\ F.commitIndex = rf[i].commitIndex
    BY <1>1, <1>2, <1>3, FollowOK
  <1> HIDE DEF F
  <1>5. WellFormed(l) /\ dummyIndex(l) = dummyIndex(rf[i].logs)
    <2>1. m.PrevLogIndex \in dummyIndex(rf[i].logs) .. lastIndex(rf[i].logs)
      BY <1>1, <1>2, <1>3 DEF matchLog
    <2> QED
      BY <1>2, <1>3, <2>1, AppendFromWellFormed DEF AppendOK
  <1> HIDE DEF l
  <1>6. commit \in Nat /\ dummyIndex(l) <= commit
    <2>1. /\ lastIndex(l) \in Nat /\ dummyIndex(l) <= lastIndex(l)
          /\ dummyIndex(l) \in Nat
      BY <1>5, LastIndexValue
    <2>2. {m.LeaderCommit, lastIndex(l)} \in SUBSET Nat
      BY <1>2, <2>1
    <2>3. Min({m.LeaderCommit, lastIndex(l)}) \in {m.LeaderCommit, lastIndex(l)}
      BY <2>2, MinOfNats
    <2>4. Min({m.LeaderCommit, lastIndex(l)}) \in Nat
      BY <2>2, <2>3
    <2>5. dummyIndex(l) <= rf[i].commitIndex
      BY <1>3, <1>5 DEF StructOK
    <2> QED
      BY <1>2, <1>3, <1>4, <2>1, <2>3, <2>4, <2>5 DEF followerCommit
  <1> HIDE DEF commit
  <1>7. F \in RaftState /\ l \in Seq(Entry) \ {<< >>}
    BY <1>4, <1>5 DEF StructOK, WellFormed
  <1>8. /\ X \in RaftState /\ X.logs = l /\ X.state = StateFollower
        /\ X.currentTerm = F.currentTerm /\ X.votedFor = F.votedFor
        /\ X.commitIndex = commit
    BY <1>4, <1>6, <1>7 DEF RaftState
  <1> HIDE DEF X
  <1>9. StructOK(i, X) /\ Evolves(rf[i], X)
    BY <1>4, <1>5, <1>6, <1>8 DEF StructOK, Evolves, StateFollower, StateLeader, StateCandidate
  <1>10. dummyIndex(X.logs) = dummyIndex(rf[i].logs)
    BY <1>5, <1>8
  <1>11. r \in Message /\ MessageOK(r, rf)
    <2>1. TRUE \in BOOLEAN /\ 0 \in Nat
      OBVIOUS
    <2> QED
      BY <1>1, <1>2, <2>1, AppendReplyOK
  <1> HIDE DEF i, r
  <1> QED
    BY <1>1, <1>2, <1>9, <1>10, <1>11, HandlerStep

\* What the invariant says of a reply that processAppendEntriesReply uses.
LEMMA AppendReplyFacts ==
    ASSUME IndexInv, NEW r \in net, replyIsCurrent(r)
    PROVE  /\ r.args.from \in Server /\ r.args.to \in Server
           /\ r.ConflictIndex \in Nat /\ replicated(r) \in Nat
           /\ rf[r.args.from].state = StateLeader
           /\ replicated(r) <= lastIndex(rf[r.args.from].logs)
           /\ ~r.Success => r.ConflictIndex \in 1 .. replicated(r)
  <1>1. r \in Message /\ MessageOK(r, rf) /\ r.kind = "AppendEntriesReply"
    BY DEF IndexInv, TypeOK, replyIsCurrent
  <1>2. r \in AppendEntriesReply
    BY <1>1, MessageKinds
  <1>3. /\ r.args \in AppendEntriesArgs /\ r.ConflictIndex \in Nat
        /\ CallOK(r.args, rf[r.args.from]) /\ ConflictOK(r)
    BY <1>1, <1>2 DEF AppendEntriesReply, MessageOK
  <1>4. /\ r.args.kind = "AppendEntries" /\ r.args.PrevLogIndex \in Nat
        /\ r.args.Entries \in Seq(Entry)
        /\ r.args.from \in Server /\ r.args.to \in Server
    BY <1>3 DEF AppendEntriesArgs
  <1>5. Len(r.args.Entries) \in Nat
    BY <1>4
  <1>6. /\ replicated(r) \in Nat /\ replicated(r) = lastSent(r.args)
        /\ r.args.PrevLogIndex <= replicated(r)
    BY <1>4, <1>5 DEF replicated, lastSent
  <1>7. /\ rf[r.args.from].state = StateLeader
        /\ r.args.Term = rf[r.args.from].currentTerm /\ r.Term = r.args.Term
    BY DEF replyIsCurrent
  <1>8. replicated(r) <= lastIndex(rf[r.args.from].logs)
    BY <1>3, <1>6, <1>7 DEF CallOK
  <1>9. ~r.Success => r.ConflictIndex \in 1 .. replicated(r)
    BY <1>3, <1>4, <1>6, <1>7 DEF ConflictOK
  <1> QED
    BY <1>3, <1>4, <1>6, <1>7, <1>8, <1>9

\* A step of a leader that only changes what it knows of its peers.
LEMMA LeaderStep ==
    ASSUME IndexInv, NEW i \in Server, NEW j \in Server, rf[i].state = StateLeader,
           NEW next \in Nat, next \in 1 .. lastIndex(rf[i].logs) + 1,
           NEW match \in [Server -> Nat], NEW commit \in Nat, rf[i].commitIndex <= commit,
           rf' = [rf EXCEPT ![i] = [rf[i] EXCEPT !.matchIndex = match,
                     !.nextIndex = [rf[i].nextIndex EXCEPT ![j] = next],
                     !.commitIndex = commit]],
           persister' = persister, net' = net, votes' = votes, committed' \in SnapshotData
    PROVE  IndexInv' /\ \A k \in Server : Evolves(rf[k], rf'[k])
  <1> DEFINE nexts == [rf[i].nextIndex EXCEPT ![j] = next]
             X == [rf[i] EXCEPT !.matchIndex = match, !.nextIndex = nexts,
                                !.commitIndex = commit]
             sent == {}
  <1>1. /\ rf[i] \in RaftState /\ StructOK(i, rf[i]) /\ lastIndex(rf[i].logs) \in Nat
        /\ rf[i].currentTerm \in Nat /\ rf[i].commitIndex \in Nat
        /\ dummyIndex(rf[i].logs) \in Nat
    BY PeerFacts
  <1>2. nexts \in [Server -> Nat]
    BY <1>1 DEF RaftState
  <1>3. \A k \in Server \ {i} : nexts[k] \in 1 .. lastIndex(rf[i].logs) + 1
    BY <1>1, <1>2 DEF StructOK, RaftState
  <1>4. rf' = [rf EXCEPT ![i] = X]
    OBVIOUS
  <1> HIDE DEF nexts
  <1>5. /\ X \in RaftState /\ X.logs = rf[i].logs /\ X.state = rf[i].state
        /\ X.currentTerm = rf[i].currentTerm /\ X.votedFor = rf[i].votedFor
        /\ X.nextIndex = nexts /\ X.commitIndex = commit
    BY <1>1, <1>2 DEF RaftState
  <1> HIDE DEF X
  <1>6. StructOK(i, X) /\ Evolves(rf[i], X)
    BY <1>1, <1>3, <1>5 DEF StructOK, Evolves
  <1>7. /\ net' \subseteq net \cup sent
        /\ \A m \in sent : m \in Message /\ MessageOK(m, rf)
        /\ votes' \subseteq Nat \X Server \X Server /\ committed' \in SnapshotData
    BY PeerFacts
  <1> HIDE DEF sent
  <1> QED
    BY <1>4, <1>5, <1>6, <1>7, UnsavedStep

\* processAppendEntriesReply: nextIndex moves back to where the logs may agree.
LEMMA AppendConflictedStep ==
    ASSUME IndexInv, NEW r \in net, AppendConflicted(r)
    PROVE  IndexInv' /\ \A j \in Server : Evolves(rf[j], rf'[j])
  <1> DEFINE i == r.args.from
             j == r.args.to
             next == r.ConflictIndex
             match == rf[i].matchIndex
             commit == rf[i].commitIndex
  <1>1. /\ replyIsCurrent(r) /\ ~r.Success
        /\ rf' = [rf EXCEPT ![i].nextIndex[j] = next]
        /\ persister' = persister /\ net' = net /\ votes' = votes /\ committed' = committed
    BY DEF AppendConflicted
  <1>2. /\ i \in Server /\ j \in Server /\ rf[i].state = StateLeader
        /\ next \in Nat /\ replicated(r) \in Nat /\ replicated(r) <= lastIndex(rf[i].logs)
        /\ next \in 1 .. replicated(r)
    BY <1>1, AppendReplyFacts
  <1>3. /\ rf[i] \in RaftState /\ lastIndex(rf[i].logs) \in Nat /\ commit \in Nat
        /\ committed \in SnapshotData /\ match \in [Server -> Nat]
    BY <1>2, PeerFacts DEF RaftState
  <1>4. next \in 1 .. lastIndex(rf[i].logs) + 1
    BY <1>2, <1>3
  <1>5. rf' = [rf EXCEPT ![i] = [rf[i] EXCEPT !.matchIndex = match,
                  !.nextIndex = [rf[i].nextIndex EXCEPT ![j] = next],
                  !.commitIndex = commit]]
    <2>1. [rf[i] EXCEPT !.matchIndex = match,
                        !.nextIndex = [rf[i].nextIndex EXCEPT ![j] = next],
                        !.commitIndex = commit]
            = [rf[i] EXCEPT !.nextIndex = [rf[i].nextIndex EXCEPT ![j] = next]]
      BY <1>3 DEF RaftState
    <2> QED
      BY <1>1, <2>1
  <1>6. /\ persister' = persister /\ net' = net /\ votes' = votes /\ committed' \in SnapshotData
        /\ rf[i].commitIndex <= commit
    BY <1>1, <1>3
  <1> HIDE DEF i, j, next, match, commit
  <1> QED
    BY <1>2, <1>3, <1>4, <1>5, <1>6, LeaderStep

\* The commands of a peer's log and of its snapshot, in order.
LEMMA HistoryType ==
    ASSUME IndexInv, NEW i \in Server
    PROVE  history(i) \in SnapshotData /\ Len(history(i)) = lastIndex(rf[i].logs)
  <1> DEFINE l == rf[i].logs
             t == Tail(l)
             snap == persister[i].snapshot
  <1>1. /\ WellFormed(l) /\ snap \in SnapshotData /\ Len(snap) = dummyIndex(l)
    BY PeerFacts
  <1>2. /\ lastIndex(l) = dummyIndex(l) + Len(l) - 1 /\ Len(l) \in Nat /\ dummyIndex(l) \in Nat
    BY <1>1, LastIndexValue
  <1>3. l \in Seq(Entry) /\ Len(l) >= 1
    BY <1>1 DEF WellFormed
  <1> HIDE DEF l
  <1>4. t \in Seq(Entry) /\ Len(t) = Len(l) - 1
    BY <1>3
  <1> HIDE DEF t, snap
  <1>5. Commands(t) \in SnapshotData /\ Len(Commands(t)) = Len(t)
    BY <1>4, CommandsType
  <1>6. /\ snap \o Commands(t) \in SnapshotData
        /\ Len(snap \o Commands(t)) = Len(snap) + Len(Commands(t))
    BY <1>1, <1>5 DEF SnapshotData
  <1>7. Len(snap \o Commands(t)) = lastIndex(l)
    BY <1>1, <1>2, <1>4, <1>5, <1>6
  <1> QED
    BY <1>6, <1>7 DEF history, snap, t, l

\* The leader's new commitIndex lies between the old one and its last index.
LEMMA CommitRange ==
    ASSUME IndexInv, NEW i \in Server, NEW match
    PROVE  LET commit == advanceCommitIndexForLeader(i, match)
           IN  /\ commit \in Nat /\ rf[i].commitIndex <= commit
               /\ commit > rf[i].commitIndex => commit <= lastIndex(rf[i].logs)
  <1> DEFINE from == rf[i].commitIndex
             last == lastIndex(rf[i].logs)
             new == {k \in from + 1 .. last : committable(i, match, k)}
             S == {from} \cup new
  <1>1. from \in Nat /\ last \in Nat
    BY PeerFacts
  <1> HIDE DEF from, last
  <1>2. from + last \in Nat /\ S \in SUBSET (0 .. from + last) /\ S # {}
    BY <1>1
  <1>3. Max(S) \in S /\ from <= Max(S)
    BY <1>2, MaxOfNats
  <1>4. Max(S) \in Nat /\ (Max(S) > from => Max(S) <= last)
    BY <1>1, <1>3
  <1>5. advanceCommitIndexForLeader(i, match) = Max(S)
    BY DEF advanceCommitIndexForLeader, from, last
  <1> QED
    BY <1>3, <1>4, <1>5 DEF from, last

\* processAppendEntriesReply: matchIndex and nextIndex advance, perhaps commitIndex too.
LEMMA AppendSucceededStep ==
    ASSUME IndexInv, NEW r \in net, AppendSucceeded(r)
    PROVE  IndexInv' /\ \A j \in Server : Evolves(rf[j], rf'[j])
  <1> DEFINE i == r.args.from
             j == r.args.to
             next == replicated(r) + 1
             match == [rf[i].matchIndex EXCEPT ![j] = replicated(r)]
             commit == advanceCommitIndexForLeader(i, match)
  <1>1. /\ replyIsCurrent(r)
        /\ rf' = [rf EXCEPT ![i] = [rf[i] EXCEPT !.matchIndex = match,
                    !.nextIndex[j] = next, !.commitIndex = commit]]
        /\ committed' = IF commit > rf[i].commitIndex /\ commit > Len(committed)
                        THEN SubSeq(history(i), 1, commit) ELSE committed
        /\ persister' = persister /\ net' = net /\ votes' = votes
    BY DEF AppendSucceeded
  <1>2. /\ i \in Server /\ j \in Server /\ rf[i].state = StateLeader
        /\ replicated(r) \in Nat /\ replicated(r) <= lastIndex(rf[i].logs)
    BY <1>1, AppendReplyFacts
  <1>3. /\ rf[i] \in RaftState /\ lastIndex(rf[i].logs) \in Nat
        /\ committed \in SnapshotData /\ match \in [Server -> Nat]
    BY <1>2, PeerFacts DEF RaftState
  <1>4. next \in Nat /\ next \in 1 .. lastIndex(rf[i].logs) + 1
    BY <1>2, <1>3
  <1> HIDE DEF match, next
  <1>5. /\ commit \in Nat /\ rf[i].commitIndex <= commit
        /\ commit > rf[i].commitIndex => commit <= lastIndex(rf[i].logs)
    BY <1>2, CommitRange
  <1>6. history(i) \in SnapshotData /\ Len(history(i)) = lastIndex(rf[i].logs)
    BY <1>2, HistoryType
  <1> HIDE DEF commit
  <1>7. committed' \in SnapshotData
    <2> DEFINE h == history(i)
    <2>1. h \in Seq(Value \cup {Nil}) /\ Len(h) = lastIndex(rf[i].logs)
      BY <1>6 DEF SnapshotData
    <2> HIDE DEF h
    <2>2. commit > rf[i].commitIndex => SubSeq(h, 1, commit) \in Seq(Value \cup {Nil})
      BY <1>3, <1>5, <2>1
    <2> QED
      BY <1>1, <1>3, <2>2 DEF SnapshotData, h
  <1>8. rf' = [rf EXCEPT ![i] = [rf[i] EXCEPT !.matchIndex = match,
                  !.nextIndex = [rf[i].nextIndex EXCEPT ![j] = next],
                  !.commitIndex = commit]]
    <2>1. [rf[i] EXCEPT !.matchIndex = match, !.nextIndex[j] = next, !.commitIndex = commit]
            = [rf[i] EXCEPT !.matchIndex = match,
                            !.nextIndex = [rf[i].nextIndex EXCEPT ![j] = next],
                            !.commitIndex = commit]
      BY <1>3 DEF RaftState
    <2> QED
      BY <1>1, <2>1
  <1>9. persister' = persister /\ net' = net /\ votes' = votes
    BY <1>1
  <1> HIDE DEF i, j
  <1> QED
    BY <1>2, <1>3, <1>4, <1>5, <1>7, <1>8, <1>9, LeaderStep
===============================================================================
