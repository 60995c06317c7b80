----------------------------- MODULE RaftProofs -----------------------------
(***************************************************************************)
(* Types and indices in Raft, for any number of peers, terms, entries,     *)
(* restarts and messages: the actions of snapshots preserve IndexInv, as   *)
(* do the others, and with it TypeOK, NextIndexInLog and VoteOncePerTerm   *)
(* hold.                                                                   *)
(***************************************************************************)
EXTENDS RaftAppendProofs

\* The service's state at an index of the log is as long as that index.
LEMMA ServiceStateType ==
    ASSUME IndexInv, NEW i \in Server, NEW index \in Nat,
           dummyIndex(rf[i].logs) < index, index <= lastIndex(rf[i].logs)
    PROVE  serviceState(i, index) \in SnapshotData /\ Len(serviceState(i, index)) = index
  <1> DEFINE l == rf[i].logs
             d == dummyIndex(l)
             s == slice(l, d + 1, index + 1)
             snap == persister[i].snapshot
  <1>1. WellFormed(l) /\ snap \in SnapshotData /\ Len(snap) = d
    BY PeerFacts
  <1>2. lastIndex(l) = d + Len(l) - 1 /\ Len(l) \in Nat /\ d \in Nat
    BY <1>1, LastIndexValue
  <1>3. l \in Seq(Entry) /\ d < index /\ index <= lastIndex(l)
    <2>1. l \in Seq(Entry)
      BY <1>1 DEF WellFormed
    <2> QED
      BY <2>1
  <1>4. s = SubSeq(l, (d + 1) - d + 1, (index + 1) - d)
    BY DEF slice, convertIndex
  <1> HIDE DEF l, d, s, snap
  <1>5. (d + 1) - d + 1 = 2 /\ (index + 1) - d \in 2 .. Len(l)
    BY <1>2, <1>3
  <1>6. s \in Seq(Entry) /\ Len(s) = (index + 1) - d - 2 + 1
    BY <1>2, <1>3, <1>4, <1>5
  <1>7. Commands(s) \in SnapshotData /\ Len(Commands(s)) = Len(s)
    BY <1>6, CommandsType
  <1>8. /\ snap \o Commands(s) \in SnapshotData
        /\ Len(snap \o Commands(s)) = Len(snap) + Len(Commands(s))
    BY <1>1, <1>7 DEF SnapshotData
  <1>9. Len(snap \o Commands(s)) = index
    BY <1>1, <1>2, <1>6, <1>7, <1>8
  <1> QED
    BY <1>8, <1>9 DEF serviceState, snap, s, l, d

\* Snapshot: the log is cut at a committed index.
LEMMA SnapshotStep ==
    ASSUME IndexInv, NEW i \in Server, NEW index \in SnapshotIndices, Snapshot(i, index)
    PROVE  IndexInv' /\ \A j \in Server : Evolves(rf[j], rf'[j])
  <1> DEFINE l == rf[i].logs
             s == sliceFrom(l, index)
             ll == setDummy(s, dummyIndex(s), dummyTerm(s))
             X == [rf[i] EXCEPT !.logs = ll]
             snap == serviceState(i, index)
             sent == {}
  <1>1. /\ dummyIndex(l) < index /\ index <= Min({rf[i].commitIndex, lastIndex(l)})
        /\ rf' = [rf EXCEPT ![i] = X] /\ SaveStateAndSnapshot(i, snap)
        /\ net' = net /\ votes' = votes /\ committed' = committed
    BY DEF Snapshot
  <1>2. /\ rf[i] \in RaftState /\ StructOK(i, rf[i]) /\ WellFormed(l)
        /\ lastIndex(l) \in Nat /\ dummyIndex(l) \in Nat
        /\ rf[i].currentTerm \in Nat /\ rf[i].commitIndex \in Nat
    BY PeerFacts
  <1>3. index \in Nat /\ index <= rf[i].commitIndex /\ index <= lastIndex(l)
    <2>1. index \in Nat
      BY ConstantFacts
    <2>2. {rf[i].commitIndex, lastIndex(l)} \in SUBSET Nat
      BY <1>2
    <2>3. /\ Min({rf[i].commitIndex, lastIndex(l)}) \in {rf[i].commitIndex, lastIndex(l)}
          /\ Min({rf[i].commitIndex, lastIndex(l)}) <= rf[i].commitIndex
          /\ Min({rf[i].commitIndex, lastIndex(l)}) <= lastIndex(l)
      BY <2>2, MinOfNats
    <2> QED
      BY <1>1, <1>2, <2>1, <2>3
  <1>4. snap \in SnapshotData /\ Len(snap) = index
    BY <1>1, <1>3, ServiceStateType
  <1> HIDE DEF snap
  <1>5. /\ WellFormed(ll) /\ dummyIndex(ll) = index /\ lastIndex(ll) = lastIndex(l)
    <2>1. index \in dummyIndex(l) .. lastIndex(l) /\ index \in dummyIndex(l) .. lastIndex(l) + 1
          /\ index # 0 /\ lastIndex(l) + 1 - index >= 1
      BY <1>1, <1>2, <1>3
    <2>2. /\ s \in Seq(Entry) /\ Len(s) = lastIndex(l) + 1 - index
          /\ \A k \in 1 .. Len(s) : s[k] = getEntry(l, index + k - 1)
      BY <1>2, <2>1, SliceFromEntries
    <2>3. index + 1 - 1 = index /\ 1 \in 1 .. Len(s)
      BY <1>2, <1>3, <2>1, <2>2
    <2>4. s[1] = getEntry(l, index)
      BY <2>2, <2>3
    <2>5. dummyIndex(s) = index /\ dummyTerm(s) \in Nat
      BY <1>2, <2>1, <2>4, GetEntryInLog DEF dummyIndex, dummyTerm, Entry
    <2> QED
      BY <1>2, <2>1, <2>5, CompactWellFormed
  <1> HIDE DEF ll
  <1>6. ll \in Seq(Entry) \ {<< >>}
    BY <1>5 DEF WellFormed
  <1>7. /\ X \in RaftState /\ X.logs = ll /\ X.currentTerm = rf[i].currentTerm
        /\ X.state = rf[i].state /\ X.votedFor = rf[i].votedFor
        /\ X.nextIndex = rf[i].nextIndex /\ X.commitIndex = rf[i].commitIndex
    BY <1>2, <1>6 DEF RaftState
  <1> HIDE DEF X
  <1>8. StructOK(i, X) /\ Evolves(rf[i], X)
    BY <1>2, <1>3, <1>5, <1>7 DEF StructOK, Evolves
  <1>9. /\ net' \subseteq net \cup sent
        /\ \A m \in sent : m \in Message /\ MessageOK(m, rf)
        /\ votes' \subseteq Nat \X Server \X Server /\ committed' \in SnapshotData
    BY <1>1, PeerFacts
  <1>10. Len(snap) = dummyIndex(X.logs)
    BY <1>4, <1>5, <1>7
  <1>11. rf' = [rf EXCEPT ![i] = X] /\ SaveStateAndSnapshot(i, snap)
    BY <1>1
  <1> HIDE DEF sent, l
  <1> QED
    BY <1>4, <1>8, <1>9, <1>10, <1>11, SavingStep

\* What the invariant says of an InstallSnapshot call.
LEMMA SnapshotCallFacts ==
    ASSUME IndexInv, NEW m \in net, m.kind = "InstallSnapshot"
    PROVE  /\ m.to \in Server /\ m.Term \in Nat
           /\ m.LastIncludedIndex \in Nat /\ m.LastIncludedTerm \in Nat
           /\ m.Snapshot \in SnapshotData /\ Len(m.Snapshot) = m.LastIncludedIndex
           /\ \A term \in Nat :
                LET r == [kind |-> "InstallSnapshotReply", args |-> m, Term |-> term]
                IN  r \in Message /\ MessageOK(r, rf)
  <1>1. m \in Message /\ MessageOK(m, rf)
    BY DEF IndexInv, TypeOK
  <1>2. m \in InstallSnapshotArgs
    BY <1>1, MessageKinds
  <1>3. CallOK(m, rf[m.from]) /\ Len(m.Snapshot) = m.LastIncludedIndex
    BY <1>1 DEF MessageOK
  <1>4. ASSUME NEW term \in Nat,
               NEW r, r = [kind |-> "InstallSnapshotReply", args |-> m, Term |-> term]
        PROVE  r \in Message /\ MessageOK(r, rf)
    <2>1. r \in InstallSnapshotReply /\ r.kind = "InstallSnapshotReply" /\ r.args = m
      BY <1>2, <1>4 DEF InstallSnapshotReply
    <2> QED
      BY <1>3, <2>1 DEF Message, MessageOK
  <1>5. /\ m.to \in Server /\ m.Term \in Nat
        /\ m.LastIncludedIndex \in Nat /\ m.LastIncludedTerm \in Nat
        /\ m.Snapshot \in SnapshotData
    BY <1>2 DEF InstallSnapshotArgs
  <1> QED
    BY <1>3, <1>4, <1>5

\* HandleInstallSnapshot: a request from an earlier term.
LEMMA RejectStaleSnapshotStep ==
    ASSUME IndexInv, NEW m \in net, RejectStaleSnapshot(m)
    PROVE  IndexInv' /\ \A j \in Server : Evolves(rf[j], rf'[j])
  <1> DEFINE i == m.to
             r == [kind |-> "InstallSnapshotReply", args |-> m, Term |-> rf[i].currentTerm]
  <1>1. /\ m.kind = "InstallSnapshot" /\ send(r) /\ rf' = rf /\ persister' = persister
        /\ votes' = votes /\ committed' = committed
    BY DEF RejectStaleSnapshot, replySnapshot
  <1>2. i \in Server
    BY <1>1, SnapshotCallFacts
  <1>3. rf[i].currentTerm \in Nat
    BY <1>2, PeerFacts
  <1>4. r \in Message /\ MessageOK(r, rf)
    BY <1>1, <1>3, SnapshotCallFacts
  <1> HIDE DEF i, r
  <1> QED
    BY <1>1, <1>2, <1>4, SendStep

\* HandleInstallSnapshot: a snapshot of entries that are already committed here.
LEMMA IgnoreOutdatedSnapshotStep ==
    ASSUME IndexInv, NEW m \in net, IgnoreOutdatedSnapshot(m)
    PROVE  IndexInv' /\ \A j \in Server : Evolves(rf[j], rf'[j])
  <1> DEFINE i == m.to
             X == follow(rf[i], m.Term)
             r == [kind |-> "InstallSnapshotReply", args |-> m, Term |-> m.Term]
  <1>1. /\ m.kind = "InstallSnapshot" /\ m.Term >= rf[i].currentTerm /\ send(r)
        /\ rf' = [rf EXCEPT ![i] = X] /\ persist(i) /\ votes' = votes /\ committed' = committed
    BY DEF IgnoreOutdatedSnapshot, replySnapshot
  <1>2. i \in Server /\ m.Term \in Nat
    BY <1>1, SnapshotCallFacts
  <1>3. StructOK(i, rf[i])
    BY <1>2, PeerFacts
  <1>4. StructOK(i, X) /\ Evolves(rf[i], X) /\ X.logs = rf[i].logs
    BY <1>1, <1>2, <1>3, FollowOK
  <1>5. r \in Message /\ MessageOK(r, rf)
    BY <1>1, <1>2, SnapshotCallFacts
  <1> HIDE DEF i, X, r
  <1> QED
    BY <1>1, <1>2, <1>4, <1>5, HandlerStep

\* HandleInstallSnapshot: the snapshot replaces the log up to its index.
LEMMA InstallSnapshotStep ==
    ASSUME IndexInv, NEW m \in net, InstallSnapshot(m)
    PROVE  IndexInv' /\ \A j \in Server : Evolves(rf[j], rf'[j])
  <1> DEFINE i == m.to
             index == m.LastIncludedIndex
             F == follow(rf[i], m.Term)
             ll == setDummy(afterSnapshot(F.logs, index), index, m.LastIncludedTerm)
             X == [F EXCEPT !.logs = ll, !.commitIndex = index]
             r == [kind |-> "InstallSnapshotReply", args |-> m, Term |-> m.Term]
             sent == {r}
  <1>1. /\ m.kind = "InstallSnapshot" /\ m.Term >= rf[i].currentTerm /\ send(r)
        /\ index > rf[i].commitIndex \/ ~(index <= rf[i].commitIndex)
        /\ rf' = [rf EXCEPT ![i] = X] /\ SaveStateAndSnapshot(i, m.Snapshot)
        /\ votes' = votes /\ committed' = committed
    BY DEF InstallSnapshot, replySnapshot, outdated
  <1>2. /\ i \in Server /\ m.Term \in Nat /\ index \in Nat /\ m.LastIncludedTerm \in Nat
        /\ m.Snapshot \in SnapshotData /\ Len(m.Snapshot) = index
        /\ r \in Message /\ MessageOK(r, rf)
    BY <1>1, SnapshotCallFacts
  <1>3. /\ StructOK(i, rf[i]) /\ WellFormed(rf[i].logs) /\ rf[i].commitIndex \in Nat
        /\ rf[i].currentTerm \in Nat
        /\ lastIndex(rf[i].logs) \in Nat /\ dummyIndex(rf[i].logs) \in Nat
        /\ dummyIndex(rf[i].logs) <= rf[i].commitIndex
    BY <1>2, PeerFacts
  <1>4. /\ StructOK(i, F) /\ Evolves(rf[i], F) /\ F.logs = rf[i].logs
        /\ F.state = StateFollower
    BY <1>1, <1>2, <1>3, FollowOK
  <1>5. index # 0 /\ dummyIndex(rf[i].logs) <= index
    BY <1>1, <1>2, <1>3
  <1> HIDE DEF F, index
  <1>6. WellFormed(ll) /\ dummyIndex(ll) = index
    <2>1. CASE index > lastIndex(rf[i].logs)
      BY <1>2, <1>4, <1>5, <2>1, FreshWellFormed DEF afterSnapshot
    <2>2. CASE ~(index > lastIndex(rf[i].logs))
      <3>1. index \in dummyIndex(rf[i].logs) .. lastIndex(rf[i].logs)
        BY <1>2, <1>3, <1>5, <2>2
      <3> QED
        BY <1>2, <1>3, <1>4, <1>5, <2>2, <3>1, CompactWellFormed DEF afterSnapshot
    <2> QED
      BY <2>1, <2>2
  <1> HIDE DEF ll
  <1>7. F \in RaftState /\ ll \in Seq(Entry) \ {<< >>}
    BY <1>4, <1>6 DEF StructOK, WellFormed
  <1>8. /\ X \in RaftState /\ X.logs = ll /\ X.state = StateFollower
        /\ X.currentTerm = F.currentTerm /\ X.votedFor = F.votedFor
        /\ X.commitIndex = index
    BY <1>2, <1>4, <1>7 DEF RaftState
  <1> HIDE DEF X
  <1>9. StructOK(i, X) /\ Evolves(rf[i], X) /\ Len(m.Snapshot) = dummyIndex(X.logs)
    BY <1>2, <1>4, <1>6, <1>8
       DEF StructOK, Evolves, StateFollower, StateLeader, StateCandidate
  <1>10. /\ net' \subseteq net \cup sent
         /\ \A n \in sent : n \in Message /\ MessageOK(n, rf)
         /\ votes' \subseteq Nat \X Server \X Server /\ committed' \in SnapshotData
    BY <1>1, <1>2, TransmitSubset, PeerFacts DEF send
  <1> HIDE DEF i, r, sent
  <1> QED
    BY <1>1, <1>2, <1>9, <1>10, SavingStep

\* processInstallSnapshotReply: the peer's indices are set to the snapshot's.
LEMMA SnapshotAcknowledgedStep ==
    ASSUME IndexInv, NEW r \in net, SnapshotAcknowledged(r)
    PROVE  IndexInv' /\ \A j \in Server : Evolves(rf[j], rf'[j])
  <1> DEFINE i == r.args.from
             j == r.args.to
             index == r.args.LastIncludedIndex
             next == index + 1
             match == [rf[i].matchIndex EXCEPT ![j] = index]
             commit == rf[i].commitIndex
  <1>1. /\ r.kind = "InstallSnapshotReply" /\ rf[i].state = StateLeader
        /\ r.args.Term = rf[i].currentTerm
        /\ rf' = [rf EXCEPT ![i] = [rf[i] EXCEPT !.matchIndex[j] = index, !.nextIndex[j] = next]]
        /\ persister' = persister /\ net' = net /\ votes' = votes /\ committed' = committed
    BY DEF SnapshotAcknowledged
  <1>2. r \in Message /\ MessageOK(r, rf)
    BY DEF IndexInv, TypeOK
  <1>3. r.args \in InstallSnapshotArgs /\ CallOK(r.args, rf[i])
    BY <1>1, <1>2, MessageKinds DEF InstallSnapshotReply, MessageOK
  <1>4. i \in Server /\ j \in Server /\ index \in Nat /\ lastSent(r.args) = index
    BY <1>3 DEF InstallSnapshotArgs, lastSent
  <1>5. index <= lastIndex(rf[i].logs)
    BY <1>1, <1>3, <1>4 DEF CallOK
  <1>6. /\ rf[i] \in RaftState /\ lastIndex(rf[i].logs) \in Nat /\ commit \in Nat
        /\ committed \in SnapshotData /\ match \in [Server -> Nat]
    BY <1>4, PeerFacts DEF RaftState
  <1>7. next \in Nat /\ next \in 1 .. lastIndex(rf[i].logs) + 1
    BY <1>4, <1>5, <1>6
  <1>8. rf' = [rf EXCEPT ![i] = [rf[i] EXCEPT !.matchIndex = match,
                  !.nextIndex = [rf[i].nextIndex EXCEPT ![j] = next],
                  !.commitIndex = commit]]
    <2>1. [rf[i] EXCEPT !.matchIndex[j] = index, !.nextIndex[j] = next]
            = [rf[i] EXCEPT !.matchIndex = match,
                            !.nextIndex = [rf[i].nextIndex EXCEPT ![j] = next],
                            !.commitIndex = commit]
      BY <1>6 DEF RaftState
    <2> QED
      BY <1>1, <2>1
  <1>9. /\ persister' = persister /\ net' = net /\ votes' = votes /\ committed' \in SnapshotData
        /\ rf[i].commitIndex <= commit /\ rf[i].state = StateLeader
    BY <1>1, <1>6
  <1> HIDE DEF i, j, index, next, match, commit
  <1> QED
    BY <1>4, <1>6, <1>7, <1>8, <1>9, LeaderStep

-----------------------------------------------------------------------------
(* Types, indices and votes *)

\* IndexInv holds initially.
LEMMA IndexInvInit == Init => IndexInv
  <1> DEFINE X == newRaft(emptyPersister, 0)
  <1>1. WellFormed(newLogs) /\ dummyIndex(newLogs) = 0 /\ newLogs \in Seq(Entry) \ {<< >>}
    BY NewLogsWellFormed DEF WellFormed
  <1>2. << >> \in SnapshotData /\ Len(<< >>) = 0
    BY DEF SnapshotData
  <1>3. /\ emptyPersister \in Persister /\ emptyPersister.currentTerm = 0
        /\ emptyPersister.votedFor = Nil /\ emptyPersister.logs = newLogs
        /\ emptyPersister.snapshot = << >>
    BY <1>1, <1>2 DEF emptyPersister, Persister
  <1> HIDE DEF emptyPersister
  <1>4. /\ X \in RaftState /\ X.logs = newLogs /\ X.state = StateFollower
        /\ X.currentTerm = 0 /\ X.votedFor = Nil /\ X.commitIndex = 0
    <2>1. [j \in Server |-> 0] \in [Server -> Nat] /\ {} \in SUBSET Server
      OBVIOUS
    <2> QED
      BY <1>1, <1>3, <2>1 DEF newRaft, RaftState
  <1> HIDE DEF X
  <1>5. \A i \in Server : PeerOK(i, X, emptyPersister)
    BY <1>1, <1>2, <1>3, <1>4
       DEF PeerOK, StructOK, SavedOK, StateFollower, StateLeader, StateCandidate
  <1>6. SUFFICES ASSUME Init PROVE IndexInv
    OBVIOUS
  <1>7. /\ rf = [i \in Server |-> X] /\ persister = [i \in Server |-> emptyPersister]
        /\ net = {} /\ votes = {} /\ committed = << >>
    BY <1>6 DEF Init, X
  <1>8. TypeOK
    BY <1>2, <1>3, <1>4, <1>7 DEF TypeOK
  <1> QED
    BY <1>5, <1>7, <1>8 DEF IndexInv

\* Every step preserves IndexInv, and lets every peer evolve.
LEMMA IndexInvStep ==
    ASSUME IndexInv, [Next]_vars
    PROVE  IndexInv' /\ \A j \in Server : Evolves(rf[j], rf'[j])
  <1>1. ASSUME NEW i \in Server, StartElection(i)
        PROVE  IndexInv' /\ \A j \in Server : Evolves(rf[j], rf'[j])
    BY <1>1, StartElectionStep
  <1>2. ASSUME NEW i \in Server, NEW command \in Value, Start(i, command)
        PROVE  IndexInv' /\ \A j \in Server : Evolves(rf[j], rf'[j])
    BY <1>2, StartStep
  <1>3. ASSUME NEW i \in Server, NEW k \in Server \ {i}, sendAppendEntries(i, k)
        PROVE  IndexInv' /\ \A j \in Server : Evolves(rf[j], rf'[j])
    BY <1>3, SendAppendEntriesStep
  <1>4. ASSUME NEW i \in Server, NEW k \in Server \ {i}, sendInstallSnapshot(i, k)
        PROVE  IndexInv' /\ \A j \in Server : Evolves(rf[j], rf'[j])
    BY <1>4, SendInstallSnapshotStep
  <1>5. ASSUME NEW i \in Server, NEW index \in SnapshotIndices, Snapshot(i, index)
        PROVE  IndexInv' /\ \A j \in Server : Evolves(rf[j], rf'[j])
    BY <1>5, SnapshotStep
  <1>6. ASSUME NEW i \in Server, Make(i)
        PROVE  IndexInv' /\ \A j \in Server : Evolves(rf[j], rf'[j])
    BY <1>6, MakeStep
  <1>7. ASSUME NEW m \in net,
               HandleRequestVote(m) \/ CountVote(m) \/ LoseElection(m) \/ StepDownOnReply(m)
        PROVE  IndexInv' /\ \A j \in Server : Evolves(rf[j], rf'[j])
    BY <1>7, HandleRequestVoteStep, CountVoteStep, LoseElectionStep, StepDownOnReplyStep
  <1>8. ASSUME NEW m \in net,
               \/ RejectStaleAppend(m) \/ RejectCompactedAppend(m) \/ RejectUnmatchedAppend(m)
               \/ AcceptAppend(m) \/ AppendSucceeded(m) \/ AppendConflicted(m)
        PROVE  IndexInv' /\ \A j \in Server : Evolves(rf[j], rf'[j])
    BY <1>8, RejectStaleAppendStep, RejectCompactedAppendStep, RejectUnmatchedAppendStep,
       AcceptAppendStep, AppendSucceededStep, AppendConflictedStep
  <1>9. ASSUME NEW m \in net,
               \/ RejectStaleSnapshot(m) \/ IgnoreOutdatedSnapshot(m)
               \/ InstallSnapshot(m) \/ SnapshotAcknowledged(m)
        PROVE  IndexInv' /\ \A j \in Server : Evolves(rf[j], rf'[j])
    BY <1>9, RejectStaleSnapshotStep, IgnoreOutdatedSnapshotStep, InstallSnapshotStep,
       SnapshotAcknowledgedStep
  <1>10. CASE UNCHANGED vars
    <2>1. \A j \in Server : Evolves(rf[j], rf[j])
      <3>1. ASSUME NEW j \in Server
            PROVE  rf[j].currentTerm \in Nat /\ lastIndex(rf[j].logs) \in Nat
        BY PeerFacts
      <3> QED
        BY <3>1 DEF Evolves
    <2>2. /\ rf' = rf /\ persister' = persister /\ net' = net
          /\ votes' = votes /\ committed' = committed
      BY <1>10 DEF vars
    <2>3. IndexInv'
      BY <2>2 DEF IndexInv, TypeOK, PeerOK, SavedOK
    <2> QED
      BY <2>1, <2>2, <2>3
  <1> QED
    BY <1>1, <1>2, <1>3, <1>4, <1>5, <1>6, <1>7, <1>8, <1>9, <1>10 DEF Next

\* IndexInv is an invariant.
LEMMA IndexInvariant == Spec => []IndexInv
  <1>1. IndexInv /\ [Next]_vars => IndexInv'
    BY IndexInvStep
  <1> QED
    BY <1>1, IndexInvInit, PTL DEF Spec

(***************************************************************************)
(* Every variable keeps its type, for any number of peers, terms, entries, *)
(* restarts and messages: no step of the code sends a field or stores an   *)
(* index outside its type.                                                 *)
(***************************************************************************)
THEOREM TypeCorrect == Spec => []TypeOK
  <1>1. IndexInv => TypeOK
    BY DEF IndexInv
  <1> QED
    BY <1>1, IndexInvariant, PTL

(***************************************************************************)
(* appendOneRound never panics: a leader's nextIndex stays between 1 and   *)
(* its last index + 1, whatever replies arrive, however late.              *)
(***************************************************************************)
THEOREM NextIndexSafe == Spec => []NextIndexInLog
  <1>1. IndexInv => NextIndexInLog
    BY DEF IndexInv, PeerOK, StructOK, NextIndexInLog
  <1> QED
    BY <1>1, IndexInvariant, PTL

(***************************************************************************)
(* No peer goes back to an earlier term or votes twice in a term, through  *)
(* every handler and every restart from the persister.                     *)
(***************************************************************************)
THEOREM VoteOnce == Spec => VoteOncePerTerm
  <1>1. IndexInv /\ [Next]_vars =>
          [\A i \in Server :
             /\ rf'[i].currentTerm >= rf[i].currentTerm
             /\ rf'[i].currentTerm = rf[i].currentTerm /\ rf[i].votedFor # Nil
                  => rf'[i].votedFor = rf[i].votedFor]_vars
    BY IndexInvStep DEF Evolves
  <1> QED
    BY <1>1, IndexInvariant, PTL DEF Spec, VoteOncePerTerm
=============================================================================
