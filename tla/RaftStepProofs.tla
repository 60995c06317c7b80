---------------------------- MODULE RaftStepProofs ----------------------------
(***************************************************************************)
(* A step of one peer and the inductive invariant IndexInv: what is common *)
(* to all actions, and the actions of elections and restarts.              *)
(***************************************************************************)
EXTENDS RaftInv, RaftLogProofs

\* The constants are as RaftAssumption says.
LEMMA ConstantFacts ==
    /\ IsFiniteSet(Server)
    /\ Nil \notin Server
    /\ SnapshotIndices \subseteq Nat
  BY RaftAssumption

\* A message's kind tells its type.
LEMMA MessageKinds ==
    ASSUME NEW m \in Message
    PROVE  /\ m.kind = "RequestVote" => m \in RequestVoteArgs
           /\ m.kind = "RequestVoteReply" => m \in RequestVoteReply
           /\ m.kind = "AppendEntries" => m \in AppendEntriesArgs
           /\ m.kind = "AppendEntriesReply" => m \in AppendEntriesReply
           /\ m.kind = "InstallSnapshot" => m \in InstallSnapshotArgs
           /\ m.kind = "InstallSnapshotReply" => m \in InstallSnapshotReply
  BY DEF Message, RequestVoteArgs, RequestVoteReply, AppendEntriesArgs,
         AppendEntriesReply, InstallSnapshotArgs, InstallSnapshotReply

\* What is in flight after a step was in flight before it or is sent by it.
LEMMA TransmitSubset ==
    ASSUME NEW sent, NEW received, transmit(sent, received)
    PROVE  net' \subseteq net \cup sent
  BY DEF transmit, kSubset

\* The commands of a sequence of entries.
LEMMA CommandsType ==
    ASSUME NEW es \in Seq(Entry)
    PROVE  /\ Commands(es) \in SnapshotData
           /\ Len(Commands(es)) = Len(es)
  <1>1. Len(es) \in Nat /\ DOMAIN es = 1 .. Len(es)
    OBVIOUS
  <1>2. \A k \in 1 .. Len(es) : es[k].Command \in Value \cup {Nil}
    <2>1. \A k \in 1 .. Len(es) : es[k] \in Entry
      OBVIOUS
    <2> QED
      BY <2>1 DEF Entry
  <1>3. Commands(es) = [k \in 1 .. Len(es) |-> es[k].Command]
    BY <1>1 DEF Commands
  <1>4. Commands(es) \in [1 .. Len(es) -> Value \cup {Nil}]
    BY <1>2, <1>3
  <1>5. Commands(es) \in Seq(Value \cup {Nil})
    BY <1>1, <1>4, SeqDef
  <1> QED
    BY <1>1, <1>3, <1>5 DEF SnapshotData

(***************************************************************************)
(* A message stays good as the peers evolve.                               *)
(***************************************************************************)
LEMMA CallStable ==
    ASSUME NEW m, NEW r \in RaftState, NEW rr \in RaftState, m.Term \in Nat,
           WellFormed(r.logs), WellFormed(rr.logs), lastSent(m) \in Nat,
           CallOK(m, r), Evolves(r, rr)
    PROVE  CallOK(m, rr)
  <1>1. r.currentTerm \in Nat /\ rr.currentTerm \in Nat
    BY DEF RaftState
  <1>2. lastIndex(r.logs) \in Nat /\ lastIndex(rr.logs) \in Nat
    BY LastIndexValue
  <1>3. StateLeader # StateCandidate
    BY DEF StateLeader, StateCandidate
  <1> QED
    BY <1>1, <1>2, <1>3 DEF CallOK, Evolves

\* The indices that calls of a leader carry are natural numbers.
LEMMA CallTypes ==
    ASSUME NEW m \in AppendEntriesArgs \cup InstallSnapshotArgs
    PROVE  m.Term \in Nat /\ lastSent(m) \in Nat /\ m.from \in Server /\ m.to \in Server
  <1>1. CASE m \in AppendEntriesArgs
    <2>1. m.Entries \in Seq(Entry) /\ m.PrevLogIndex \in Nat
      BY <1>1 DEF AppendEntriesArgs
    <2>2. Len(m.Entries) \in Nat
      BY <2>1
    <2> QED
      BY <1>1, <2>1, <2>2 DEF AppendEntriesArgs, lastSent
  <1>2. CASE m \in InstallSnapshotArgs
    BY <1>2 DEF InstallSnapshotArgs, lastSent
  <1> QED
    BY <1>1, <1>2

\* What the invariant says of a message in flight stays true as the peers evolve.
LEMMA MessageStable ==
    ASSUME NEW R \in [Server -> RaftState], NEW RR \in [Server -> RaftState],
           \A i \in Server : WellFormed(R[i].logs) /\ WellFormed(RR[i].logs),
           \A i \in Server : Evolves(R[i], RR[i]),
           NEW m \in Message, MessageOK(m, R)
    PROVE  MessageOK(m, RR)
  <1>1. ASSUME NEW c \in AppendEntriesArgs \cup InstallSnapshotArgs, CallOK(c, R[c.from])
        PROVE  CallOK(c, RR[c.from])
    <2>1. c.from \in Server /\ c.Term \in Nat /\ lastSent(c) \in Nat
      BY CallTypes
    <2>2. R[c.from] \in RaftState /\ RR[c.from] \in RaftState
      BY <2>1
    <2> QED
      BY <1>1, <2>1, <2>2, CallStable
  <1>2. CASE m.kind = "AppendEntries"
    <2>1. m \in AppendEntriesArgs
      BY <1>2, MessageKinds
    <2> QED
      BY <1>1, <1>2, <2>1 DEF MessageOK
  <1>3. CASE m.kind = "AppendEntriesReply"
    <2>1. m.args \in AppendEntriesArgs
      BY <1>3, MessageKinds DEF AppendEntriesReply
    <2> QED
      BY <1>1, <1>3, <2>1 DEF MessageOK
  <1>4. CASE m.kind = "InstallSnapshot"
    <2>1. m \in InstallSnapshotArgs
      BY <1>4, MessageKinds
    <2> QED
      BY <1>1, <1>4, <2>1 DEF MessageOK
  <1>5. CASE m.kind = "InstallSnapshotReply"
    <2>1. m.args \in InstallSnapshotArgs
      BY <1>5, MessageKinds DEF InstallSnapshotReply
    <2> QED
      BY <1>1, <1>5, <2>1 DEF MessageOK
  <1> QED
    BY <1>2, <1>3, <1>4, <1>5 DEF MessageOK

(***************************************************************************)
(* A step of one peer: when its new structure and persister are good, it   *)
(* evolves, and what it sends is good, the invariant is preserved.         *)
(***************************************************************************)
LEMMA PeerStep ==
    ASSUME IndexInv, NEW i \in Server, NEW X, NEW P,
           rf' = [rf EXCEPT ![i] = X], persister' = [persister EXCEPT ![i] = P],
           PeerOK(i, X, P), Evolves(rf[i], X),
           NEW sent, net' \subseteq net \cup sent,
           \A m \in sent : m \in Message /\ MessageOK(m, rf),
           votes' \subseteq Nat \X Server \X Server, committed' \in SnapshotData
    PROVE  IndexInv' /\ \A j \in Server : Evolves(rf[j], rf'[j])
  <1>1. /\ rf \in [Server -> RaftState] /\ persister \in [Server -> Persister]
        /\ net \subseteq Message
    BY DEF IndexInv, TypeOK
  <1>2. X \in RaftState /\ P \in Persister
    BY DEF PeerOK, StructOK, SavedOK
  <1>3. /\ rf' \in [Server -> RaftState] /\ persister' \in [Server -> Persister]
        /\ rf'[i] = X /\ persister'[i] = P
        /\ \A j \in Server \ {i} : rf'[j] = rf[j] /\ persister'[j] = persister[j]
    BY <1>1, <1>2
  <1>4. \A j \in Server : PeerOK(j, rf[j], persister[j])
    BY DEF IndexInv
  <1>5. \A j \in Server : PeerOK(j, rf'[j], persister'[j])
    BY <1>3, <1>4
  <1>6. \A j \in Server : Evolves(rf[j], rf'[j])
    <2>1. ASSUME NEW j \in Server PROVE Evolves(rf[j], rf[j])
      <3>1. rf[j].currentTerm \in Nat /\ WellFormed(rf[j].logs)
        BY <1>1, <1>4 DEF PeerOK, StructOK, RaftState
      <3>2. lastIndex(rf[j].logs) \in Nat
        BY <3>1, LastIndexValue
      <3> QED
        BY <3>1, <3>2 DEF Evolves
    <2> QED
      BY <1>3, <2>1
  <1>7. \A j \in Server : WellFormed(rf[j].logs) /\ WellFormed(rf'[j].logs)
    BY <1>4, <1>5 DEF PeerOK, StructOK
  <1>8. \A m \in net' : m \in Message /\ MessageOK(m, rf')
    <2>1. ASSUME NEW m \in net \cup sent PROVE m \in Message /\ MessageOK(m, rf')
      <3>1. m \in Message /\ MessageOK(m, rf)
        BY <1>1 DEF IndexInv
      <3> QED
        BY <1>1, <1>3, <1>6, <1>7, <3>1, MessageStable
    <2> QED
      BY <2>1
  <1>9. TypeOK'
    BY <1>3, <1>8 DEF TypeOK
  <1> QED
    BY <1>5, <1>6, <1>8, <1>9 DEF IndexInv

\* What the invariant says of one peer.
LEMMA PeerFacts ==
    ASSUME IndexInv, NEW i \in Server
    PROVE  /\ rf \in [Server -> RaftState] /\ persister \in [Server -> Persister]
           /\ net \subseteq Message
           /\ votes \subseteq Nat \X Server \X Server /\ committed \in SnapshotData
           /\ rf[i] \in RaftState /\ persister[i] \in Persister
           /\ StructOK(i, rf[i]) /\ SavedOK(rf[i], persister[i])
           /\ WellFormed(rf[i].logs)
           /\ rf[i].currentTerm \in Nat /\ rf[i].commitIndex \in Nat
           /\ lastIndex(rf[i].logs) \in Nat /\ dummyIndex(rf[i].logs) \in Nat
           /\ dummyIndex(rf[i].logs) <= lastIndex(rf[i].logs)
           /\ dummyIndex(rf[i].logs) <= rf[i].commitIndex
           /\ persister[i].snapshot \in SnapshotData
           /\ Len(persister[i].snapshot) = dummyIndex(rf[i].logs)
  <1>1. /\ rf \in [Server -> RaftState] /\ persister \in [Server -> Persister]
        /\ net \subseteq Message
        /\ votes \subseteq Nat \X Server \X Server /\ committed \in SnapshotData
        /\ StructOK(i, rf[i]) /\ SavedOK(rf[i], persister[i])
    BY DEF IndexInv, TypeOK, PeerOK
  <1>2. rf[i] \in RaftState /\ persister[i] \in Persister /\ WellFormed(rf[i].logs)
    BY <1>1 DEF StructOK
  <1>3. /\ lastIndex(rf[i].logs) \in Nat /\ dummyIndex(rf[i].logs) \in Nat
        /\ dummyIndex(rf[i].logs) <= lastIndex(rf[i].logs)
    BY <1>2, LastIndexValue
  <1>4. dummyIndex(rf[i].logs) <= rf[i].commitIndex
    BY <1>1 DEF StructOK
  <1> QED
    BY <1>1, <1>2, <1>3, <1>4 DEF RaftState, Persister, SavedOK

\* A step of one peer that ends with SaveStateAndSnapshot or persist.
LEMMA SavingStep ==
    ASSUME IndexInv, NEW i \in Server, NEW X, NEW snapshot \in SnapshotData,
           rf' = [rf EXCEPT ![i] = X], SaveStateAndSnapshot(i, snapshot),
           StructOK(i, X), Len(snapshot) = dummyIndex(X.logs), Evolves(rf[i], X),
           NEW sent, net' \subseteq net \cup sent,
           \A m \in sent : m \in Message /\ MessageOK(m, rf),
           votes' \subseteq Nat \X Server \X Server, committed' \in SnapshotData
    PROVE  IndexInv' /\ \A j \in Server : Evolves(rf[j], rf'[j])
  <1> DEFINE P == [currentTerm |-> X.currentTerm, votedFor |-> X.votedFor,
                   logs |-> X.logs, snapshot |-> snapshot]
  <1>1. rf'[i] = X
    BY PeerFacts
  <1>2. persister' = [persister EXCEPT ![i] = P]
    BY <1>1 DEF SaveStateAndSnapshot
  <1>3. SavedOK(X, P)
    BY DEF SavedOK, StructOK, RaftState, Persister
  <1> HIDE DEF P
  <1> QED
    BY <1>2, <1>3, PeerStep DEF PeerOK

\* A step of one peer that keeps what was saved.
LEMMA UnsavedStep ==
    ASSUME IndexInv, NEW i \in Server, NEW X,
           rf' = [rf EXCEPT ![i] = X], persister' = persister,
           StructOK(i, X), Evolves(rf[i], X),
           X.currentTerm = rf[i].currentTerm, X.votedFor = rf[i].votedFor,
           X.logs = rf[i].logs,
           NEW sent, net' \subseteq net \cup sent,
           \A m \in sent : m \in Message /\ MessageOK(m, rf),
           votes' \subseteq Nat \X Server \X Server, committed' \in SnapshotData
    PROVE  IndexInv' /\ \A j \in Server : Evolves(rf[j], rf'[j])
  <1>1. persister' = [persister EXCEPT ![i] = persister[i]]
    BY PeerFacts
  <1>2. SavedOK(X, persister[i])
    BY PeerFacts DEF SavedOK
  <1> QED
    BY <1>1, <1>2, PeerStep DEF PeerOK

\* Becoming a follower, of a leader or because of a higher term.
LEMMA FollowOK ==
    ASSUME NEW i \in Server, NEW r, StructOK(i, r), NEW term \in Nat
    PROVE  /\ term >= r.currentTerm =>
                /\ StructOK(i, follow(r, term)) /\ Evolves(r, follow(r, term))
                /\ follow(r, term).logs = r.logs
                /\ follow(r, term).currentTerm = term
                /\ follow(r, term).state = StateFollower
                /\ follow(r, term).commitIndex = r.commitIndex
           /\ term > r.currentTerm =>
                /\ StructOK(i, stepDown(r, term)) /\ Evolves(r, stepDown(r, term))
                /\ stepDown(r, term).logs = r.logs
                /\ stepDown(r, term).currentTerm = term
                /\ stepDown(r, term).state = StateFollower
                /\ stepDown(r, term).commitIndex = r.commitIndex
  <1> USE DEF StateFollower, StateLeader, StateCandidate
  <1>1. r \in RaftState /\ r.currentTerm \in Nat
    BY DEF StructOK, RaftState
  <1>2. ASSUME term >= r.currentTerm
        PROVE  /\ follow(r, term) \in RaftState
               /\ follow(r, term).logs = r.logs
               /\ follow(r, term).currentTerm = term
               /\ follow(r, term).state = StateFollower
               /\ follow(r, term).commitIndex = r.commitIndex
               /\ term = r.currentTerm => follow(r, term).votedFor = r.votedFor
    <2> DEFINE v == IF term > r.currentTerm THEN Nil ELSE r.votedFor
    <2>1. v \in Server \cup {Nil} /\ (term = r.currentTerm => v = r.votedFor)
      BY <1>1 DEF RaftState
    <2>2. follow(r, term) = [r EXCEPT !.state = StateFollower, !.currentTerm = term,
                                      !.votedFor = v]
      BY DEF follow
    <2> HIDE DEF v
    <2> QED
      BY <1>1, <2>1, <2>2 DEF RaftState
  <1>3. ASSUME term > r.currentTerm
        PROVE  /\ stepDown(r, term) \in RaftState
               /\ stepDown(r, term).logs = r.logs
               /\ stepDown(r, term).currentTerm = term
               /\ stepDown(r, term).state = StateFollower
               /\ stepDown(r, term).commitIndex = r.commitIndex
    BY <1>1, <1>3 DEF stepDown, RaftState
  <1>4. term >= r.currentTerm => StructOK(i, follow(r, term)) /\ Evolves(r, follow(r, term))
    BY <1>1, <1>2 DEF StructOK, Evolves
  <1>5. term > r.currentTerm => StructOK(i, stepDown(r, term)) /\ Evolves(r, stepDown(r, term))
    BY <1>1, <1>3 DEF StructOK, Evolves
  <1> QED
    BY <1>2, <1>3, <1>4, <1>5

-----------------------------------------------------------------------------
(* One lemma per action *)

\* Make: the peer restarts from its persister, which holds its state.
LEMMA MakeStep ==
    ASSUME IndexInv, NEW i \in Server, Make(i)
    PROVE  IndexInv' /\ \A j \in Server : Evolves(rf[j], rf'[j])
  <1> DEFINE X == newRaft(persister[i], rf[i].inc + 1)
             sent == {}
  <1>0. /\ rf[i] \in RaftState /\ persister[i] \in Persister /\ SavedOK(rf[i], persister[i])
        /\ StructOK(i, rf[i])
        /\ dummyIndex(rf[i].logs) \in Nat /\ lastIndex(rf[i].logs) \in Nat
        /\ rf[i].currentTerm \in Nat
    BY PeerFacts
  <1>1. /\ X \in RaftState /\ X.logs = rf[i].logs /\ X.currentTerm = rf[i].currentTerm
        /\ X.votedFor = rf[i].votedFor /\ X.state = StateFollower
        /\ X.commitIndex = dummyIndex(rf[i].logs)
    <2>1. /\ rf[i].inc + 1 \in Nat
          /\ [j \in Server |-> 0] \in [Server -> Nat]
          /\ persister[i].currentTerm \in Nat
          /\ persister[i].votedFor \in Server \cup {Nil}
          /\ persister[i].logs \in Seq(Entry) \ {<< >>}
          /\ dummyIndex(persister[i].logs) \in Nat
      BY <1>0 DEF RaftState, Persister, SavedOK
    <2>2. X \in RaftState
      BY <2>1 DEF newRaft, RaftState
    <2> QED
      BY <1>0, <2>2 DEF newRaft, SavedOK
  <1>2. rf' = [rf EXCEPT ![i] = X] /\ UNCHANGED <<persister, net, votes, committed>>
    BY DEF Make
  <1> HIDE DEF X
  <1>3. StructOK(i, X) /\ Evolves(rf[i], X)
    BY <1>0, <1>1
       DEF StructOK, Evolves, StateFollower, StateLeader, StateCandidate
  <1>4. /\ net' \subseteq net \cup sent /\ persister' = persister
        /\ \A m \in sent : m \in Message /\ MessageOK(m, rf)
        /\ votes' \subseteq Nat \X Server \X Server /\ committed' \in SnapshotData
    BY <1>2, PeerFacts
  <1>5. rf' = [rf EXCEPT ![i] = X]
    BY <1>2
  <1> HIDE DEF sent
  <1> QED
    BY <1>1, <1>3, <1>4, <1>5, UnsavedStep

\* StartElection: the peer becomes a candidate in a new term.
LEMMA StartElectionStep ==
    ASSUME IndexInv, NEW i \in Server, StartElection(i)
    PROVE  IndexInv' /\ \A j \in Server : Evolves(rf[j], rf'[j])
  <1> DEFINE X == [rf[i] EXCEPT !.state = StateCandidate, !.currentTerm = @ + 1,
                                !.votedFor = i, !.grantedVotes = {i}]
             sent == {[kind |-> "RequestVote", from |-> i, to |-> j, inc |-> rf[i].inc,
                       Term |-> rf[i].currentTerm + 1,
                       LastLogIndex |-> lastIndex(rf[i].logs),
                       LastLogTerm |-> lastEntry(rf[i].logs).Term] : j \in Server \ {i}}
  <1>0. /\ rf[i] \in RaftState /\ StructOK(i, rf[i]) /\ lastIndex(rf[i].logs) \in Nat
        /\ rf[i].currentTerm \in Nat
    BY PeerFacts
  <1>1. /\ rf' = [rf EXCEPT ![i] = X] /\ persist(i) /\ transmit(sent, {})
        /\ votes' = votes \cup {<<rf[i].currentTerm + 1, i, i>>} /\ UNCHANGED committed
    BY DEF StartElection
  <1>2. /\ X \in RaftState /\ X.logs = rf[i].logs /\ X.currentTerm = rf[i].currentTerm + 1
        /\ X.state = StateCandidate /\ X.commitIndex = rf[i].commitIndex
    <2>1. rf[i].currentTerm + 1 \in Nat /\ i \in Server \cup {Nil} /\ {i} \in SUBSET Server
      BY <1>0 DEF RaftState
    <2> QED
      BY <1>0, <2>1 DEF RaftState
  <1>3. \A m \in sent : m \in Message /\ MessageOK(m, rf)
    <2>1. lastEntry(rf[i].logs).Term \in Nat /\ lastIndex(rf[i].logs) \in Nat
      BY PeerFacts, LastIndexValue DEF Entry
    <2>2. rf[i].inc \in Nat /\ rf[i].currentTerm + 1 \in Nat
      BY <1>0 DEF RaftState
    <2>3. \A m \in sent : m \in RequestVoteArgs /\ m.kind = "RequestVote"
      BY <2>1, <2>2 DEF RequestVoteArgs
    <2> HIDE DEF sent
    <2> QED
      BY <2>3 DEF Message, MessageOK
  <1>4. net' \subseteq net \cup sent
    BY <1>1, TransmitSubset
  <1> HIDE DEF X, sent
  <1>5. StructOK(i, X) /\ Evolves(rf[i], X)
    BY <1>0, <1>2
       DEF StructOK, Evolves, StateFollower, StateLeader, StateCandidate
  <1>6. votes' \subseteq Nat \X Server \X Server /\ committed' \in SnapshotData
    BY <1>1, PeerFacts
  <1> QED
    BY <1>1, <1>2, <1>3, <1>4, <1>5, <1>6, PeerFacts, SavingStep DEF persist

\* HandleRequestVote: the peer may change its term, its state and its vote.
LEMMA HandleRequestVoteStep ==
    ASSUME IndexInv, NEW m \in net, HandleRequestVote(m)
    PROVE  IndexInv' /\ \A j \in Server : Evolves(rf[j], rf'[j])
  <1> DEFINE i == m.to
             newTerm == m.Term > rf[i].currentTerm
             state == IF newTerm THEN StateFollower ELSE rf[i].state
             term == IF newTerm THEN m.Term ELSE rf[i].currentTerm
             vote == IF grantsVote(m) THEN m.from ELSE voteInTerm(m)
             X == [rf[i] EXCEPT !.state = state, !.currentTerm = term, !.votedFor = vote]
             reply == [kind |-> "RequestVoteReply", args |-> m, Term |-> rf'[i].currentTerm,
                       VoteGranted |-> grantsVote(m)]
             sent == {reply}
  <1>1. m \in Message /\ m.kind = "RequestVote"
    BY DEF IndexInv, TypeOK, HandleRequestVote
  <1>2. m \in RequestVoteArgs /\ i \in Server /\ m.from \in Server /\ m.Term \in Nat
    BY <1>1, MessageKinds DEF RequestVoteArgs
  <1>3. /\ rf[i] \in RaftState /\ StructOK(i, rf[i]) /\ lastIndex(rf[i].logs) \in Nat
        /\ rf[i].currentTerm \in Nat /\ rf \in [Server -> RaftState]
    BY <1>2, PeerFacts
  <1>4. /\ rf' = [rf EXCEPT ![i] = X] /\ persist(i) /\ transmit(sent, {m})
        /\ votes' = votes \cup (IF grantsVote(m) THEN {<<m.Term, i, m.from>>} ELSE {})
        /\ UNCHANGED committed
    BY DEF HandleRequestVote
  <1>5. /\ state \in {StateLeader, StateCandidate, StateFollower}
        /\ term \in Nat /\ term >= rf[i].currentTerm
        /\ vote \in Server \cup {Nil}
        /\ term = rf[i].currentTerm => ~newTerm /\ state = rf[i].state
        /\ term # rf[i].currentTerm => state = StateFollower
        /\ term = rf[i].currentTerm /\ rf[i].votedFor # Nil => vote = rf[i].votedFor
    <2>1. rf[i].votedFor \in Server \cup {Nil}
          /\ rf[i].state \in {StateLeader, StateCandidate, StateFollower}
      BY <1>3 DEF RaftState
    <2> QED
      BY <1>2, <1>3, <2>1 DEF voteInTerm, grantsVote
  <1> HIDE DEF state, term, vote, newTerm
  <1>6. /\ X \in RaftState /\ X.logs = rf[i].logs /\ X.currentTerm = term
        /\ X.state = state /\ X.votedFor = vote /\ X.nextIndex = rf[i].nextIndex
        /\ X.commitIndex = rf[i].commitIndex
    BY <1>3, <1>5 DEF RaftState
  <1> HIDE DEF X
  <1>7. StructOK(i, X) /\ Evolves(rf[i], X)
    BY <1>3, <1>5, <1>6
       DEF StructOK, Evolves, StateFollower, StateLeader, StateCandidate
  <1>8. rf'[i] = X
    BY <1>2, <1>3, <1>4
  <1>9. \A n \in sent : n \in Message /\ MessageOK(n, rf)
    <2>1. grantsVote(m) \in BOOLEAN
      BY DEF grantsVote
    <2>2. reply \in RequestVoteReply /\ reply.kind = "RequestVoteReply"
      BY <1>2, <1>5, <1>6, <1>8, <2>1 DEF RequestVoteReply
    <2> HIDE DEF reply
    <2> QED
      BY <2>2 DEF Message, MessageOK
  <1>10. net' \subseteq net \cup sent
    BY <1>4, TransmitSubset
  <1> HIDE DEF sent, i
  <1>11. votes' \subseteq Nat \X Server \X Server /\ committed' \in SnapshotData
    BY <1>2, <1>4, PeerFacts
  <1> QED
    BY <1>2, <1>4, <1>6, <1>7, <1>9, <1>10, <1>11, PeerFacts, SavingStep DEF persist

\* The closure in StartElection counts a vote, and the candidate may become leader.
LEMMA CountVoteStep ==
    ASSUME IndexInv, NEW r \in net, CountVote(r)
    PROVE  IndexInv' /\ \A j \in Server : Evolves(rf[j], rf'[j])
  <1> DEFINE i == r.args.from
             counted == [rf[i] EXCEPT !.grantedVotes = @ \cup {r.args.to}]
             X == IF Majority(counted.grantedVotes) THEN becomeLeader(counted) ELSE counted
             sent == {}
  <1>1. r \in Message /\ r.kind = "RequestVoteReply" /\ rf[i].state = StateCandidate
    BY DEF IndexInv, TypeOK, CountVote, inElection
  <1>2. r.args \in RequestVoteArgs /\ i \in Server /\ r.args.to \in Server
    BY <1>1, MessageKinds DEF RequestVoteReply, RequestVoteArgs
  <1>3. /\ rf[i] \in RaftState /\ StructOK(i, rf[i]) /\ lastIndex(rf[i].logs) \in Nat
        /\ rf[i].currentTerm \in Nat /\ rf[i].grantedVotes \cup {r.args.to} \in SUBSET Server
    BY <1>2, PeerFacts DEF RaftState
  <1>4. /\ rf' = [rf EXCEPT ![i] = X] /\ transmit(sent, {r})
        /\ persister' = persister /\ votes' = votes /\ committed' = committed
    BY DEF CountVote
  <1>5. /\ counted \in RaftState /\ counted.logs = rf[i].logs
        /\ counted.currentTerm = rf[i].currentTerm /\ counted.votedFor = rf[i].votedFor
        /\ counted.state = StateCandidate /\ counted.commitIndex = rf[i].commitIndex
    BY <1>1, <1>3 DEF RaftState
  <1> HIDE DEF counted
  <1>6. /\ becomeLeader(counted) \in RaftState
        /\ becomeLeader(counted).logs = rf[i].logs
        /\ becomeLeader(counted).currentTerm = rf[i].currentTerm
        /\ becomeLeader(counted).votedFor = rf[i].votedFor
        /\ becomeLeader(counted).state = StateLeader
        /\ becomeLeader(counted).commitIndex = rf[i].commitIndex
        /\ becomeLeader(counted).nextIndex = [j \in Server |-> lastIndex(rf[i].logs) + 1]
    <2>1. [j \in Server |-> 0] \in [Server -> Nat]
      OBVIOUS
    <2>2. [j \in Server |-> lastIndex(counted.logs) + 1] \in [Server -> Nat]
      BY <1>3, <1>5
    <2> QED
      BY <1>5, <2>1, <2>2 DEF becomeLeader, RaftState
  <1>7. /\ StructOK(i, X) /\ X.logs = rf[i].logs /\ X.currentTerm = rf[i].currentTerm
        /\ X.votedFor = rf[i].votedFor /\ X.state \in {StateCandidate, StateLeader}
    <2>1. StructOK(i, counted)
      BY <1>1, <1>3, <1>5 DEF StructOK, StateLeader, StateFollower, StateCandidate
    <2>2. StructOK(i, becomeLeader(counted))
      BY <1>1, <1>3, <1>6 DEF StructOK, StateLeader, StateFollower, StateCandidate
    <2> QED
      BY <1>5, <1>6, <2>1, <2>2
  <1> HIDE DEF X
  <1>8. Evolves(rf[i], X)
    BY <1>1, <1>3, <1>7 DEF Evolves
  <1>9. /\ net' \subseteq net \cup sent
        /\ \A m \in sent : m \in Message /\ MessageOK(m, rf)
        /\ votes' \subseteq Nat \X Server \X Server /\ committed' \in SnapshotData
    BY <1>2, <1>4, TransmitSubset, PeerFacts
  <1> HIDE DEF i, sent
  <1> QED
    BY <1>2, <1>4, <1>7, <1>8, <1>9, UnsavedStep

\* A peer that steps down, with or without a reply to take off the network.
LEMMA StepDownStep ==
    ASSUME IndexInv, NEW i \in Server, NEW term \in Nat, term > rf[i].currentTerm,
           rf' = [rf EXCEPT ![i] = stepDown(@, term)], persist(i), net' \subseteq net,
           votes' = votes, committed' = committed
    PROVE  IndexInv' /\ \A j \in Server : Evolves(rf[j], rf'[j])
  <1> DEFINE X == stepDown(rf[i], term)
             sent == {}
  <1>1. StructOK(i, X) /\ Evolves(rf[i], X) /\ X.logs = rf[i].logs
    BY PeerFacts, FollowOK
  <1>2. rf' = [rf EXCEPT ![i] = X]
    OBVIOUS
  <1>3. /\ net' \subseteq net \cup sent
        /\ \A m \in sent : m \in Message /\ MessageOK(m, rf)
        /\ votes' \subseteq Nat \X Server \X Server /\ committed' \in SnapshotData
    BY PeerFacts
  <1> HIDE DEF X, sent
  <1> QED
    BY <1>1, <1>2, <1>3, PeerFacts, SavingStep DEF persist

\* The closure in StartElection meets a higher term.
LEMMA LoseElectionStep ==
    ASSUME IndexInv, NEW r \in net, LoseElection(r)
    PROVE  IndexInv' /\ \A j \in Server : Evolves(rf[j], rf'[j])
  <1>1. r \in Message /\ r.kind = "RequestVoteReply"
    BY DEF IndexInv, TypeOK, LoseElection, inElection
  <1>2. r.args.from \in Server /\ r.Term \in Nat
    BY <1>1, MessageKinds DEF RequestVoteReply, RequestVoteArgs
  <1>3. net' \subseteq net
    BY TransmitSubset DEF LoseElection
  <1> QED
    BY <1>2, <1>3, StepDownStep DEF LoseElection

\* processAppendEntriesReply and processInstallSnapshotReply meet a higher term.
LEMMA StepDownOnReplyStep ==
    ASSUME IndexInv, NEW r \in net, StepDownOnReply(r)
    PROVE  IndexInv' /\ \A j \in Server : Evolves(rf[j], rf'[j])
  <1>1. r \in Message /\ r.kind \in {"AppendEntriesReply", "InstallSnapshotReply"}
    BY DEF IndexInv, TypeOK, StepDownOnReply
  <1>2. r.args.from \in Server /\ r.Term \in Nat
    BY <1>1, MessageKinds DEF AppendEntriesReply, AppendEntriesArgs,
                              InstallSnapshotReply, InstallSnapshotArgs
  <1> QED
    BY <1>2, StepDownStep DEF StepDownOnReply
===============================================================================
