------------------------------- MODULE RaftInv -------------------------------
(***************************************************************************)
(* The inductive invariants behind the theorems of RaftProofs.  They are   *)
(* kept apart from the proofs so that TLC checks them too.                 *)
(***************************************************************************)
EXTENDS Raft

-----------------------------------------------------------------------------
(* Types and indices: the log of every peer is well formed, and every index  *)
(* that a message carries fits the log of the leader that uses it.           *)

\* The structure r of peer i: only committed entries are compacted, candidates and
\* leaders have a term of their own, and a leader's nextIndex lies in its log.
StructOK(i, r) ==
    /\ r \in RaftState
    /\ WellFormed(r.logs)
    /\ dummyIndex(r.logs) <= r.commitIndex
    /\ r.state # StateFollower => r.currentTerm >= 1
    /\ r.state = StateLeader =>
         \A j \in Server \ {i} : r.nextIndex[j] \in 1 .. lastIndex(r.logs) + 1

\* Persister p holds the state of structure r, and a snapshot that ends where its log
\* begins.
SavedOK(r, p) ==
    /\ p \in Persister
    /\ p.currentTerm = r.currentTerm /\ p.votedFor = r.votedFor /\ p.logs = r.logs
    /\ Len(p.snapshot) = dummyIndex(r.logs)

PeerOK(i, r, p) == StructOK(i, r) /\ SavedOK(r, p)

\* The last index that a call of a leader covers.
lastSent(m) ==
    IF m.kind = "AppendEntries" THEN m.PrevLogIndex + Len(m.Entries) ELSE m.LastIncludedIndex

\* A call made by the peer with structure r: it was made as a leader, and as long as
\* r leads that term its log covers the call.
CallOK(m, r) ==
    /\ m.Term >= 1
    /\ m.Term <= r.currentTerm
    /\ m.Term = r.currentTerm => r.state # StateCandidate
    /\ m.Term = r.currentTerm /\ r.state = StateLeader => lastSent(m) <= lastIndex(r.logs)

AppendOK(m) ==
    /\ \A k \in 1 .. Len(m.Entries) : m.Entries[k].Index = m.PrevLogIndex + k
    /\ m.PrevLogIndex = 0 => m.PrevLogTerm = 0

\* A ConflictIndex that the caller will use lies at or before the index it sent.
ConflictOK(r) ==
    ~r.Success /\ r.Term = r.args.Term => r.ConflictIndex \in 1 .. r.args.PrevLogIndex

MessageOK(m, R) ==
    /\ m.kind = "AppendEntries" => CallOK(m, R[m.from]) /\ AppendOK(m)
    /\ m.kind = "AppendEntriesReply" =>
         CallOK(m.args, R[m.args.from]) /\ AppendOK(m.args) /\ ConflictOK(m)
    /\ m.kind = "InstallSnapshot" =>
         CallOK(m, R[m.from]) /\ Len(m.Snapshot) = m.LastIncludedIndex
    /\ m.kind = "InstallSnapshotReply" => CallOK(m.args, R[m.args.from])

(***************************************************************************)
(* What one step may do to a peer: its term never decreases and within a   *)
(* term it does not change its vote, does not become a candidate, and does *)
(* not lose entries as a leader.                                           *)
(***************************************************************************)
Evolves(r, rr) ==
    /\ rr.currentTerm >= r.currentTerm
    /\ rr.currentTerm = r.currentTerm =>
         /\ r.votedFor # Nil => rr.votedFor = r.votedFor
         /\ rr.state = StateCandidate => r.state = StateCandidate
         /\ rr.state = StateLeader =>
              \/ r.state = StateCandidate
              \/ r.state = StateLeader /\ lastIndex(rr.logs) >= lastIndex(r.logs)

(***************************************************************************)
(* The inductive invariant for TypeOK and NextIndexInLog.                  *)
(***************************************************************************)
IndexInv ==
    /\ TypeOK
    /\ \A i \in Server : PeerOK(i, rf[i], persister[i])
    /\ \A m \in net : MessageOK(m, rf)

-----------------------------------------------------------------------------
(* Votes *)

(***************************************************************************)
(* The inductive invariant for ElectionSafety: a vote that was given stays *)
(* on record with the voter, and every vote a candidate counts was given.  *)
(***************************************************************************)
ElectionInv ==
    /\ \A x \in votes :
         /\ x[1] <= rf[x[2]].currentTerm
         /\ x[1] = rf[x[2]].currentTerm => rf[x[2]].votedFor = x[3]
    /\ \A x, y \in votes : x[1] = y[1] /\ x[2] = y[2] => x[3] = y[3]
    /\ \A m \in net : m.kind = "RequestVoteReply" /\ m.VoteGranted =>
         <<m.args.Term, m.args.to, m.args.from>> \in votes
    /\ \A i \in Server : rf[i].state # StateFollower =>
         \A v \in rf[i].grantedVotes : <<rf[i].currentTerm, v, i>> \in votes
    /\ \A i \in Server : rf[i].state = StateLeader => Majority(rf[i].grantedVotes)
=============================================================================
