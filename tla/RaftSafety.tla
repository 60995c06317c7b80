------------------------------ MODULE RaftSafety ------------------------------
(***************************************************************************)
(* What Raft promises the services above it: the commands that its leaders *)
(* commit form one log, and every peer learns prefixes of it.              *)
(***************************************************************************)
EXTENDS RaftInv, SequencesExt

\* The commands that peer i may hand to its service: those up to its commitIndex.
learnedBy(i) == SubSeq(history(i), 1, rf[i].commitIndex)

Log == INSTANCE ReplicatedLog WITH log <- committed,
                                   learned <- [i \in Server |-> learnedBy(i)]

(***************************************************************************)
(* Raft implements one growing log: what a leader commits extends what was *)
(* committed before it, in any term, and what any peer considers committed *)
(* is a prefix of it.  This is what checkLogs in raft/config.go samples:   *)
(* no two peers apply different commands at an index.                      *)
(***************************************************************************)
Refinement == Log!Spec

(***************************************************************************)
(* What any peer considers committed is what a leader committed: the       *)
(* invariant behind Refinement, through snapshots sent instead of entries. *)
(***************************************************************************)
StateMachineSafety ==
    \A i \in Server : /\ rf[i].commitIndex <= Len(history(i))
                      /\ IsPrefix(learnedBy(i), committed)

(***************************************************************************)
(* The leader of the highest term holds every command ever committed: why  *)
(* isLogUpToDate and the own-term rule of advanceCommitIndexForLeader are  *)
(* enough for it to never overwrite one.                                   *)
(***************************************************************************)
LeaderCompleteness ==
    \A i \in Server :
        rf[i].state = StateLeader /\ (\A j \in Server : rf[j].currentTerm <= rf[i].currentTerm)
          => IsPrefix(committed, history(i))

\* What peer i would recover from its persister.
durable(i) == persister[i].snapshot \o Commands(Tail(persister[i].logs))

(***************************************************************************)
(* Every command ever committed is in the persisted state of a majority,   *)
(* whatever is delayed, reordered or restarted: HandleAppendEntries saves  *)
(* entries before it acknowledges them and never drops acknowledged ones.  *)
(***************************************************************************)
CommittedOnMajority == Majority({i \in Server : IsPrefix(committed, durable(i))})
===============================================================================
