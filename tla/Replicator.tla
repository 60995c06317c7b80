----------------------------- MODULE Replicator -----------------------------
(***************************************************************************)
(* How a leader brings one follower up to date (raft.go,                   *)
(* raft_append_entry.go): its appendThread, which sleeps on tryAppendCond  *)
(* until there is something to send, and the rounds that the heartbeat     *)
(* starts besides.  The two peers are a majority, and no election happens: *)
(* the question is what becomes of the leader's entries in the end.        *)
(*                                                                         *)
(* Entries are RaftLog's.  An entry's term identifies it, its command is   *)
(* left out.  A step is one critical section.                              *)
(***************************************************************************)
EXTENDS RaftLog

CONSTANTS MaxIndex,       \* bound: the last index of the leader's log
          MaxHeartbeats   \* bound: heartbeat rounds in flight

ASSUME ReplicatorAssumption == {MaxIndex, MaxHeartbeats} \subseteq Nat

VARIABLES leader,    \* logs, commitIndex, and nextIndex and matchIndex for the follower
          follower,  \* logs and commitIndex
          thread,    \* where appendThread is
          rounds     \* calls in flight, of the thread and of heartbeats

vars == <<leader, follower, thread, rounds>>

\* "start" checks whether there is something to send, "gap" has found that there is not
\* and is about to wait, "waiting" waits, "send" has found that there is and enters
\* appendOneRound, "round" is in its call.
Thread == {"start", "gap", "waiting", "send", "round"}

Term == 3

\* Logs that the two may have when the leader of term 3 is elected, as their terms.
OldTerms == {<< >>, <<1>>, <<2>>, <<1, 1>>, <<1, 2>>}
logOf(terms) == newLogs \o [k \in DOMAIN terms |-> [Index |-> k, Term |-> terms[k], Command |-> Nil]]

\* The entries on which two logs of OldTerms agree.
agreeing(s, t) == {k \in DOMAIN s \cap DOMAIN t : SubSeq(s, 1, k) = SubSeq(t, 1, k)}

\* The leader of term 2 made one entry.  An entry that was agreed on is in every log that
\* has an entry of a later term.
possible(l, f, commit) ==
    /\ commit <= Len(l)
    /\ \A j \in DOMAIN l, k \in DOMAIN f : l[j] = 2 /\ f[k] = 2 => j = k
    /\ commit \in {0} \cup agreeing(l, f) \/ DOMAIN f \subseteq agreeing(l, f) \/ f[Len(f)] < l[commit]

\* The leader has every agreed entry, the follower some of them and perhaps others that
\* will be overwritten.
Init ==
    \E l, f \in OldTerms, commit, known \in 0 .. 2 :
        /\ possible(l, f, commit) = TRUE
        /\ known <= commit
        /\ 1 .. known \subseteq agreeing(l, f)
        /\ leader = [logs |-> logOf(l), commitIndex |-> commit, nextIndex |-> Len(l) + 1, matchIndex |-> 0]
        /\ follower = [logs |-> logOf(f), commitIndex |-> known]
        /\ thread = "start"
        /\ rounds = {}

-----------------------------------------------------------------------------
(* The leader *)

\* tryAppendCond.Signal(), without its lock: wakes the thread if it waits, and is lost if
\* it is only about to.
Signal == thread' = IF thread = "waiting" THEN "start" ELSE thread

Start ==
    /\ lastIndex(leader.logs) < MaxIndex
    /\ leader' = [leader EXCEPT !.logs = Append(@, [Index |-> lastIndex(@) + 1, Term |-> Term, Command |-> Nil])]
    /\ Signal
    /\ UNCHANGED <<follower, rounds>>

\* Raft's Snapshot: the entry at index becomes the dummy entry.
Compact(l, index) == setDummy(sliceFrom(l, index), index, getEntry(l, index).Term)

SnapshotLeader(index) ==
    /\ dummyIndex(leader.logs) < index
    /\ leader' = [leader EXCEPT !.logs = Compact(@, index)]
    /\ UNCHANGED <<follower, thread, rounds>>

\* What appendOneRound sends.
request(by) ==
    LET prev == leader.nextIndex - 1  l == leader.logs IN
    IF prev < dummyIndex(l)
    THEN [by |-> by, kind |-> "InstallSnapshot", LastIncludedIndex |-> dummyIndex(l),
          LastIncludedTerm |-> dummyTerm(l)]
    ELSE [by |-> by, kind |-> "AppendEntries", PrevLogIndex |-> prev,
          PrevLogTerm |-> getEntry(l, prev).Term, Entries |-> sliceFrom(l, prev + 1),
          LeaderCommit |-> leader.commitIndex]

needAppend == leader.matchIndex < lastIndex(leader.logs)

\* appendThread: the check, the wait, and the round.
CheckNeed ==
    /\ thread = "start"
    /\ thread' = IF needAppend THEN "send" ELSE "gap"
    /\ UNCHANGED <<leader, follower, rounds>>

Wait ==
    /\ thread = "gap"
    /\ thread' = "waiting"
    /\ UNCHANGED <<leader, follower, rounds>>

\* appendOneRound up to its call.  What was found by CheckNeed may be sent already.
appendOneRound ==
    /\ thread = "send"
    /\ thread' = "round"
    /\ rounds' = rounds \cup {request("thread")}
    /\ UNCHANGED <<leader, follower>>

\* The ticker: a round of its own, at any time.
Heartbeat ==
    /\ Cardinality({r \in rounds : r.by = "heartbeat"}) < MaxHeartbeats
    /\ rounds' = rounds \cup {request("heartbeat")}
    /\ UNCHANGED <<leader, follower, thread>>

\* A round ends: the thread goes on with the next one if there is a need for it.
endRound(r) == IF r.by = "thread" THEN thread' = "start" ELSE UNCHANGED thread

\* The call returns false.
Lose(r) ==
    /\ rounds' = rounds \ {r}
    /\ endRound(r)
    /\ UNCHANGED <<leader, follower>>

\* advanceCommitIndexForLeader: the follower's word makes a majority.
committed(match) == IF match > leader.commitIndex /\ getEntry(leader.logs, match).Term = Term
                    THEN match ELSE leader.commitIndex

\* processAppendEntriesReply signals when there is more to send; the thread itself does
\* not wait then.
endRoundWithMore(r, more) ==
    IF r.by = "thread" THEN thread' = "start" ELSE IF more THEN Signal ELSE UNCHANGED thread

\* Mutant of replyIsCurrent: only successes count.
replyIsSuccess(r) == r.Term = Term /\ r.args.PrevLogIndex = leader.nextIndex - 1 /\ r.Success

replyIsCurrent(r) == r.Term = Term /\ r.args.PrevLogIndex = leader.nextIndex - 1

processAppendEntriesReply(r) ==
    LET match == r.args.PrevLogIndex + Len(r.args.Entries)
        next  == IF r.Success THEN match + 1 ELSE r.ConflictIndex
    IN  /\ r.kind = "AppendEntriesReply"
        /\ rounds' = rounds \ {r}
        /\ IF replyIsCurrent(r)
           THEN /\ leader' = IF r.Success
                             THEN [leader EXCEPT !.matchIndex = match, !.nextIndex = next,
                                                 !.commitIndex = committed(match)]
                             ELSE [leader EXCEPT !.nextIndex = next]
                /\ endRoundWithMore(r, next <= lastIndex(leader.logs))
           ELSE endRound(r) /\ UNCHANGED leader
        /\ UNCHANGED follower

processInstallSnapshotReply(r) ==
    /\ r.kind = "InstallSnapshotReply"
    /\ rounds' = rounds \ {r}
    /\ leader' = [leader EXCEPT !.matchIndex = r.args.LastIncludedIndex,
                                !.nextIndex = r.args.LastIncludedIndex + 1]
    /\ endRound(r)
    /\ UNCHANGED follower

-----------------------------------------------------------------------------
(* The follower *)

reply(r, answer) == rounds' = (rounds \ {r}) \cup {answer}

answerAppend(r, term, success, conflict) ==
    [by |-> r.by, kind |-> "AppendEntriesReply", args |-> r, Term |-> term, Success |-> success,
     ConflictIndex |-> conflict]

HandleAppendEntries(r) ==
    LET l == follower.logs
        new == appendFrom(l, r.Entries)
    IN  /\ r.kind = "AppendEntries"
        /\ IF r.PrevLogIndex < dummyIndex(l)
           THEN reply(r, answerAppend(r, 0, FALSE, dummyIndex(l) + 1)) /\ UNCHANGED follower
           ELSE IF ~matchLog(l, r.PrevLogTerm, r.PrevLogIndex)
           THEN reply(r, answerAppend(r, Term, FALSE, conflictIndex(l, r.PrevLogIndex))) /\ UNCHANGED follower
           ELSE /\ reply(r, answerAppend(r, Term, TRUE, 0))
                /\ follower' = [logs |-> new,
                                commitIndex |-> IF r.LeaderCommit > follower.commitIndex
                                                THEN Min({r.LeaderCommit, lastIndex(new)})
                                                ELSE follower.commitIndex]
        /\ UNCHANGED <<leader, thread>>

HandleInstallSnapshot(r) ==
    LET l == follower.logs
        index == r.LastIncludedIndex
    IN  /\ r.kind = "InstallSnapshot"
        /\ reply(r, [by |-> r.by, kind |-> "InstallSnapshotReply", args |-> r])
        /\ follower' = IF index <= follower.commitIndex THEN follower
                       ELSE [logs |-> setDummy(IF index > lastIndex(l) THEN newLogs ELSE sliceFrom(l, index),
                                               index, r.LastIncludedTerm),
                             commitIndex |-> index]
        /\ UNCHANGED <<leader, thread>>

SnapshotFollower(index) ==
    /\ dummyIndex(follower.logs) < index
    /\ follower' = [follower EXCEPT !.logs = Compact(@, index)]
    /\ UNCHANGED <<leader, thread, rounds>>

-----------------------------------------------------------------------------
Next ==
    \/ Start
    \/ \E index \in 1 .. leader.commitIndex : SnapshotLeader(index)
    \/ \E index \in 1 .. follower.commitIndex : SnapshotFollower(index)
    \/ CheckNeed \/ Wait \/ appendOneRound \/ Heartbeat
    \/ \E r \in rounds :
         \/ HandleAppendEntries(r) \/ HandleInstallSnapshot(r)
         \/ processAppendEntriesReply(r) \/ processInstallSnapshotReply(r)
         \/ Lose(r)

Spec == Init /\ [][Next]_vars

Handled(by)   == \E r \in rounds : r.by = by /\ (HandleAppendEntries(r) \/ HandleInstallSnapshot(r))
Processed(by) == \E r \in rounds : r.by = by /\ (processAppendEntriesReply(r) \/ processInstallSnapshotReply(r))
Ended(by)     == \E r \in rounds : r.by = by /\ (Lose(r) \/ processAppendEntriesReply(r)
                                                          \/ processInstallSnapshotReply(r))

(***************************************************************************)
(* The goroutines run, the heartbeat timer keeps firing, every call        *)
(* returns, and the network does not lose all heartbeats for ever.         *)
(* Commands and snapshots need not come.                                   *)
(***************************************************************************)
Fairness ==
    /\ WF_vars(CheckNeed \/ Wait \/ appendOneRound)
    /\ WF_vars(Heartbeat)
    /\ \A by \in {"thread", "heartbeat"} : WF_vars(Ended(by))
    /\ SF_vars(Handled("heartbeat")) /\ SF_vars(Processed("heartbeat"))

FairSpec == Spec /\ Fairness
-----------------------------------------------------------------------------
\* Types of the variables: the logs keep their shape.
TypeOK ==
    /\ WellFormed(leader.logs) /\ WellFormed(follower.logs)
    /\ leader.commitIndex \in Nat /\ leader.nextIndex \in Nat /\ leader.matchIndex \in Nat
    /\ follower.commitIndex \in Nat
    /\ thread \in Thread
    /\ Cardinality(rounds) <= MaxHeartbeats + 1

\* The leader has a command of its own at k; both peers have committed up to k.
taken(k)  == lastIndex(leader.logs) >= k /\ lastEntry(leader.logs).Term = Term
agreed(k) == leader.commitIndex >= k /\ follower.commitIndex >= k

(***************************************************************************)
(* A command that the leader has taken is agreed on and both peers commit  *)
(* it, whatever signals, calls and replies are lost or come late: the      *)
(* agreement that one() in raft/config.go waits for.  One thing only keeps *)
(* them from it for ever: that the leader, whose log still has the entry   *)
(* before nextIndex, sends from there to a follower that has compacted it, *)
(* which HandleAppendEntries rejects with term 0.                          *)
(***************************************************************************)
StuckOnlyBehindSnapshot ==
    \A k \in 1 .. MaxIndex :
        taken(k) ~> \/ agreed(k)
                    \/ []( /\ dummyIndex(leader.logs) < leader.nextIndex
                          /\ leader.nextIndex <= dummyIndex(follower.logs))
=============================================================================
