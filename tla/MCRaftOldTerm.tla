---------------------------- MODULE MCRaftOldTerm ----------------------------
(***************************************************************************)
(* Raft started in the middle.  In term 1, s1 won with the vote of s3 and  *)
(* wrote a command at index 1 that reached nobody, while the election of   *)
(* s2 failed.  In term 2, s2 won with the vote of s3 and wrote another     *)
(* command at index 1; its vote request made s1 step down.  In term 3, s1  *)
(* won again with the vote of s3.  All messages were received or lost.     *)
(* From here s1 may replicate its entry of term 1 to a majority, and s2    *)
(* may still win term 4 and overwrite it.                                  *)
(***************************************************************************)
EXTENDS RaftSafety, TLC

CONSTANTS s1, s2, s3, v1, v2

\* Each peer's term, vote and log, as it persisted them.
saved ==
    s1 :> [currentTerm |-> 3, votedFor |-> s1, snapshot |-> << >>,
           logs |-> Append(newLogs, [Index |-> 1, Term |-> 1, Command |-> v1])]
    @@ s2 :> [currentTerm |-> 2, votedFor |-> s2, snapshot |-> << >>,
              logs |-> Append(newLogs, [Index |-> 1, Term |-> 2, Command |-> v2])]
    @@ s3 :> [currentTerm |-> 3, votedFor |-> s1, snapshot |-> << >>, logs |-> newLogs]

OldTermInit ==
    /\ persister = saved
    /\ rf = s1 :> [newRaft(saved[s1], 0) EXCEPT
                     !.state = StateLeader, !.grantedVotes = {s1, s3},
                     !.nextIndex = [j \in Server |-> 2]]
            @@ s2 :> [newRaft(saved[s2], 0) EXCEPT
                        !.state = StateLeader, !.grantedVotes = {s2, s3},
                        !.nextIndex = [j \in Server |-> 1]]
            @@ s3 :> newRaft(saved[s3], 0)
    /\ net = {}
    /\ votes = {<<1, s1, s1>>, <<1, s3, s1>>, <<1, s2, s2>>, <<2, s2, s2>>,
                <<2, s3, s2>>, <<3, s1, s1>>, <<3, s3, s1>>}
    /\ committed = << >>

OldTermSpec == OldTermInit /\ [][Next]_vars
=============================================================================
