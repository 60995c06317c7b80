---------------------------- MODULE ReplicatedLog ----------------------------
(***************************************************************************)
(* What Raft promises the services above it: one log of commands that only *)
(* grows, of which every peer has learned a prefix.  A peer that restarts  *)
(* falls back to the prefix that its last snapshot covers.                 *)
(***************************************************************************)
EXTENDS Sequences, SequencesExt

CONSTANT Server

VARIABLES log,      \* the agreed commands
          learned   \* learned[i]: the prefix that peer i knows to be agreed

Init == /\ log = << >>
        /\ learned = [i \in Server |-> << >>]

\* A leader finds that a majority holds more commands.
Commit(i) == /\ IsStrictPrefix(log, log')
             /\ learned' = [learned EXCEPT ![i] = log']

\* A peer hears of more agreed commands, one by one or in a snapshot.
Learn(i) == /\ IsStrictPrefix(learned[i], learned'[i])
            /\ IsPrefix(learned'[i], log)
            /\ learned' = [learned EXCEPT ![i] = learned'[i]]
            /\ UNCHANGED log

Forget(i) == /\ IsStrictPrefix(learned'[i], learned[i])
             /\ learned' = [learned EXCEPT ![i] = learned'[i]]
             /\ UNCHANGED log

Next == \E i \in Server : Commit(i) \/ Learn(i) \/ Forget(i)

Spec == Init /\ [][Next]_<<log, learned>>
=============================================================================
