---------------------------- MODULE MCApplyCheck ----------------------------
(***************************************************************************)
(* An instance of ApplyCheck for TLC: restarts without snapshots, a long   *)
(* log with snapshots and no restart, and a shorter one with both.         *)
(***************************************************************************)
EXTENDS ApplyCheck, TLC

RaftTests == {[snapshot |-> FALSE, crashes |-> 2, last |-> 2],
              [snapshot |-> FALSE, crashes |-> 1, last |-> 3],
              [snapshot |-> TRUE, crashes |-> 0, last |-> 4],
              [snapshot |-> TRUE, crashes |-> 1, last |-> 3]}

Symmetry == Permutations(Server) \cup Permutations(Value)
=============================================================================
