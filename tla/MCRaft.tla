------------------------------- MODULE MCRaft -------------------------------
(***************************************************************************)
(* Instances of Raft for TLC: three peers, few terms, entries and messages *)
(* in flight.  Peers and commands are interchangeable.                     *)
(***************************************************************************)
EXTENDS RaftSafety, TLC

Symmetry == Permutations(Server) \cup Permutations(Value)
=============================================================================
