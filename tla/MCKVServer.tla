----------------------------- MODULE MCKVServer -----------------------------
(***************************************************************************)
(* An instance of KVServer for TLC: clerks with one command each, or one   *)
(* clerk with two and servers that take snapshots and restart.  Clerks are *)
(* interchangeable.                                                        *)
(***************************************************************************)
EXTENDS KVServer, TLC

Together == [commands |-> [c \in Client |-> 1], compacts |-> FALSE, restarts |-> 0]
Recovery(c) == [commands |-> [d \in Client |-> IF d = c THEN 2 ELSE 0], compacts |-> TRUE, restarts |-> 1]

GenericTests == {Together} \cup {Recovery(c) : c \in Client}

Symmetry == Permutations(Client)
=============================================================================
