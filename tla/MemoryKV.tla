------------------------------ MODULE MemoryKV ------------------------------
(***************************************************************************)
(* The map of the key/value service (kvraft/memoryKV.go).  A string is the *)
(* sequence of the values it was concatenated from; a key that was never   *)
(* written is not in the map's domain.                                     *)
(***************************************************************************)
EXTENDS Sequences

NewMemoryKV == << >>

set(kv, key, value) == [k \in DOMAIN kv \cup {key} |-> IF k = key THEN value ELSE kv[k]]

Get(kv, key) == IF key \in DOMAIN kv THEN [Value |-> kv[key], Err |-> "OK"]
                                     ELSE [Value |-> << >>, Err |-> "ErrNoKey"]

PutValue(kv, key, value) == set(kv, key, <<value>>)

AppendValue(kv, key, value) == set(kv, key, Append(Get(kv, key).Value, value))

\* The effect of an operation of the service on the map.
Perform(kv, op, key, value) == CASE op = "Append" -> AppendValue(kv, key, value)
                                 [] op = "Put"    -> PutValue(kv, key, value)
                                 [] OTHER         -> kv
=============================================================================
