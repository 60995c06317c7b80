------------------------------ MODULE AtomicMap ------------------------------
(***************************************************************************)
(* What the key/value service promises its clients: one map, on which each *)
(* operation takes effect once, atomically, at some moment between the     *)
(* call and the return.  A Get may return any value that its key has held  *)
(* since the call.                                                         *)
(***************************************************************************)
EXTENDS MemoryKV

CONSTANTS Client, Key, Value

VARIABLES map,     \* the map
          call,    \* call[c]: the operations that c has in progress, at most one
          result   \* result[c]: what c's last operation returned

vars == <<map, call, result>>

Init ==
    /\ map = NewMemoryKV
    /\ call = [c \in Client |-> {}]
    /\ result = [c \in Client |-> << >>]

Invoke(c) ==
    /\ call[c] = {}
    /\ \E o \in call'[c] :
         /\ o.op \in {"Get", "Put", "Append"} /\ o.key \in Key /\ o.value \in Value
         /\ call' = [call EXCEPT ![c] = {[op |-> o.op, key |-> o.key, value |-> o.value, done |-> FALSE,
                                         seen |-> {Get(map, o.key).Value}]}]
    /\ UNCHANGED <<map, result>>

\* The write that c has in progress takes effect.
Effect(c) ==
    \E o \in call[c] :
        /\ o.op # "Get"
        /\ ~o.done
        /\ map' = Perform(map, o.op, o.key, o.value)
        /\ call' = [d \in Client |->
                      {[p EXCEPT !.done = (@ \/ d = c), !.seen = @ \cup {Get(map', p.key).Value}] :
                         p \in call[d]}]
        /\ UNCHANGED result

Return(c) ==
    \E o \in call[c] :
        /\ IF o.op = "Get" THEN result'[c] \in o.seen ELSE o.done
        /\ result' = [result EXCEPT ![c] = result'[c]]
        /\ call' = [call EXCEPT ![c] = {}]
        /\ UNCHANGED map

Next == \E c \in Client : Invoke(c) \/ Effect(c) \/ Return(c)

Spec == Init /\ [][Next]_vars
=============================================================================
