---------------------------- MODULE MCPorcupine ----------------------------
(***************************************************************************)
(* An instance of Porcupine for TLC: one search over many histories, two   *)
(* searches that may time out, which includes that they do not, and        *)
(* shorter histories, also the empty one, with every option.               *)
(***************************************************************************)
EXTENDS Porcupine

Deep == [lengths |-> {3}, keys |-> {1}, writes |-> {"put", "append"}, time |-> 3, read |-> 2,
         options |-> {[computeInfo |-> TRUE, timeout |-> FALSE]}]
Parallel == [lengths |-> {3}, keys |-> {1, 2}, writes |-> {"put"}, time |-> 2, read |-> 1,
             options |-> [computeInfo : BOOLEAN, timeout : {TRUE}]]
Short == [lengths |-> {0, 2}, keys |-> {1, 2}, writes |-> {"put", "append"}, time |-> 2, read |-> 2,
          options |-> [computeInfo : BOOLEAN, timeout : BOOLEAN]]
AllInputs == {Deep, Parallel, Short}
=============================================================================
