--------------------------- MODULE MCShardCtrler ---------------------------
(***************************************************************************)
(* An instance of ShardCtrler for TLC: one clerk reads while another one   *)
(* changes the configuration, or one clerk does both in turn.              *)
(***************************************************************************)
EXTENDS ShardCtrler, TLC

CONSTANTS c1, c2

TwoClerks == {c1 :> <<"JOIN">> @@ c2 :> <<"QUERY">>}
OneClerk == {c1 :> w @@ c2 :> << >> : w \in {<<"JOIN", "JOIN", "QUERY">>, <<"QUERY", "JOIN", "QUERY">>}}
TestWorkloads == TwoClerks \cup OneClerk
=============================================================================
