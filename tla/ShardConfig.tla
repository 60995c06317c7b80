---------------------------- MODULE ShardConfig ----------------------------
(***************************************************************************)
(* The configurations of the shard controller, and how JOIN, LEAVE and     *)
(* MOVE make the next one: CopyConfig and ReAllocGID (common.go) and the   *)
(* switch in listenApplyCh (server.go).  Every replica runs this for every *)
(* command of the Raft log, so it is a function of configuration and       *)
(* command: where the code ranges over a map, it sorts the keys first or   *)
(* the order does not matter.                                              *)
(*                                                                         *)
(* The servers of a group play no part and are left out: Groups is the set *)
(* of group ids.                                                           *)
(***************************************************************************)
EXTENDS Integers, Sequences, FiniteSets, FiniteSetsExt, SequencesExt

CONSTANTS NShards,     \* the number of shards
          GID,         \* the ids of replica groups that clients use
          MaxConfigs   \* bound: configurations made after the initial one

ASSUME ShardAssumption ==
    /\ NShards \in Nat \ {0}
    /\ GID \subseteq Nat \ {0}
    /\ IsFiniteSet(GID)
    /\ MaxConfigs \in Nat

VARIABLES config,   \* the last element of sc.configs
          op        \* history: the type of the command that made it

vars == <<config, op>>

Shard == 0 .. NShards - 1

\* Group 0 is the invalid group.
Config == [Num : Nat, Shards : [Shard -> GID \cup {0}], Groups : SUBSET GID]

Init ==
    /\ config = [Num |-> 0, Shards |-> [s \in Shard |-> 0], Groups |-> {}]
    /\ op = "INIT"

CopyConfig(cfg) == [cfg EXCEPT !.Num = @ + 1]

-----------------------------------------------------------------------------
(* ReAllocGID *)

GetGIDWithMinimumShards(g2s) ==
    Min({g \in DOMAIN g2s : \A h \in DOMAIN g2s : Len(g2s[g]) <= Len(g2s[h])})

GetGIDWithMaximumShards(g2s) ==
    Min({g \in DOMAIN g2s : \A h \in DOMAIN g2s : Len(g2s[g]) >= Len(g2s[h])})

give(g2s, g, s) == [g2s EXCEPT ![g] = Append(@, s)]

\* The shards that satisfy P, in ascending order.
ascending(P(_)) == SelectSeq([k \in 1 .. NShards |-> k - 1], P)

\* Each group's shards, in ascending order.
groupToShards(cfg) ==
    [g \in cfg.Groups |-> ascending(LAMBDA s : cfg.Shards[s] = g)]

\* Mutant of allocOrphans: every shard without a group goes to the same group.
allocOrphansToOne(cfg, g2s) ==
    FoldLeft(LAMBDA acc, s : give(acc, GetGIDWithMinimumShards(g2s), s), g2s,
             ascending(LAMBDA s : cfg.Shards[s] \notin cfg.Groups))

\* "for leave": shards whose group is gone go to the smallest group, one by one.
allocOrphans(cfg, g2s) ==
    FoldLeft(LAMBDA acc, s : give(acc, GetGIDWithMinimumShards(acc), s), g2s,
             ascending(LAMBDA s : cfg.Shards[s] \notin cfg.Groups))

\* Mutant of balanced: the groups' sizes may differ by two.
balancedWithinTwo(g2s) ==
    Len(g2s[GetGIDWithMaximumShards(g2s)]) - Len(g2s[GetGIDWithMinimumShards(g2s)]) <= 2

balanced(g2s) ==
    Len(g2s[GetGIDWithMaximumShards(g2s)]) - Len(g2s[GetGIDWithMinimumShards(g2s)]) <= 1

\* "for join": until the groups are balanced, the largest gives its first shard to the
\* smallest.
RECURSIVE rebalance(_)
rebalance(g2s) ==
    LET source == GetGIDWithMaximumShards(g2s)
        target == GetGIDWithMinimumShards(g2s)
    IN  IF balanced(g2s) THEN g2s
        ELSE rebalance([give(g2s, target, Head(g2s[source])) EXCEPT ![source] = Tail(@)])

ReAllocGID(cfg) ==
    IF cfg.Groups = {} THEN [cfg EXCEPT !.Shards = [s \in Shard |-> 0]]
    ELSE LET g2s == rebalance(allocOrphans(cfg, groupToShards(cfg)))
         IN  [cfg EXCEPT !.Shards = [s \in Shard |-> CHOOSE g \in cfg.Groups : Contains(g2s[g], s)]]

-----------------------------------------------------------------------------
(* The commands *)

JOIN(gids) ==
    /\ config.Num < MaxConfigs
    /\ config' = ReAllocGID([CopyConfig(config) EXCEPT !.Groups = @ \cup gids])
    /\ op' = "JOIN"

LEAVE(gids) ==
    /\ config.Num < MaxConfigs
    /\ config' = ReAllocGID([CopyConfig(config) EXCEPT !.Groups = @ \ gids])
    /\ op' = "LEAVE"

\* Neither balanced afterwards nor checked: the group need not have joined.
MOVE(shard, gid) ==
    /\ config.Num < MaxConfigs
    /\ config' = [CopyConfig(config) EXCEPT !.Shards[shard] = gid]
    /\ op' = "MOVE"

Next ==
    \/ \E gids \in (SUBSET GID) \ {{}} : JOIN(gids) \/ LEAVE(gids)
    \/ \E shard \in Shard, gid \in GID : MOVE(shard, gid)

Spec == Init /\ [][Next]_vars
-----------------------------------------------------------------------------
\* Types of the variables: every shard has exactly one owner.
TypeOK == config \in Config /\ op \in {"INIT", "JOIN", "LEAVE", "MOVE"}

shardsOf(cfg, g) == {s \in Shard : cfg.Shards[s] = g}

Balanced(cfg) ==
    \A g, h \in cfg.Groups : Cardinality(shardsOf(cfg, g)) <= Cardinality(shardsOf(cfg, h)) + 1

AllServed(cfg) ==
    IF cfg.Groups = {} THEN \A s \in Shard : cfg.Shards[s] = 0
    ELSE \A s \in Shard : cfg.Shards[s] \in cfg.Groups

(***************************************************************************)
(* After JOIN and LEAVE every shard belongs to a group that is there, or   *)
(* to group 0 when none is, and the groups are as even as can be, whatever *)
(* MOVE did before: what the check function of shardctrler/test_test.go    *)
(* samples.                                                                *)
(***************************************************************************)
EvenAfterReAlloc == op \in {"JOIN", "LEAVE"} => Balanced(config) /\ AllServed(config)

(***************************************************************************)
(* From an even configuration, JOIN only moves shards to groups that are   *)
(* new and LEAVE only those of groups that leave: the tests "Minimal       *)
(* transfers after joins" and "after leaves".                              *)
(***************************************************************************)
MinimalTransfer ==
    [][Balanced(config) /\ AllServed(config) /\ op' # "MOVE" =>
         \A s \in Shard : config'.Shards[s] # config.Shards[s] =>
           \/ config'.Shards[s] \notin config.Groups
           \/ config.Shards[s] \notin config'.Groups]_vars
=============================================================================
