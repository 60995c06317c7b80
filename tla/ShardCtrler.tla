---------------------------- MODULE ShardCtrler ----------------------------
(***************************************************************************)
(* The replicated shard controller (shardctrler): clerks that call one     *)
(* server after the other, and servers that apply the log Raft agrees on.  *)
(*                                                                         *)
(* Raft is what ReplicatedLog says it is.  ShardConfig says what a JOIN,   *)
(* LEAVE or MOVE makes of the last configuration; here a configuration is  *)
(* the command that made it, and InitialConfig is configuration 0, which   *)
(* is also what a Config that was never filled in looks like.              *)
(*                                                                         *)
(* listenApplyCh changes sc.configs and reads sc.chans without sc.mu, and  *)
(* a QUERY reads sc.configs without it.  A data race shows as steps of     *)
(* their own: append first makes room for an element, then stores it, word *)
(* by word, and a QUERY that reads it meanwhile may find any of the words. *)
(***************************************************************************)
EXTENDS Integers, Sequences, SequencesExt, FiniteSets

CONSTANTS Client,       \* the clerks
          NServers,     \* the number of servers
          Workloads,    \* bound: the types of command that each clerk issues, one after the other
          QueryNums,    \* bound: the numbers that a QUERY asks for
          MaxFaults     \* bound: attempts that fail and restarts of servers, together

ASSUME CtrlerAssumption == NServers \in Nat \ {0} /\ QueryNums \subseteq Int /\ MaxFaults \in Nat

VARIABLES
    clerk,     \* the clerks, each with its call in progress
    proposed,  \* commands given to Start that are not agreed on yet
    log,       \* the commands agreed on
    agreed,    \* history: the configurations that the log makes
    sc,        \* the servers
    faults     \* how many attempts have failed or servers were restarted

vars == <<clerk, proposed, log, agreed, sc, faults>>

-----------------------------------------------------------------------------
(* State *)

Server == 0 .. NServers - 1

\* JOIN, LEAVE and MOVE go through the same code: they make a configuration.
OpType == {"QUERY", "JOIN"}

\* ServerSeq, drawn at random for each attempt, is client, id and try.
Op == [type : OpType, client : Client, id : Nat, try : Nat]
Seqn(op) == <<op.client, op.id, op.try>>

InitialConfig == <<"initial">>
made(op) == <<op.client, op.id>>
\* Some words of a configuration, and zeros.
torn(config) == <<"torn">> \o config
Config == {InitialConfig} \cup (Client \X Nat) \cup ({"torn"} \X Client \X Nat)

(***************************************************************************)
(* A clerk makes one call at a time and waits for it.  Its call: "request" *)
(* is under way, "checked" has passed the duplicate test, "registered" has *)
(* its channel in chans, "waiting" is in the select, "missed" is there too *)
(* but was not notified, "leaving" has its answer and its channel still to *)
(* delete, "replied" is the reply on its way, "failed" is a call that      *)
(* returned false.  c: the channel is full.                                *)
(***************************************************************************)
Stage == {"idle", "request", "checked", "registered", "waiting", "missed", "leaving", "replied",
          "failed"}
Clerk == [todo : Seq(OpType), commandId : Nat, stage : Stage, server : Server, type : OpType, num : Int,
          try : Nat, c : BOOLEAN, WrongLeader : BOOLEAN, config : Config,
          invokedAt : Nat,   \* history: the number of configurations agreed on at the call
          by : {"apply", "duplicate", "race"}]    \* history: how the answer came about

MakeClerk == [todo |-> << >>, commandId |-> 0, stage |-> "idle", server |-> 0, type |-> "JOIN", num |-> -1, try |-> 0,
              c |-> FALSE, WrongLeader |-> FALSE, config |-> InitialConfig, invokedAt |-> 0,
              by |-> "apply"]

\* latestTime is -1 for a clerk that is not in the map.  The listener is about to take
\* the "next" message, to "fill" the new element, to "mark" the command or to "notify".
StartServer == [configs |-> <<InitialConfig>>, latestTime |-> [c \in Client |-> -1],
                chans |-> {}, applied |-> 0, pc |-> "next"]

Init ==
    /\ \E w \in Workloads : clerk = [c \in Client |-> [MakeClerk EXCEPT !.todo = w[c]]]
    /\ proposed = {}
    /\ log = << >>
    /\ agreed = <<InitialConfig>>
    /\ sc = [s \in Server |-> StartServer]
    /\ faults = 0

\* The message the listener of s works on.
curOp(s) == log[sc[s].applied + 1]

-----------------------------------------------------------------------------
(* The clerk *)

\* Query, Join, Leave and Move, from the first server on.
Call(c, num) ==
    /\ clerk[c].stage = "idle"
    /\ clerk[c].todo # << >>
    /\ Head(clerk[c].todo) # "QUERY" => num = -1
    /\ clerk' = [clerk EXCEPT ![c] = [MakeClerk EXCEPT !.todo = Tail(clerk[c].todo), !.stage = "request",
                                                       !.commandId = clerk[c].commandId,
                                                       !.type = Head(clerk[c].todo), !.num = num,
                                                       !.try = 1, !.invokedAt = Len(agreed)]]
    /\ UNCHANGED <<proposed, log, agreed, sc, faults>>

accepted(r) == r.stage = "replied" /\ ~r.WrongLeader

Return(c) ==
    /\ clerk[c].stage \in {"replied", "failed"}
    /\ accepted(clerk[c])
    /\ clerk' = [clerk EXCEPT ![c].stage = "idle", ![c].commandId = @ + 1,
                              ![c].server = 0, ![c].c = FALSE]
    /\ UNCHANGED <<proposed, log, agreed, sc, faults>>

nextServer(server) == (server + 1) % NServers

\* On to the next server, after the last one from the first again.
Retry(c) ==
    /\ clerk[c].stage \in {"replied", "failed"}
    /\ ~accepted(clerk[c])
    /\ clerk' = [clerk EXCEPT ![c].stage = "request", ![c].try = @ + 1, ![c].c = FALSE,
                              ![c].WrongLeader = FALSE, ![c].server = nextServer(@), ![c].by = "apply"]
    /\ UNCHANGED <<proposed, log, agreed, sc, faults>>

\* An attempt fails, or a server.
Fault == faults < MaxFaults /\ faults' = faults + 1

\* The network loses the request or the reply: Call returns false.
Lose(c) ==
    /\ clerk[c].stage \in {"request", "replied"}
    /\ Fault
    /\ clerk' = [clerk EXCEPT ![c].stage = "failed", ![c].config = InitialConfig]
    /\ UNCHANGED <<proposed, log, agreed, sc>>

-----------------------------------------------------------------------------
(* The handler ShardCtrler.Command *)

\* Mutant of dupCommand: a clerk that is not in the map has latestTime 0.
dupCommandZero(latestTime, id, c) == id <= IF latestTime[c] = -1 THEN 0 ELSE latestTime[c]

dupCommand(latestTime, id, c) == id <= latestTime[c]

\* A duplicate is answered with an empty reply.
Check(c) ==
    LET r == clerk[c] IN
    /\ r.stage = "request"
    /\ clerk' = IF dupCommand(sc[r.server].latestTime, r.commandId, c)
                THEN [clerk EXCEPT ![c].stage = "replied", ![c].by = "duplicate"]
                ELSE [clerk EXCEPT ![c].stage = "checked"]
    /\ UNCHANGED <<proposed, log, agreed, sc, faults>>

opOf(c) == [type |-> clerk[c].type, client |-> c, id |-> clerk[c].commandId, try |-> clerk[c].try]

\* Mutant of Register: the channel is made but not entered in chans.
RegisterNothing(c) ==
    /\ clerk[c].stage = "checked"
    /\ clerk' = [clerk EXCEPT ![c].stage = "registered"]
    /\ UNCHANGED <<proposed, log, agreed, sc, faults>>

Register(c) ==
    /\ clerk[c].stage = "checked"
    /\ sc' = [sc EXCEPT ![clerk[c].server].chans = @ \cup {Seqn(opOf(c))}]
    /\ clerk' = [clerk EXCEPT ![c].stage = "registered"]
    /\ UNCHANGED <<proposed, log, agreed, faults>>

\* rf.Start on a server that takes itself for the leader, or does not.
Start(c) ==
    /\ clerk[c].stage = "registered"
    /\ \/ /\ proposed' = proposed \cup {opOf(c)}
          /\ clerk' = [clerk EXCEPT ![c].stage = "waiting"]
          /\ UNCHANGED faults
       \/ /\ Fault
          /\ clerk' = [clerk EXCEPT ![c].stage = "leaving", ![c].WrongLeader = TRUE]
          /\ UNCHANGED proposed
    /\ UNCHANGED <<log, agreed, sc>>

\* The timer of TIMEOUT milliseconds.  It is a fault when the command is still to come: with
\* enough time the answer would have been there.
Timeout(c) ==
    /\ \/ clerk[c].stage = "waiting" /\ Fault
       \/ clerk[c].stage = "missed" /\ UNCHANGED faults
    /\ clerk' = [clerk EXCEPT ![c].stage = "leaving", ![c].WrongLeader = TRUE]
    /\ UNCHANGED <<proposed, log, agreed, sc>>

\* Mutant of res_idx: the latest configuration is one off.
res_idxPrevious(configs, num) ==
    IF num = -1 \/ num >= Len(configs) THEN IF Len(configs) = 1 THEN 1 ELSE Len(configs) - 1
    ELSE num + 1

\* Positions in a sequence count from 1.
res_idx(configs, num) == IF num = -1 \/ num >= Len(configs) THEN Len(configs) ELSE num + 1

\* The element at k is being stored.
filling(s, k) == sc[s].pc = "fill" /\ k = Len(sc[s].configs)

\* What sc.configs[res_idx] may read, without sc.mu.
readable(s, k) ==
    IF filling(s, k) THEN {InitialConfig, torn(made(curOp(s))), made(curOp(s))} ELSE {sc[s].configs[k]}

\* <-rec_chan.  A QUERY reads sc.configs as it is now.
Wakeup(c) ==
    LET r == clerk[c]
        k == res_idx(sc[r.server].configs, r.num)
    IN  /\ r.stage = "waiting"
        /\ r.c
        /\ \/ /\ r.type = "QUERY"
              /\ \E config \in readable(r.server, k) :
                   clerk' = [clerk EXCEPT ![c].stage = "leaving", ![c].config = config,
                                          ![c].by = IF filling(r.server, k) THEN "race" ELSE @]
           \/ r.type # "QUERY" /\ clerk' = [clerk EXCEPT ![c].stage = "leaving"]
        /\ UNCHANGED <<proposed, log, agreed, sc, faults>>

Leave(c) ==
    /\ clerk[c].stage = "leaving"
    /\ sc' = [sc EXCEPT ![clerk[c].server].chans = @ \ {Seqn(opOf(c))}]
    /\ clerk' = [clerk EXCEPT ![c].stage = "replied"]
    /\ UNCHANGED <<proposed, log, agreed, faults>>

-----------------------------------------------------------------------------
(* Raft, and listenApplyCh *)

\* Raft agrees on a command.
Commit(op) ==
    /\ proposed' = proposed \ {op}
    /\ log' = Append(log, op)
    /\ agreed' = IF op.type = "JOIN" /\ ~Contains(agreed, made(op)) THEN Append(agreed, made(op)) ELSE agreed
    /\ UNCHANGED <<clerk, sc, faults>>

\* Take a message.  append(sc.configs, new_config) makes the slice longer.
Take(s) ==
    LET dup == dupCommand(sc[s].latestTime, curOp(s).id, curOp(s).client) IN
    /\ sc[s].pc = "next"
    /\ sc[s].applied < Len(log)
    /\ sc' = IF dup THEN [sc EXCEPT ![s].pc = "notify"]
             ELSE IF curOp(s).type = "QUERY" THEN [sc EXCEPT ![s].pc = "mark"]
             ELSE [sc EXCEPT ![s].pc = "fill", ![s].configs = Append(@, InitialConfig)]
    /\ UNCHANGED <<clerk, proposed, log, agreed, faults>>

\* ... and stores the element: Wakeup says what is read before it has.
Fill(s) ==
    /\ sc[s].pc = "fill"
    /\ sc' = [sc EXCEPT ![s].pc = "mark",
                        ![s].configs[Len(sc[s].configs)] = made(curOp(s))]
    /\ UNCHANGED <<clerk, proposed, log, agreed, faults>>

\* Mutant of Mark: only commands that make a configuration are remembered.
MarkNothing(s) ==
    /\ sc[s].pc = "mark"
    /\ sc' = [sc EXCEPT ![s].pc = "notify"]
    /\ UNCHANGED <<clerk, proposed, log, agreed, faults>>

Mark(s) ==
    /\ sc[s].pc = "mark"
    /\ sc' = [sc EXCEPT ![s].pc = "notify", ![s].latestTime[curOp(s).client] = curOp(s).id]
    /\ UNCHANGED <<clerk, proposed, log, agreed, faults>>

\* The handlers whose channel the listener of s finds.
listening(s) == {c \in Client : /\ clerk[c].stage \in {"registered", "waiting", "missed", "leaving"}
                                /\ clerk[c].server = s
                                /\ Seqn(opOf(c)) = Seqn(curOp(s))
                                /\ Seqn(curOp(s)) \in sc[s].chans}

\* c <- true has to wait: the buffer of 1 is full.
blocks(r) == r.c

\* GetState says that s leads in the entry's term, or not: then a handler waits in vain.
Notify(s) ==
    /\ sc[s].pc = "notify"
    /\ sc' = [sc EXCEPT ![s].pc = "next", ![s].applied = @ + 1]
    /\ \/ /\ \A c \in listening(s) : ~blocks(clerk[c])
          /\ clerk' = [c \in Client |-> IF c \in listening(s) THEN [clerk[c] EXCEPT !.c = TRUE] ELSE clerk[c]]
          /\ UNCHANGED faults
       \/ /\ listening(s) # {}
          /\ Fault
          /\ clerk' = [c \in Client |-> IF c \in listening(s) /\ clerk[c].stage = "waiting"
                                        THEN [clerk[c] EXCEPT !.stage = "missed"]
                                        ELSE clerk[c]]
    /\ UNCHANGED <<proposed, log, agreed>>

\* A server is shut down and started again.  It has no snapshot: the log is replayed.
Restart(s) ==
    /\ Fault
    /\ sc' = [sc EXCEPT ![s] = StartServer]
    /\ clerk' = [c \in Client |->
                   IF clerk[c].server = s /\ clerk[c].stage \notin {"idle", "request", "replied", "failed"}
                   THEN [clerk[c] EXCEPT !.stage = "failed", !.config = InitialConfig] ELSE clerk[c]]
    /\ UNCHANGED <<proposed, log, agreed>>

-----------------------------------------------------------------------------
Next ==
    \/ \E c \in Client :
         \/ \E num \in {-1} \cup QueryNums : Call(c, num)
         \/ Return(c) \/ Retry(c) \/ Lose(c)
         \/ Check(c) \/ Register(c) \/ Start(c) \/ Timeout(c) \/ Wakeup(c) \/ Leave(c)
    \/ \E op \in proposed : Commit(op)
    \/ \E s \in Server : Take(s) \/ Fill(s) \/ Mark(s) \/ Notify(s) \/ Restart(s)

Spec == Init /\ [][Next]_vars

(***************************************************************************)
(* Handlers and listeners keep running, and Raft agrees on what a leader   *)
(* proposes.  Attempts fail, for want of a leader or of a connection, only *)
(* MaxFaults times; a clerk need not issue a command.                      *)
(***************************************************************************)
Fairness ==
    /\ \A c \in Client : WF_vars(Return(c) \/ Retry(c) \/ Check(c) \/ Register(c) \/ Start(c)
                                 \/ Timeout(c) \/ Wakeup(c) \/ Leave(c))
    /\ WF_vars(\E op \in proposed : Commit(op))
    /\ \A s \in Server : WF_vars(Take(s) \/ Fill(s) \/ Mark(s) \/ Notify(s))

FairSpec == Spec /\ Fairness
-----------------------------------------------------------------------------
\* Types of the variables.
TypeOK ==
    /\ clerk \in [Client -> Clerk]
    /\ proposed \subseteq Op
    /\ log \in Seq(Op)
    /\ agreed \in Seq(Config)
    /\ \A s \in Server :
         /\ sc[s].configs \in Seq(Config)
         /\ sc[s].latestTime \in [Client -> Nat \cup {-1}]
         /\ sc[s].chans \subseteq Client \X Nat \X Nat
         /\ sc[s].applied \in 0 .. Len(log)
         /\ sc[s].pc \in {"next", "fill", "mark", "notify"}
    /\ faults \in 0 .. MaxFaults

\* The configurations of s that are filled in.
filled(s) == IF sc[s].pc = "fill" THEN Front(sc[s].configs) ELSE sc[s].configs

(***************************************************************************)
(* Every server has the same configurations, numbered alike: those that    *)
(* the agreed log makes, one for each JOIN, LEAVE or MOVE, although a      *)
(* command may be agreed on twice and a restarted server begins again.     *)
(***************************************************************************)
ConfigsFollowLog == \A s \in Server : IsPrefix(filled(s), agreed)

\* c has issued a command, and the last one has returned.
answered(c) == clerk[c].stage = "idle" /\ clerk[c].commandId > 0

(***************************************************************************)
(* When Join, Leave or Move returns, its configuration is agreed on, and   *)
(* it was agreed on after the call: also if the answer came from the test  *)
(* for duplicates.                                                         *)
(***************************************************************************)
JoinReturnsDone ==
    \A c \in Client : answered(c) /\ clerk[c].type = "JOIN" =>
        \E k \in clerk[c].invokedAt + 1 .. Len(agreed) : agreed[k] = <<c, clerk[c].commandId - 1>>

\* The configuration that r was given is the one with the number it asked for, or was
\* the latest at some moment since the call.
fresh(r) ==
    IF r.num \in 0 .. r.invokedAt - 1 THEN r.config = agreed[r.num + 1]
    ELSE \E k \in r.invokedAt .. Len(agreed) : r.config = agreed[k]

(***************************************************************************)
(* "Query(num) -> fetch Config # num, or latest config if num==-1"         *)
(* (common.go), whichever server answered and whatever was lost or         *)
(* restarted, but for two cases.  A Query that was sent again after an     *)
(* attempt had been applied is taken for a duplicate: it returns           *)
(* configuration 0.  And one that reads the element that listenApplyCh is  *)
(* just storing, of a later call, may find zeros or only some of the       *)
(* words.  No other Query returns configuration 0 in place of another one, *)
(* and none returns an old configuration.                                  *)
(***************************************************************************)
QueryFresh ==
    \A c \in Client : answered(c) /\ clerk[c].type = "QUERY" =>
        LET r == clerk[c] IN
        \/ fresh(r)
        \/ r.by = "duplicate" /\ r.try > 1 /\ r.config = InitialConfig
        \/ r.by = "race" /\ \E k \in r.invokedAt + 1 .. Len(agreed) : r.config \in {InitialConfig, torn(agreed[k])}

(***************************************************************************)
(* Every command returns once attempts no longer fail: the wakeup of a     *)
(* handler is never lost, because its channel is in chans before its       *)
(* command can be in the log.                                              *)
(***************************************************************************)
CommandReturns == \A c \in Client : clerk[c].stage # "idle" ~> clerk[c].stage = "idle"
=============================================================================
