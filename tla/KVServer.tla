------------------------------ MODULE KVServer ------------------------------
(***************************************************************************)
(* The replicated key/value service (kvraft): clerks that try one server   *)
(* after the other until one answers, and servers that apply the log Raft  *)
(* agrees on.                                                              *)
(*                                                                         *)
(* Raft is what ReplicatedLog says it is: `log' is the agreed log, server  *)
(* s has applied its first kv[s].applied commands, and a command given to  *)
(* Start by a server that takes itself for the leader may be agreed on     *)
(* later, in any order, or never.  The network loses and delays calls but  *)
(* does not run one twice.  A clerk may give up an attempt at any time;    *)
(* the attempt goes on without it.                                         *)
(***************************************************************************)
EXTENDS Integers, Sequences, FiniteSets, SequencesExt, MemoryKV

CONSTANTS Client,       \* the clerks
          NServers,     \* the number of servers
          Key,
          MaxRetries,   \* bound: further attempts, of all clerks together
          Tests         \* bound: the numbers of commands and restarts, with the settings to try

ASSUME KVAssumption ==
    /\ NServers \in Nat \ {0}
    /\ Key # {}
    /\ MaxRetries \in Nat
    /\ Tests \subseteq [commands : [Client -> Nat], compacts : BOOLEAN, restarts : Nat]

VARIABLES
    clerk,     \* the clerks
    calls,     \* attempts: requests under way, handlers running, replies under way
    proposed,  \* commands given to Start that are not agreed on yet
    log,       \* the commands agreed on
    agreed,    \* history: agreed[n + 1] is the state after the first n of them
    kv,        \* the servers
    snapshot,  \* snapshot[s]: the snapshot that s has persisted
    faults,    \* how often a clerk has tried again and a server was restarted
    test       \* the test that is run; compacts: maxraftstate # -1, servers take snapshots

vars == <<clerk, calls, proposed, log, agreed, kv, snapshot, faults, test>>

-----------------------------------------------------------------------------
(* State *)

Server == 0 .. NServers - 1

Task == {"Get", "Put", "Append"}

\* Every command writes a value of its own.
Value == Client \X Nat

\* ClientId, CommandId, OpTask, Key; the value written is <<client, id>>.  `try' tells
\* the attempts at a command apart.
CommandArgs == [client : Client, id : Nat, op : Task, key : Key, try : Nat]

\* Mutant of Seqn: the wait channel is found by the command and not by the attempt.
SeqOfCommand(a) == [client |-> a.client, id |-> a.id]

\* op.Seq = nrand(): never drawn twice.
Seqn(a) == [client |-> a.client, id |-> a.id, try |-> a.try]

\* A clerk, with its command in progress.  invokedAt is history: the length of the log
\* when the command was issued.
Clerk == [commandId : Nat, leaderId : Server, busy : BOOLEAN, op : Task, key : Key, try : Nat,
          invokedAt : Nat, result : Seq(Value)]

\* An attempt.  "request" is on its way, "checked" has passed the duplicate test, "waiting"
\* is in the select, "expired" has returned an error and has its channel still to delete,
\* "replied" is a reply with a value on its way.  c says whether its channel is full.
Call == [args : CommandArgs, server : Server,
         stage : {"request", "checked", "waiting", "expired", "replied"},
         c : BOOLEAN, value : Seq(Value)]

\* latestTime is -1 for a clerk that is not in the map.
MakeClerk == [commandId |-> 0, leaderId |-> 0, busy |-> FALSE, op |-> "Get",
              key |-> CHOOSE k \in Key : TRUE, try |-> 0, invokedAt |-> 0, result |-> << >>]
newState == [storage |-> NewMemoryKV, latestTime |-> [c \in Client |-> -1], applied |-> 0]

\* StartKVServer, from what is persisted.
StartKVServer(state) == [storage |-> state.storage, latestTime |-> state.latestTime,
                         applied |-> state.applied, waitChannel |-> {}]

Init ==
    /\ clerk = [c \in Client |-> MakeClerk]
    /\ calls = {}
    /\ proposed = {}
    /\ log = << >>
    /\ agreed = <<newState>>
    /\ snapshot = [s \in Server |-> newState]
    /\ kv = [s \in Server |-> StartKVServer(newState)]
    /\ faults = [retries |-> 0, restarts |-> 0]
    /\ test \in Tests

-----------------------------------------------------------------------------
(* The clerk *)

request(c, r) == [args |-> [client |-> c, id |-> r.commandId, op |-> r.op, key |-> r.key, try |-> r.try],
                  server |-> r.leaderId, stage |-> "request", c |-> FALSE, value |-> << >>]

\* The attempt a clerk waits for; other replies go to channels nobody reads.
current(c, call) == /\ clerk[c].busy
                    /\ call.args.client = c
                    /\ call.args.id = clerk[c].commandId
                    /\ call.args.try = clerk[c].try

\* Get, Put and Append: the first attempt of a command.
Command(c, op, key) ==
    LET r == [clerk[c] EXCEPT !.busy = TRUE, !.op = op, !.key = key, !.try = 1, !.invokedAt = Len(log)]
    IN  /\ ~clerk[c].busy
        /\ clerk[c].commandId < test.commands[c]
        /\ clerk' = [clerk EXCEPT ![c] = r]
        /\ calls' = calls \cup {request(c, r)}
        /\ UNCHANGED <<proposed, log, agreed, kv, snapshot, faults, test>>

nextServer(id) == (id + 1) % NServers

\* No reply in time, an error, or a call that failed: on to the next server.
Retry(c) ==
    LET r == [clerk[c] EXCEPT !.try = @ + 1, !.leaderId = nextServer(@)]
    IN  /\ clerk[c].busy
        /\ faults.retries < MaxRetries
        /\ faults' = [faults EXCEPT !.retries = @ + 1]
        /\ clerk' = [clerk EXCEPT ![c] = r]
        /\ calls' = {call \in calls : ~(current(c, call) /\ call.stage = "replied")} \cup {request(c, r)}
        /\ UNCHANGED <<proposed, log, agreed, kv, snapshot, test>>

\* A reply OK or ErrNoKey.  Put and Append ignore the value.
Accept(c, call) ==
    /\ current(c, call)
    /\ call.stage = "replied"
    /\ clerk' = [clerk EXCEPT ![c].busy = FALSE, ![c].commandId = @ + 1,
                              ![c].result = IF clerk[c].op = "Get" THEN call.value ELSE << >>]
    /\ calls' = calls \ {call}
    /\ UNCHANGED <<proposed, log, agreed, kv, snapshot, faults, test>>

-----------------------------------------------------------------------------
(* The handler KVServer.Command *)

dupCommand(state, id, client) == id <= state.latestTime[client]

\* The attempt goes on as `next', or is over.  A reply that nobody waits for is dropped.
advance(call, next) ==
    calls' = (calls \ {call}) \cup
             {n \in next : n.stage = "replied" => current(n.args.client, n)}

reply(call, value) == {[call EXCEPT !.stage = "replied", !.c = FALSE, !.value = value]}

\* The first critical section: a duplicate is answered at once, from the storage.
Check(call) ==
    LET s == call.server  a == call.args IN
    /\ call.stage = "request"
    /\ IF dupCommand(kv[s], a.id, a.client)
       THEN /\ advance(call, reply(call, Get(kv[s].storage, a.key).Value))
            /\ UNCHANGED kv
       ELSE /\ advance(call, {[call EXCEPT !.stage = "checked"]})
            /\ kv' = [kv EXCEPT ![s].waitChannel = @ \cup {Seqn(a)}]
    /\ UNCHANGED <<clerk, proposed, log, agreed, snapshot, faults, test>>

\* rf.Start, on a server that takes itself for the leader or does not.
Start(call, isLeader) ==
    /\ call.stage = "checked"
    /\ advance(call, {[call EXCEPT !.stage = IF isLeader THEN "waiting" ELSE "expired"]})
    /\ proposed' = IF isLeader THEN proposed \cup {call.args} ELSE proposed
    /\ UNCHANGED <<clerk, log, agreed, kv, snapshot, faults, test>>

\* The 99 ms are over: ErrTimeout, and the channel is deleted by a goroutine.
Timeout(call) ==
    /\ call.stage = "waiting"
    /\ advance(call, {[call EXCEPT !.stage = "expired"]})
    /\ UNCHANGED <<clerk, proposed, log, agreed, kv, snapshot, faults, test>>

\* Mutant of deleteWaitChannelL: nothing is deleted.
keepWaitChannel(call) ==
    /\ call.stage = "expired"
    /\ advance(call, {})
    /\ UNCHANGED <<clerk, proposed, log, agreed, kv, snapshot, faults, test>>

deleteWaitChannelL(call) ==
    /\ call.stage = "expired"
    /\ advance(call, {})
    /\ kv' = [kv EXCEPT ![call.server].waitChannel = @ \ {Seqn(call.args)}]
    /\ UNCHANGED <<clerk, proposed, log, agreed, snapshot, faults, test>>

\* <-c: the command is applied; a Get reads the storage, whatever was applied since.
Wakeup(call) ==
    LET s == call.server  a == call.args IN
    /\ call.stage = "waiting"
    /\ call.c
    /\ advance(call, reply(call, IF a.op = "Get" THEN Get(kv[s].storage, a.key).Value ELSE << >>))
    /\ kv' = [kv EXCEPT ![s].waitChannel = @ \ {Seqn(a)}]
    /\ UNCHANGED <<clerk, proposed, log, agreed, snapshot, faults, test>>

-----------------------------------------------------------------------------
(* Raft, and listenApplyCh *)

\* Mutant of applyOp: duplicates are found by the handler only.
applyOpAlways(state, a) ==
    [state EXCEPT !.applied = @ + 1, !.latestTime[a.client] = a.id,
                  !.storage = Perform(@, a.op, a.key, <<a.client, a.id>>)]

applyOp(state, a) ==
    IF dupCommand(state, a.id, a.client) THEN [state EXCEPT !.applied = @ + 1]
    ELSE [state EXCEPT !.applied = @ + 1, !.latestTime[a.client] = a.id,
                       !.storage = Perform(@, a.op, a.key, <<a.client, a.id>>)]

\* Raft agrees on a command.
Commit(a) ==
    /\ a \in proposed
    /\ log' = Append(log, a)
    /\ agreed' = Append(agreed, applyOp(Last(agreed), a))
    /\ proposed' = proposed \ {a}
    /\ UNCHANGED <<clerk, calls, kv, snapshot, faults, test>>

\* The handlers to notify: the channel found under the command's Seq.
listening(s, a) == {call \in calls : /\ call.server = s
                                     /\ Seqn(call.args) = Seqn(a)
                                     /\ call.stage \in {"checked", "waiting", "expired"}
                                     /\ Seqn(a) \in kv[s].waitChannel}

\* Mutant of saveState: the table of duplicates is not saved.
saveStorage(s) == [newState EXCEPT !.storage = kv'[s].storage, !.applied = kv'[s].applied]

saveState(s) == [storage |-> kv'[s].storage, latestTime |-> kv'[s].latestTime,
                 applied |-> kv'[s].applied]

\* One command from applyCh.  leads: GetState says that this server leads in the term of
\* the entry.  c <- true blocks, with kv.mu held, while the channel is full.
ApplyCommand(s, leads, needSnapShot) ==
    LET a      == log[kv[s].applied + 1]
        notify == IF leads THEN listening(s, a) ELSE {}
    IN  /\ kv[s].applied < Len(log)
        /\ \A call \in notify : ~call.c
        /\ kv' = [kv EXCEPT ![s] = applyOp(@, a)]
        /\ calls' = (calls \ notify) \cup {[call EXCEPT !.c = TRUE] : call \in notify}
        /\ snapshot' = IF needSnapShot THEN [snapshot EXCEPT ![s] = saveState(s)] ELSE snapshot
        /\ UNCHANGED <<clerk, proposed, log, agreed, faults, test>>

\* A snapshot of another server comes through applyCh.
installSnapshot(s, from) ==
    /\ snapshot[from].applied > kv[s].applied
    /\ snapshot' = [snapshot EXCEPT ![s] = snapshot[from]]
    /\ kv' = [kv EXCEPT ![s] = [StartKVServer(snapshot[from]) EXCEPT !.waitChannel = kv[s].waitChannel]]
    /\ UNCHANGED <<clerk, calls, proposed, log, agreed, faults, test>>

\* Kill and StartKVServer: the handlers that run are lost.
Restart(s) ==
    /\ faults.restarts < test.restarts
    /\ faults' = [faults EXCEPT !.restarts = @ + 1]
    /\ kv' = [kv EXCEPT ![s] = StartKVServer(snapshot[s])]
    /\ calls' = {call \in calls : call.server = s => call.stage \in {"request", "replied"}}
    /\ UNCHANGED <<clerk, proposed, log, agreed, snapshot, test>>

-----------------------------------------------------------------------------
Next ==
    \/ \E c \in Client :
         \/ \E op \in Task, key \in Key : Command(c, op, key)
         \/ Retry(c)
         \/ \E call \in calls : Accept(c, call)
    \/ \E call \in calls :
         \/ Check(call)
         \/ \E isLeader \in BOOLEAN : Start(call, isLeader)
         \/ Timeout(call) \/ deleteWaitChannelL(call) \/ Wakeup(call)
    \/ \E a \in proposed : Commit(a)
    \/ \E s \in Server :
         \/ \E leads \in BOOLEAN, needSnapShot \in {FALSE, test.compacts} : ApplyCommand(s, leads, needSnapShot)
         \/ \E from \in Server : installSnapshot(s, from)
         \/ Restart(s)

Spec == Init /\ [][Next]_vars
-----------------------------------------------------------------------------
\* Types of the variables.
TypeOK ==
    /\ clerk \in [Client -> Clerk]
    /\ calls \subseteq Call
    /\ proposed \subseteq CommandArgs
    /\ log \in Seq(CommandArgs) /\ Len(agreed) = Len(log) + 1
    /\ \A s \in Server :
         /\ kv[s].latestTime \in [Client -> Nat \cup {-1}]
         /\ kv[s].applied \in 0 .. Len(log)
         /\ kv[s].waitChannel \subseteq [client : Client, id : Nat, try : Nat]
         /\ snapshot[s].applied \in 0 .. kv[s].applied
    /\ faults \in [retries : 0 .. MaxRetries, restarts : 0 .. test.restarts]

(***************************************************************************)
(* A server's map and its table of duplicates are those of the commands it *)
(* has applied, each counted once: retries that are agreed on twice,       *)
(* snapshots taken, installed and loaded after a restart change nothing.   *)
(***************************************************************************)
ServerHoldsPrefix ==
    \A s \in Server : LET state == agreed[kv[s].applied + 1]
                      IN  kv[s].storage = state.storage /\ kv[s].latestTime = state.latestTime

(***************************************************************************)
(* listenApplyCh never blocks in c <- true, where it holds kv.mu and the   *)
(* handler that would empty the channel needs it.                          *)
(***************************************************************************)
NotifyNeverBlocks ==
    \A s \in Server : kv[s].applied < Len(log) =>
        \A call \in listening(s, log[kv[s].applied + 1]) : ~call.c

(***************************************************************************)
(* A channel in waitChannel belongs to a handler that is still running, or *)
(* to the goroutine that deletes it: the map does not grow with timeouts.  *)
(***************************************************************************)
NoChannelLeaks ==
    \A s \in Server : kv[s].waitChannel \subseteq
        {Seqn(call.args) : call \in {d \in calls : d.server = s /\ d.stage \in {"checked", "waiting", "expired"}}}

(***************************************************************************)
(* The service is linearizable: it implements AtomicMap.  A write takes    *)
(* effect when Raft first agrees on it, a Get returns what its key held    *)
(* after some prefix of the log that is no shorter than the log was when   *)
(* the clerk issued it.                                                    *)
(***************************************************************************)
callInProgress(c) ==
    LET r == clerk[c] IN
    IF ~r.busy THEN {}
    ELSE {[op |-> r.op, key |-> r.key, value |-> <<c, r.commandId>>,
           done |-> r.op # "Get" /\ \E k \in DOMAIN log : log[k].client = c /\ log[k].id = r.commandId,
           seen |-> {Get(agreed[n].storage, r.key).Value : n \in r.invokedAt + 1 .. Len(agreed)}]}

Atomic == INSTANCE AtomicMap WITH
    map <- Last(agreed).storage,
    call <- [c \in Client |-> callInProgress(c)],
    result <- [c \in Client |-> clerk[c].result]

Linearizable == Atomic!Spec
=============================================================================
