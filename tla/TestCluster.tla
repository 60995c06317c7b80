---------------------------- MODULE TestCluster ----------------------------
(***************************************************************************)
(* The cluster under test of kvraft (config.go, as in shardctrler): its    *)
(* servers and one clerk on the network of labrpc, the operations by which *)
(* a test shuts servers down, restarts them and cuts connections, and the  *)
(* Persister that is handed from one instance of a server to the next.     *)
(*                                                                         *)
(* A call stands for a request whose handler persists something.  A step   *)
(* of an operation is what it does to the network or to cfg.saved; a loop  *)
(* of Enable calls is one step, since a call looks at one end only.        *)
(***************************************************************************)
EXTENDS Naturals, Sequences, FiniteSets, SequencesExt

CONSTANTS
    N,              \* number of servers, odd
    Calls,          \* identities of calls
    MaxInstances,   \* bound on the instances of a server
    MaxReplaced,    \* bound on the servers that are shut down at one time or another
    Nil

VARIABLES
    net, call,      \* as in LabRPC
    endnames,       \* the instance whose ends are in cfg.endnames
    saved,          \* cfg.saved: what the Persister holds, and the instance that writes to it
    op              \* what the test does: a server, and the steps to go

vars == <<net, call, endnames, saved, op>>
harness == <<endnames, saved, op>>

Server == 0 .. N - 1
All == Server

\* The end of instance k of server i to server j, and the clerk's to server j.
peerEnd(i, k, j) == <<i, k, j>>
clerkEnd(j) == <<N, 0, j>>
End == {peerEnd(i, k, j) : i \in Server, k \in 1 .. MaxInstances, j \in Server}
        \cup {clerkEnd(j) : j \in Server}

Net == INSTANCE LabRPC

Persister == [content : SUBSET Calls, writer : 0 .. MaxInstances]
Copy(p) == [p EXCEPT !.writer = 0]

idle == [server |-> Nil, steps |-> << >>]

\* make_config, and makeClient with every server.
Init ==
    /\ net = [Net!MakeNetwork EXCEPT
                !.ends = {e \in End : e[2] <= 1},
                !.enabled = [e \in End |-> e[2] <= 1],
                !.connections = [e \in End |-> IF e[2] <= 1 THEN e[3] ELSE Nil],
                !.servers = [s \in Server |-> 1], !.made = [s \in Server |-> 1]]
    /\ call = [c \in Calls |-> Net!noCall]
    /\ endnames = [s \in Server |-> 1]
    /\ saved = [s \in Server |-> [content |-> {}, writer |-> 1]]
    /\ op = idle

-----------------------------------------------------------------------------
(* Connections. *)

enable(on, off) ==
    /\ net' = [net EXCEPT !.enabled = [e \in End |-> e \in on \/ (@[e] /\ e \notin off)]]
    /\ UNCHANGED <<call, endnames, saved, op>>

connectUnlocked(i, to) ==
    {peerEnd(i, endnames[i], j) : j \in to} \cup {peerEnd(j, endnames[j], i) : j \in to}

disconnectUnlocked(i, from) ==
    {peerEnd(i, endnames[i], j) : j \in from} \cup {peerEnd(j, endnames[j], i) : j \in from}

ConnectAll == enable(UNION {connectUnlocked(i, All) : i \in Server}, {})

partition(p1, p2) ==
    enable(UNION {connectUnlocked(i, p1) : i \in p1} \cup UNION {connectUnlocked(i, p2) : i \in p2},
           UNION {disconnectUnlocked(i, p2) : i \in p1})

\* The servers but l in order, the first n/2+1 of them in p1; l comes last in p2.
make_partition(l) ==
    LET others == SelectSeq([i \in 1 .. N |-> i - 1], LAMBDA i : i # l)
        p1 == ToSet(SubSeq(others, 1, N \div 2 + 1))
        p2 == ToSet(SubSeq(others, N \div 2 + 2, Len(others)))
    IN  <<p1, p2 \cup {l}>>

Partition(l) == partition(make_partition(l)[1], make_partition(l)[2])

ConnectClient(to) == enable({clerkEnd(j) : j \in to}, {})

DisconnectClient(from) == enable({}, {clerkEnd(j) : j \in from})

-----------------------------------------------------------------------------
(* Shutdown and restart. *)

\* Mutant of shutdownSteps: the server is deleted after the copy is made.
shutdownCopyFirst == <<"disconnect", "copy", "delete">>

\* Mutant of shutdownSteps: the ends of the server stay enabled.
shutdownConnected == <<"delete", "copy">>

shutdownSteps == <<"disconnect", "delete", "copy">>

startSteps == <<"ends", "persister", "add">>

ShutdownServer(s) ==
    /\ op = idle /\ net.servers[s] # 0
    /\ Cardinality({t \in Server \ {s} : net.servers[t] # 1}) < MaxReplaced
    /\ op' = [server |-> s, steps |-> shutdownSteps]
    /\ UNCHANGED <<net, call, endnames, saved>>

StartServer(s) ==
    /\ op = idle /\ net.servers[s] = 0 /\ net.made[s] < MaxInstances
    /\ op' = [server |-> s, steps |-> startSteps]
    /\ UNCHANGED <<net, call, endnames, saved>>

step(name) ==
    /\ op.steps # << >> /\ Head(op.steps) = name
    /\ op' = IF Len(op.steps) = 1 THEN idle ELSE [op EXCEPT !.steps = Tail(@)]

Disconnect ==
    /\ step("disconnect")
    /\ net' = [net EXCEPT !.enabled =
                [e \in End |-> @[e] /\ e \notin disconnectUnlocked(op.server, All)]]
    /\ UNCHANGED <<call, endnames, saved>>

DeleteServer ==
    /\ step("delete") /\ Net!DeleteServer(op.server)
    /\ UNCHANGED <<endnames, saved>>

\* The killed instance goes on, and keeps the Persister it had.
CopyAndKill ==
    /\ step("copy")
    /\ saved' = [saved EXCEPT ![op.server] = Copy(@)]
    /\ UNCHANGED <<net, call, endnames>>

\* Fresh ends, which are not enabled yet.
MakeEnds ==
    LET k == net.made[op.server] + 1
        fresh == {peerEnd(op.server, k, j) : j \in Server}
    IN  /\ step("ends")
        /\ net' = [net EXCEPT !.ends = @ \cup fresh,
                    !.connections = [e \in End |-> IF e \in fresh THEN e[3] ELSE @[e]]]
        /\ endnames' = [endnames EXCEPT ![op.server] = k]
        /\ UNCHANGED <<call, saved>>

MakePersister ==
    /\ step("persister")
    /\ saved' = [saved EXCEPT ![op.server] = [Copy(@) EXCEPT !.writer = endnames[op.server]]]
    /\ UNCHANGED <<net, call, endnames>>

AddServer ==
    /\ step("add") /\ Net!AddServer(op.server)
    /\ UNCHANGED <<endnames, saved>>

-----------------------------------------------------------------------------
\* A handler persists in the Persister that its instance was given.
dispatch(c) ==
    LET s == call[c].server
    IN  /\ Net!dispatch(c)
        /\ saved' = IF saved[s].writer = call[c].instance
                    THEN [saved EXCEPT ![s].content = @ \cup {c}] ELSE saved
        /\ UNCHANGED <<endnames, op>>

\* A clerk calls, or an instance of a server, killed or not.
Call(c) == \E e \in net.ends : Net!Call(c, e) /\ UNCHANGED harness

Deliver(c) == (Net!Progress(c) \/ Net!Drain(c)) /\ UNCHANGED harness

Unreliable(yes) == Net!Reliable(~yes) /\ UNCHANGED harness

\* Assumed of the tests, not checked by the code: connections are changed between the other
\* operations, and while every server is up.  ConnectAll would enable the ends of a server
\* that is shut down.
allUp == op = idle /\ \A s \in Server : net.servers[s] # 0

ChangeConnections ==
    \/ ConnectAll \/ \E s \in Server : Partition(s)
    \/ ConnectClient(All) \/ DisconnectClient(All)

Next ==
    \/ allUp /\ ChangeConnections
    \/ \E s \in Server : ShutdownServer(s) \/ StartServer(s)
    \/ Disconnect \/ DeleteServer \/ CopyAndKill \/ MakeEnds \/ MakePersister \/ AddServer
    \/ \E c \in Calls : Call(c) \/ Deliver(c) \/ dispatch(c)
    \/ \E yes \in BOOLEAN : Unreliable(yes)

Spec == Init /\ [][Next]_vars

-----------------------------------------------------------------------------
(***************************************************************************)
(* A positive reply is not lost with the instance that gave it: what the   *)
(* handler persisted is in cfg.saved, the Persister from which the next    *)
(* instance of the server starts (ShutdownServer: "to avoid the            *)
(* possibility of the server returning a positive reply to an Append but   *)
(* persisting the result in the superseded Persister").                    *)
(***************************************************************************)
PositiveReplyPersisted ==
    \A c \in Calls : call[c].ok => c \in saved[call[c].server].content

(***************************************************************************)
(* From the moment a server has been shut down, no call of that instance   *)
(* is given a server any more, though the instance is still running:       *)
(* StartServer's fresh set of outgoing ends shuts it out for good.  (A     *)
(* call that found its server before the shutdown may be dispatched after  *)
(* it.)                                                                    *)
(***************************************************************************)
OldInstanceCannotSend ==
    [][\A c \in Calls :
        LET e == call[c].end
        IN  (call[c].stage = "received" /\ call'[c].stage = "routed" /\ e[1] \in Server)
                => e[2] = endnames[e[1]] /\ (net.servers[e[1]] = e[2] \/ op.server = e[1])]_vars

=============================================================================
