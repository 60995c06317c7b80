------------------------------- MODULE LabRPC -------------------------------
(***************************************************************************)
(* The network of labrpc: ClientEnd.Call, the goroutine that takes the     *)
(* calls, processReq, and the handler goroutine it starts, next to the     *)
(* operations by which a test changes the network while calls are under    *)
(* way.  A server name stands for a sequence of server objects, numbered   *)
(* from 1; 0 is nil.  What a call carries and how long a delay lasts are   *)
(* left out.                                                               *)
(***************************************************************************)
EXTENDS Naturals, FiniteSets

CONSTANTS
    End,            \* names of client ends
    Server,         \* names of servers
    Calls,          \* identities of calls
    MaxInstances,   \* bound on the server objects made for a name
    Nil

VARIABLES
    net,            \* the Network
    call            \* every call: its processReq and its handler goroutine

vars == <<net, call>>

Network ==
    [ends : SUBSET End, enabled : [End -> BOOLEAN], connections : [End -> Server \cup {Nil}],
     servers : [Server -> 0 .. MaxInstances], made : [Server -> 0 .. MaxInstances],
     reliable : BOOLEAN, longReordering : BOOLEAN, done : BOOLEAN, listening : BOOLEAN]

Stage == {"idle", "sending", "received", "refused", "routed", "waiting", "replied",
          "abandoned", "delayed", "returned"}
Thread == {"none", "running", "hung", "sending", "ended"}

\* live records, for the properties, whether the server object was still on
\* the network when the handler ran.
CallState ==
    [stage : Stage, end : End \cup {Nil}, server : Server \cup {Nil}, instance : 0 .. MaxInstances,
     reliable : BOOLEAN, longReordering : BOOLEAN, thread : Thread, drain : BOOLEAN,
     live : BOOLEAN, ok : BOOLEAN]

MakeNetwork ==
    [ends |-> {}, enabled |-> [e \in End |-> FALSE], connections |-> [e \in End |-> Nil],
     servers |-> [s \in Server |-> 0], made |-> [s \in Server |-> 0],
     reliable |-> TRUE, longReordering |-> FALSE, done |-> FALSE, listening |-> TRUE]

noCall ==
    [stage |-> "idle", end |-> Nil, server |-> Nil, instance |-> 0, reliable |-> TRUE,
     longReordering |-> FALSE, thread |-> "none", drain |-> FALSE, live |-> FALSE, ok |-> FALSE]

Init == net = MakeNetwork /\ call = [c \in Calls |-> noCall]

-----------------------------------------------------------------------------
(* The operations of a test on the network. *)

MakeEnd(e) ==
    /\ e \notin net.ends
    /\ net' = [net EXCEPT !.ends = @ \cup {e}, !.enabled[e] = FALSE, !.connections[e] = Nil]
    /\ UNCHANGED call

AddServer(s) ==
    /\ net.made[s] < MaxInstances
    /\ net' = [net EXCEPT !.made[s] = @ + 1, !.servers[s] = net.made[s] + 1]
    /\ UNCHANGED call

DeleteServer(s) == net' = [net EXCEPT !.servers[s] = 0] /\ UNCHANGED call

\* "a ClientEnd can only be connected once in its lifetime"
Connect(e, s) ==
    /\ e \in net.ends /\ net.connections[e] = Nil
    /\ net' = [net EXCEPT !.connections[e] = s]
    /\ UNCHANGED call

Enable(e, yes) == e \in net.ends /\ net' = [net EXCEPT !.enabled[e] = yes] /\ UNCHANGED call

Reliable(yes) == net' = [net EXCEPT !.reliable = yes] /\ UNCHANGED call

LongReordering(yes) == net' = [net EXCEPT !.longReordering = yes] /\ UNCHANGED call

Cleanup == ~net.done /\ net' = [net EXCEPT !.done = TRUE] /\ UNCHANGED call

-----------------------------------------------------------------------------
(* A call. *)

update(c, r) == call' = [call EXCEPT ![c] = r] /\ UNCHANGED net

return(c, ok) == update(c, [call[c] EXCEPT !.stage = "returned", !.ok = ok])

Call(c, e) ==
    /\ call[c].stage = "idle" /\ e \in net.ends
    /\ update(c, [call[c] EXCEPT !.stage = "sending", !.end = e])

\* The network's goroutine takes a request, or sees that it is done.
Receive(c) ==
    /\ call[c].stage = "sending" /\ net.listening
    /\ update(c, [call[c] EXCEPT !.stage = "received"])

StopListening ==
    /\ net.done /\ net.listening
    /\ net' = [net EXCEPT !.listening = FALSE] /\ UNCHANGED call

\* "entire Network has been destroyed"
CallAfterCleanup(c) == call[c].stage = "sending" /\ net.done /\ return(c, FALSE)

reachable(e) ==
    net.enabled[e] /\ net.connections[e] # Nil /\ net.servers[net.connections[e]] # 0

readEndnameInfo(c) ==
    LET e == call[c].end
        s == net.connections[e]
        read == [call[c] EXCEPT !.reliable = net.reliable, !.longReordering = net.longReordering]
    IN  /\ call[c].stage = "received"
        /\ IF reachable(e)
           THEN update(c, [read EXCEPT !.stage = "routed", !.server = s, !.instance = net.servers[s]])
           ELSE update(c, [read EXCEPT !.stage = "refused"])

\* "simulate no reply and eventual timeout"
Refuse(c) == call[c].stage = "refused" /\ return(c, FALSE)

DropRequest(c) == call[c].stage = "routed" /\ ~call[c].reliable /\ return(c, FALSE)

StartHandler(c) ==
    /\ call[c].stage = "routed"
    /\ update(c, [call[c] EXCEPT !.stage = "waiting", !.thread = "running"])

\* Server.dispatch and Service.dispatch: the handler runs and its reply is
\* offered on ech, which has no buffer.
dispatch(c) ==
    /\ call[c].thread = "running"
    /\ update(c, [call[c] EXCEPT !.thread = "sending",
                                 !.live = net.servers[call[c].server] = call[c].instance])

\* A handler that never returns.
Hang(c) == call[c].thread = "running" /\ update(c, [call[c] EXCEPT !.thread = "hung"])

\* Mutant of isServerDead: only the client end is looked at.
isServerDeadByEnd(c) == ~net.enabled[call[c].end]

isServerDead(c) ==
    ~net.enabled[call[c].end] \/ net.servers[call[c].server] # call[c].instance

ReceiveReply(c) ==
    /\ call[c].stage = "waiting" /\ call[c].thread = "sending"
    /\ update(c, [call[c] EXCEPT !.stage = "replied", !.thread = "ended"])

\* Mutant of PollServer: the channel is not drained.
PollServerOnly(c) ==
    /\ call[c].stage = "waiting" /\ isServerDead(c)
    /\ update(c, [call[c] EXCEPT !.stage = "abandoned"])

\* Every 100 ms without a reply.
PollServer(c) ==
    /\ call[c].stage = "waiting" /\ isServerDead(c)
    /\ update(c, [call[c] EXCEPT !.stage = "abandoned", !.drain = TRUE])

Drain(c) ==
    /\ call[c].drain /\ call[c].thread = "sending"
    /\ update(c, [call[c] EXCEPT !.drain = FALSE, !.thread = "ended"])

\* Mutant of replyCall: a call without a reply is left alone.
replyOnlyReplied(c) ==
    /\ call[c].stage = "replied"
    /\ \/ (isServerDead(c) \/ ~call[c].reliable) /\ return(c, FALSE)
       \/ ~isServerDead(c) /\ return(c, TRUE)

\* What processReq answers once the wait is over.
replyCall(c) ==
    \/ call[c].stage = "abandoned" /\ return(c, FALSE)
    \/ /\ call[c].stage = "replied"
       /\ \/ (isServerDead(c) \/ ~call[c].reliable) /\ return(c, FALSE)
          \/ ~isServerDead(c) /\ return(c, TRUE)
          \/ /\ ~isServerDead(c) /\ call[c].longReordering
             /\ update(c, [call[c] EXCEPT !.stage = "delayed"])

DelayedReply(c) == call[c].stage = "delayed" /\ return(c, TRUE)

-----------------------------------------------------------------------------
Administer ==
    \/ \E e \in End : MakeEnd(e) \/ \E s \in Server : Connect(e, s)
    \/ \E e \in End, yes \in BOOLEAN : Enable(e, yes)
    \/ \E s \in Server : AddServer(s) \/ DeleteServer(s)
    \/ \E yes \in BOOLEAN : Reliable(yes) \/ LongReordering(yes)
    \/ Cleanup

\* What a goroutine of the network, of a call or of a handler does next.
Progress(c) ==
    \/ Receive(c) \/ CallAfterCleanup(c) \/ readEndnameInfo(c) \/ Refuse(c)
    \/ DropRequest(c) \/ StartHandler(c) \/ ReceiveReply(c) \/ PollServer(c)
    \/ replyCall(c) \/ DelayedReply(c)

Next ==
    \/ Administer \/ StopListening
    \/ \E c \in Calls :
        \/ \E e \in End : Call(c, e)
        \/ Progress(c) \/ dispatch(c) \/ Hang(c) \/ Drain(c)

Spec == Init /\ [][Next]_vars

\* Goroutines that can run do; a handler that does not hang returns.
Fairness ==
    /\ WF_vars(StopListening)
    /\ \A c \in Calls : WF_vars(Progress(c)) /\ WF_vars(dispatch(c)) /\ WF_vars(Drain(c))

FairSpec == Spec /\ Fairness

-----------------------------------------------------------------------------
(***************************************************************************)
(* The network and the calls have their types, and a call that got past    *)
(* readEndnameInfo has a server object to run on.                          *)
(***************************************************************************)
TypeOK ==
    /\ net \in Network
    /\ \A c \in Calls :
        /\ call[c] \in CallState
        /\ call[c].stage \in {"routed", "waiting", "replied"} => call[c].instance # 0

(***************************************************************************)
(* "Call() returns true to indicate that the server executed the request   *)
(* and the reply is valid": the handler has run, and it ran on a server    *)
(* object that DeleteServer had not yet taken off the network, however     *)
(* ends are switched and servers replaced while the call is under way.     *)
(***************************************************************************)
TrueRepliesAreLive ==
    \A c \in Calls : call[c].ok => call[c].thread = "ended" /\ call[c].live

(***************************************************************************)
(* "Call() is guaranteed to return (perhaps after a delay) *except* if the *)
(* handler function on the server side does not return": and with such a   *)
(* handler it still returns if the server stays deleted, or the end        *)
(* disabled, from some time on.                                            *)
(***************************************************************************)
CallReturns ==
    \A c \in Calls :
        (call[c].stage # "idle" /\ [](call[c].thread = "hung" => isServerDead(c)))
            ~> call[c].stage = "returned"

(***************************************************************************)
(* A handler goroutine that has offered its reply ends, even when          *)
(* processReq stopped waiting for it: no goroutine stays blocked on ech.   *)
(***************************************************************************)
HandlersEnd == \A c \in Calls : call[c].thread = "sending" ~> call[c].thread = "ended"
=============================================================================
