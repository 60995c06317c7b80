---------------------------- MODULE RaftApplier ----------------------------
(***************************************************************************)
(* One peer's applier goroutine (raft.go), between Raft, which commits     *)
(* entries and installs snapshots, and the service that reads applyCh.     *)
(*                                                                         *)
(* The applier releases rf.mu while it pushes to applyCh.  Meanwhile       *)
(* entries are committed, snapshots are installed, and the service, which  *)
(* lags behind, compacts the log.  A step is one critical section of       *)
(* rf.mu, or one operation on the channel.                                 *)
(*                                                                         *)
(* Peers agree on the committed commands (StateMachineSafety of Raft), so  *)
(* a command is its index, and a snapshot is the index it ends at.         *)
(***************************************************************************)
EXTENDS Integers, Sequences, FiniteSets

CONSTANTS MaxIndex,     \* bound: no entry after this index is committed
          MaxRestarts,  \* bound: restarts of the peer
          Capacity      \* the buffer of applyCh, 1 in kvraft; a channel without one is a
                        \* buffer of 1 that is emptied at once

ASSUME ApplierAssumption ==
    /\ MaxIndex \in Nat
    /\ MaxRestarts \in Nat
    /\ Capacity \in Nat \ {0}

VARIABLES
    rf,       \* the fields of the Raft structure that the applier shares
    applier,  \* the goroutine: where it is, and its local variables
    applyCh,  \* the channel to the service
    service,  \* the state of the service
    restarts  \* how often the peer has been restarted

vars == <<rf, applier, applyCh, service, restarts>>

\* ApplyMsg: either a command or a snapshot.
ApplyMsg == [CommandValid : BOOLEAN, index : Nat]
command(k)  == [CommandValid |-> TRUE, index |-> k]
snapshot(k) == [CommandValid |-> FALSE, index |-> k]

\* The sequence from, from + 1, ..., to.
run(from, to) == [k \in 1 .. (to + 1) - from |-> from + k - 1]

\* dummyIndex is also where the persisted snapshot ends: both are always saved together.
RaftState == [commitIndex : Nat, lastApplied : Nat, hasSnapshot : BOOLEAN, dummyIndex : Nat]

(***************************************************************************)
(* commitIndex is the applier's copy of rf.commitIndex and readyApply what *)
(* it has still to push.  The service has applied the commands `applied',  *)
(* in this order, and takes a snapshot next when `snapshots' says so.      *)
(***************************************************************************)
Applier == [pc : {"collect", "waiting", "push", "finish"}, commitIndex : Nat,
            readyApply : Seq(ApplyMsg)]
Service == [applied : Seq(Nat), snapshots : BOOLEAN]

\* Make, and the service's recovery from the snapshot that ends at index.
RaftAt(index) ==
    [commitIndex |-> index, lastApplied |-> index, hasSnapshot |-> FALSE, dummyIndex |-> index]
ServiceAt(index) == [applied |-> run(1, index), snapshots |-> FALSE]
newApplier == [pc |-> "collect", commitIndex |-> 0, readyApply |-> << >>]

Init ==
    /\ rf = RaftAt(0)
    /\ applier = newApplier
    /\ applyCh = << >>
    /\ service = ServiceAt(0)
    /\ restarts = 0

(***************************************************************************)
(* The peer is killed and started again: the new instance has a channel    *)
(* and goroutines of its own, and the service starts from the snapshot.    *)
(***************************************************************************)
Make ==
    /\ restarts < MaxRestarts
    /\ restarts' = restarts + 1
    /\ rf' = RaftAt(rf.dummyIndex)
    /\ service' = ServiceAt(rf.dummyIndex)
    /\ applier' = newApplier
    /\ applyCh' = << >>

-----------------------------------------------------------------------------
(* Raft, under rf.mu *)

\* Mutant of Signal: nobody is woken.
SignalNobody == UNCHANGED applier

\* applyCond.Signal(): wakes the applier if it waits, and is lost otherwise.
Signal == applier' = [applier EXCEPT !.pc = IF @ = "waiting" THEN "collect" ELSE @]

\* commitIndex advances, on a leader or on a follower.
Commit(index) ==
    /\ rf.commitIndex < index
    /\ rf' = [rf EXCEPT !.commitIndex = index]
    /\ Signal
    /\ UNCHANGED <<applyCh, service, restarts>>

HandleInstallSnapshot(index) ==
    /\ rf.commitIndex < index
    /\ rf' = [commitIndex |-> index, lastApplied |-> index,
              hasSnapshot |-> TRUE, dummyIndex |-> index]
    /\ Signal
    /\ UNCHANGED <<applyCh, service, restarts>>

-----------------------------------------------------------------------------
(* The applier goroutine *)

nothingToApply == ~rf.hasSnapshot /\ rf.lastApplied >= rf.commitIndex

Wait ==
    /\ applier.pc = "collect"
    /\ nothingToApply
    /\ applier' = [applier EXCEPT !.pc = "waiting"]
    /\ UNCHANGED <<rf, applyCh, service, restarts>>

\* Mutant of readyApply: the snapshot comes after the entries that follow it.
readyApplyEntriesFirst(r) ==
    LET entries == run(r.lastApplied + 1, r.commitIndex)
    IN  [k \in DOMAIN entries |-> command(entries[k])]
          \o (IF r.hasSnapshot THEN <<snapshot(r.dummyIndex)>> ELSE << >>)

readyApply(r) ==
    LET entries == run(r.lastApplied + 1, r.commitIndex)
    IN  (IF r.hasSnapshot THEN <<snapshot(r.dummyIndex)>> ELSE << >>)
          \o [k \in DOMAIN entries |-> command(entries[k])]

Collect ==
    /\ applier.pc = "collect"
    /\ ~nothingToApply
    /\ applier' = [pc |-> "push", commitIndex |-> rf.commitIndex, readyApply |-> readyApply(rf)]
    /\ rf' = [rf EXCEPT !.hasSnapshot = FALSE]
    /\ UNCHANGED <<applyCh, service, restarts>>

\* rf.applyCh <- msg: blocks while the channel is full.
Push ==
    /\ applier.pc = "push"
    /\ Len(applyCh) < Capacity
    /\ applyCh' = Append(applyCh, Head(applier.readyApply))
    /\ applier' = [applier EXCEPT !.readyApply = Tail(@),
                                  !.pc = IF Len(applier.readyApply) = 1 THEN "finish" ELSE @]
    /\ UNCHANGED <<rf, service, restarts>>

\* Mutant of appliedUpTo: a snapshot installed meanwhile is forgotten.
appliedUpToCopy(lastApplied, commitIndex) == commitIndex

appliedUpTo(lastApplied, commitIndex) ==
    IF lastApplied > commitIndex THEN lastApplied ELSE commitIndex

Finish ==
    /\ applier.pc = "finish"
    /\ rf' = [rf EXCEPT !.lastApplied = appliedUpTo(@, applier.commitIndex)]
    /\ applier' = [applier EXCEPT !.pc = "collect"]
    /\ UNCHANGED <<applyCh, service, restarts>>

-----------------------------------------------------------------------------
(* The service, listenApplyCh *)

\* Take a message from applyCh and apply it.  After a command the raft state may have
\* grown enough for a snapshot.
Receive(snapshots) ==
    LET msg == Head(applyCh) IN
    /\ ~service.snapshots
    /\ applyCh # << >>
    /\ applyCh' = Tail(applyCh)
    /\ service' = IF msg.CommandValid
                  THEN [applied |-> Append(service.applied, msg.index), snapshots |-> snapshots]
                  ELSE ServiceAt(msg.index)
    /\ UNCHANGED <<rf, applier, restarts>>

\* Raft's Snapshot, called by the service with the index it has reached: a snapshot
\* installed meanwhile wins.
Snapshot ==
    LET index == Len(service.applied) IN
    /\ service.snapshots
    /\ rf' = [rf EXCEPT !.dummyIndex = IF index <= @ THEN @ ELSE index]
    /\ service' = [service EXCEPT !.snapshots = FALSE]
    /\ UNCHANGED <<applier, applyCh, restarts>>

-----------------------------------------------------------------------------
Next ==
    \/ \E index \in 1 .. MaxIndex : Commit(index) \/ HandleInstallSnapshot(index)
    \/ Wait \/ Collect \/ Push \/ Finish
    \/ \E snapshots \in BOOLEAN : Receive(snapshots)
    \/ Snapshot
    \/ Make

Spec == Init /\ [][Next]_vars

\* The goroutines keep running: Go schedules a goroutine that can run, and a channel
\* or mutex it waits for becomes free.  Commits, snapshots and restarts need not happen.
Fairness ==
    /\ WF_vars(Wait \/ Collect \/ Push \/ Finish)
    /\ WF_vars(\E snapshots \in BOOLEAN : Receive(snapshots))
    /\ WF_vars(Snapshot)

FairSpec == Spec /\ Fairness
-----------------------------------------------------------------------------
\* Types of the variables, and the channel's capacity.
TypeOK ==
    /\ rf \in RaftState
    /\ applier \in Applier
    /\ applyCh \in Seq(ApplyMsg) /\ Len(applyCh) <= Capacity
    /\ service \in Service
    /\ restarts \in 0 .. MaxRestarts

(***************************************************************************)
(* The service has applied every command up to some index, in order and    *)
(* each once, although snapshots are installed while the applier pushes:   *)
(* "apply out of order" in raft/config.go never happens.                   *)
(***************************************************************************)
AppliedInOrder == service.applied = run(1, Len(service.applied))

(***************************************************************************)
(* When the applier slices the log at lastApplied + 1, the service's and   *)
(* the leader's snapshots have not cut the log beyond it: convertIndex     *)
(* does not panic and the dummy entry is never handed out as a command.    *)
(***************************************************************************)
SliceInLog == applier.pc \in {"collect", "waiting"} => rf.dummyIndex <= rf.lastApplied

(***************************************************************************)
(* Every committed command reaches the service, unless the peer restarts:  *)
(* no signal of applyCond is lost for good.                                *)
(***************************************************************************)
CommittedIsApplied ==
    \A k \in 1 .. MaxIndex :
        rf.commitIndex >= k /\ restarts = MaxRestarts ~> Len(service.applied) >= k
=============================================================================
