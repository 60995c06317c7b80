----------------------------- MODULE ApplyCheck -----------------------------
(***************************************************************************)
(* The check that the tests of raft (raft/config.go) make of what the      *)
(* peers apply: the goroutines applier and applierSnap that read every     *)
(* instance's applyCh, checkLogs, ingestSnap, and the restart of a peer by *)
(* crash1 and start1.  The previous instance cannot really be killed: its  *)
(* applier pushes the batch it has, and its reader goes on reading.        *)
(*                                                                         *)
(* Of Raft there is what reaches a reader: commits, snapshots, and the     *)
(* applier's batches.  Which command is at an index is left open, for the  *)
(* check is there for a Raft that is wrong.                                *)
(***************************************************************************)
EXTENDS Naturals, Sequences, FiniteSets

CONSTANTS
    Server,
    Value,              \* commands
    MaxIndex,           \* bound on the log
    MaxInstances,       \* bound on the instances of a server
    Tests,              \* the settings to try, with smaller bounds for some of them
    SnapShotInterval,
    None,               \* no entry in a copy of the log
    nil                 \* an entry without a command

VARIABLES
    logs,           \* cfg.logs: per server, what it has applied
    lastApplied,    \* cfg.lastApplied
    saved,          \* cfg.saved, as crash1 left it
    current,        \* the instance in cfg.rafts, or the last one
    rf,             \* per server and instance: its Raft
    reader,         \* per server and instance: the goroutine that reads applyCh
    failed,         \* a reader has reported an apply error, and the test has ended
    test,           \* make_config's snapshot: the readers are applierSnap; bounds on log and crashes
    pushed,         \* history: the values pushed at each index
    overlap         \* history: what the readers of previous instances did to their successors

vars == <<logs, lastApplied, saved, current, rf, reader, failed, test, pushed, overlap>>
harness == <<logs, lastApplied, saved, current, reader, failed, test, pushed, overlap>>

Index == 1 .. MaxIndex
Instance == 1 .. MaxInstances

noLog == [k \in Index |-> None]

\* What a Persister holds: the dummy entry of the log, and the snapshot.
noState == [dummyIndex |-> 0, snapshot |-> [lastIncludedIndex |-> 0, xlog |-> noLog]]

\* An instance as Make starts it.  ready: the messages that its applier has collected and
\* not yet pushed; copied: crash1 has copied its Persister.
Make(persister) ==
    [alive |-> TRUE, copied |-> FALSE, persister |-> persister, hasSnapshot |-> FALSE,
     commitIndex |-> persister.dummyIndex, lastApplied |-> persister.dummyIndex, ready |-> << >>]

\* Where a reader is, and the message it handles.
startReader == [pc |-> "receive", m |-> 0, v |-> None]

Init ==
    /\ logs = [i \in Server |-> noLog]
    /\ lastApplied = [i \in Server |-> 0]
    /\ saved = [i \in Server |-> noState]
    /\ current = [i \in Server |-> 1]
    /\ rf = [i \in Server |-> [n \in Instance |-> [Make(noState) EXCEPT !.alive = n = 1]]]
    /\ reader = [i \in Server |-> [n \in Instance |-> startReader]]
    /\ failed = FALSE
    /\ test \in Tests
    /\ pushed = [k \in Index |-> {}]
    /\ overlap = {}

-----------------------------------------------------------------------------
(* Raft *)

Commit(i, n) ==
    /\ rf[i][n].alive /\ rf[i][n].commitIndex < test.last
    /\ rf' = [rf EXCEPT ![i][n].commitIndex = @ + 1]
    /\ UNCHANGED harness

\* The snapshot of peer j is installed, and persisted, before a reader hears of it.
HandleInstallSnapshot(i, n, j) ==
    LET p == rf[j][current[j]].persister
    IN  /\ rf[i][n].alive /\ ~rf[j][current[j]].copied
        /\ p.dummyIndex > rf[i][n].commitIndex
        /\ rf' = [rf EXCEPT ![i][n].commitIndex = p.dummyIndex, ![i][n].lastApplied = p.dummyIndex,
                            ![i][n].persister = p, ![i][n].hasSnapshot = TRUE]
        /\ UNCHANGED harness

snapshotMsg(r) ==
    [kind |-> "snapshot", SnapshotIndex |-> r.persister.dummyIndex, Snapshot |-> r.persister.snapshot]
commandMsg(index) == [kind |-> "command", CommandIndex |-> index]

\* Raft's applier collects a batch (RaftApplier has all its steps).
readyApply(r) ==
    (IF r.hasSnapshot THEN <<snapshotMsg(r)>> ELSE << >>)
    \o [k \in 1 .. r.commitIndex - r.lastApplied |-> commandMsg(r.lastApplied + k)]

Collect(i, n) ==
    LET r == rf[i][n]
    IN  /\ r.ready = << >> /\ readyApply(r) # << >>
        /\ rf' = [rf EXCEPT ![i][n].ready = readyApply(r), ![i][n].hasSnapshot = FALSE,
                            ![i][n].lastApplied = r.commitIndex]
        /\ UNCHANGED harness

-----------------------------------------------------------------------------
(* The readers *)

\* The reader of instance n gets the next message, which is of that kind.
receive(i, n, kind) ==
    /\ reader[i][n].pc = "receive"
    /\ rf[i][n].ready # << >> /\ Head(rf[i][n].ready).kind = kind
    /\ rf' = [rf EXCEPT ![i][n].ready = Tail(@)]

\* A reader has handled a message of that kind.  After start1, the reader of the previous
\* instance may change what it shares with its successor, or fail on it.
reads(i, n, kind) ==
    overlap' = IF n < current[i] /\ (failed' \/ <<logs, lastApplied>>' # <<logs, lastApplied>>)
               THEN overlap \cup {kind} ELSE overlap

\* Mutant of checkLogs: a value is compared with the server's own log only.
checkOwnLog(i, m, v) == logs[i][m] \in {None, v}

checkLogs(i, m, v) == \A j \in Server : logs[j][m] \in {None, v}

prevok(i, m) == m > 1 => logs[i][m - 1] # None

\* snapshot replaces the copy of the log, unless index says that it is another one.
ingestSnap(i, snapshot, index) ==
    LET err == index \notin {None, snapshot.lastIncludedIndex}
    IN  /\ failed' = err
        /\ logs' = IF err THEN logs ELSE [logs EXCEPT ![i] = snapshot.xlog]
        /\ lastApplied' = IF err THEN lastApplied
                          ELSE [lastApplied EXCEPT ![i] = snapshot.lastIncludedIndex]

\* applier: a command is received and checked.
applier(i, n, v) ==
    LET m == Head(rf[i][n].ready).CommandIndex
    IN  /\ ~test.snapshot /\ receive(i, n, "command")
        /\ logs' = [logs EXCEPT ![i][m] = v]
        /\ pushed' = [pushed EXCEPT ![m] = @ \cup {v}]
        /\ failed' = ~(checkLogs(i, m, v) /\ prevok(i, m))
        /\ UNCHANGED <<lastApplied, saved, current, reader, test>>
        /\ reads(i, n, "command")

\* applierSnap: a command is received and its index compared, without cfg.mu.
ReceiveCommand(i, n, v) ==
    LET m == Head(rf[i][n].ready).CommandIndex
    IN  /\ test.snapshot /\ receive(i, n, "command")
        /\ reader' = [reader EXCEPT ![i][n] = [pc |-> "check", m |-> m, v |-> v]]
        /\ pushed' = [pushed EXCEPT ![m] = @ \cup {v}]
        /\ failed' = (m # lastApplied[i] + 1)
        /\ UNCHANGED <<logs, lastApplied, saved, current, test>>
        /\ reads(i, n, "command")

CheckCommand(i, n) ==
    LET r == reader[i][n]
    IN  /\ r.pc = "check"
        /\ reader' = [reader EXCEPT ![i][n].pc = "apply"]
        /\ logs' = [logs EXCEPT ![i][r.m] = r.v]
        /\ failed' = ~(checkLogs(i, r.m, r.v) /\ prevok(i, r.m))
        /\ UNCHANGED <<lastApplied, saved, current, rf, test, pushed>>
        /\ reads(i, n, "command")

SetLastApplied(i, n) ==
    LET r == reader[i][n]
    IN  /\ r.pc = "apply"
        /\ reader' = [reader EXCEPT ![i][n] = IF (r.m + 1) % SnapShotInterval = 0
                                              THEN [r EXCEPT !.pc = "snapshot"] ELSE startReader]
        /\ lastApplied' = [lastApplied EXCEPT ![i] = r.m]
        /\ UNCHANGED <<logs, saved, current, rf, failed, test, pushed>>
        /\ reads(i, n, "command")

\* An index that is not in the log is encoded as nil.
xlog(log, index) ==
    [k \in Index |-> IF k > index THEN None ELSE IF log[k] = None THEN nil ELSE log[k]]

\* Now and then the log is encoded, without cfg.mu, and given to rf.Snapshot, which has
\* nothing to do if the log starts later already.  One step: in between, only the reader of
\* another instance could change the copy, and that is the overlap.
TakeSnapshot(i, n) ==
    LET m == reader[i][n].m
    IN  /\ reader[i][n].pc = "snapshot"
        /\ reader' = [reader EXCEPT ![i][n] = startReader]
        /\ rf' = IF m <= rf[i][n].persister.dummyIndex THEN rf
                 ELSE [rf EXCEPT ![i][n].persister =
                        [dummyIndex |-> m, snapshot |-> [lastIncludedIndex |-> m, xlog |-> xlog(logs[i], m)]]]
        /\ UNCHANGED <<logs, lastApplied, saved, current, failed, test, pushed, overlap>>

\* applierSnap: a snapshot is received and ingested.
ReceiveSnapshot(i, n) ==
    LET msg == Head(rf[i][n].ready)
    IN  /\ receive(i, n, "snapshot")
        /\ ingestSnap(i, msg.Snapshot, msg.SnapshotIndex)
        /\ reads(i, n, "snapshot")
        /\ UNCHANGED <<saved, current, reader, test, pushed>>

-----------------------------------------------------------------------------
(* crash1 and start1 *)

\* The number of times that crash1 has been called.
crashes == Cardinality({p \in Server \X Instance : rf[p[1]][p[2]].copied})

\* cfg.saved becomes a copy that the instance does not write to, which is killed later.
crash1(i) ==
    LET r == rf[i][current[i]]
    IN  /\ ~r.copied /\ crashes < test.crashes
        /\ rf' = [rf EXCEPT ![i][current[i]].copied = TRUE]
        /\ saved' = [saved EXCEPT ![i] = r.persister]
        /\ UNCHANGED <<logs, lastApplied, current, reader, failed, test, pushed, overlap>>

\* A killed applier collects once more, unless a batch is on its way.
Kill(i) ==
    LET r == rf[i][current[i]]
        dead == [r EXCEPT !.alive = FALSE]
    IN  /\ r.alive /\ r.copied
        /\ rf' = [rf EXCEPT ![i][current[i]] =
                    IF r.ready = << >> THEN dead
                    ELSE [dead EXCEPT !.commitIndex = r.lastApplied, !.hasSnapshot = FALSE]]
        /\ UNCHANGED harness

\* Mutant of start1: lastApplied is left as it is.
start1AndGoOn(i) ==
    LET n == current[i] + 1
        s == saved[i].snapshot
    IN  /\ n \in Instance /\ ~rf[i][current[i]].alive
        /\ current' = [current EXCEPT ![i] = n]
        /\ rf' = [rf EXCEPT ![i][n] = Make(saved[i])]
        /\ IF s.lastIncludedIndex > 0 THEN ingestSnap(i, s, None) ELSE UNCHANGED <<logs, lastApplied, failed>>
        /\ UNCHANGED <<saved, reader, test, pushed, overlap>>

\* A new instance, once the previous one is crashed.
start1(i) ==
    LET n == current[i] + 1
        s == saved[i].snapshot
    IN  /\ n \in Instance /\ ~rf[i][current[i]].alive
        /\ current' = [current EXCEPT ![i] = n]
        /\ rf' = [rf EXCEPT ![i][n] = Make(saved[i])]
        /\ IF s.lastIncludedIndex > 0 THEN ingestSnap(i, s, None)
           ELSE lastApplied' = [lastApplied EXCEPT ![i] = 0] /\ UNCHANGED <<logs, failed>>
        /\ UNCHANGED <<saved, reader, test, pushed, overlap>>

-----------------------------------------------------------------------------
Next ==
    /\ ~failed
    /\ \E i \in Server :
        \/ crash1(i) \/ Kill(i) \/ start1(i)
        \/ \E n \in Instance :
            \/ Commit(i, n) \/ Collect(i, n)
            \/ \E j \in Server \ {i} : HandleInstallSnapshot(i, n, j)
            \/ \E v \in Value : applier(i, n, v) \/ ReceiveCommand(i, n, v)
            \/ CheckCommand(i, n) \/ SetLastApplied(i, n) \/ TakeSnapshot(i, n)
            \/ ReceiveSnapshot(i, n)

Spec == Init /\ [][Next]_vars

-----------------------------------------------------------------------------
(***************************************************************************)
(* A reader reports an apply error only if peers have applied different    *)
(* commands at an index, however they are crashed and restarted, and       *)
(* wherever a crash falls while a snapshot is taken or installed.  start1  *)
(* is there "to isolate previous instance of this server. since we cannot  *)
(* really kill it", and it does, with one exception: it does not stop the  *)
(* reader of the previous instance.  In a test with snapshots a message    *)
(* that this one still handles can look out of order, or change            *)
(* cfg.lastApplied and cfg.logs under the new reader.                      *)
(***************************************************************************)
NoFalseAlarm ==
    failed => \/ \E k \in Index : Cardinality(pushed[k]) > 1
              \/ test.snapshot /\ overlap # {}

(***************************************************************************)
(* The other way round: whatever values the peers apply, two servers'      *)
(* copies never hold different commands at an index without an apply error *)
(* having been reported ("some server has already committed a different    *)
(* value for this entry!").  The exception is a snapshot that the reader   *)
(* of a previous instance still ingests: it takes the copy of the log      *)
(* back, and what was in it is not compared any more.                      *)
(***************************************************************************)
DisagreementReported ==
    \/ failed \/ "snapshot" \in overlap
    \/ \A i, j \in Server, k \in Index :
            {logs[i][k], logs[j][k]} \subseteq Value => logs[i][k] = logs[j][k]
=============================================================================
