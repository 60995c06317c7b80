----------------------------- MODULE Porcupine -----------------------------
(***************************************************************************)
(* The linearizability checker with which the tests of kvraft judge a      *)
(* recorded history: porcupine's checkOperations for models.KvModel.       *)
(*                                                                         *)
(* A goroutine per partition searches with checkSingle, one step per turn  *)
(* of its loop, over a doubly linked list from which it lifts an operation *)
(* that it has linearized and to which it returns it when it backtracks.   *)
(* checkParallel collects the results, kills the other searches at the     *)
(* first failure or at the timeout, or waits for all of them.  A string is *)
(* the sequence of the values appended to it.                              *)
(***************************************************************************)
EXTENDS Integers, Sequences, FiniteSets, FiniteSetsExt, SequencesExt, TLC

CONSTANTS
    Inputs,         \* bound: what is checked; see Histories
    WordSize        \* bits per word of a bitset, 64 in the code

VARIABLES
    history,        \* the operations
    options,        \* computeInfo and timeout
    search,         \* per partition: the local variables of its checkSingle
    kill, results,  \* shared by checkParallel and the searches
    main            \* the local variables of checkParallel

vars == <<history, options, search, kill, results, main>>

-----------------------------------------------------------------------------
(* models.KvModel *)

\* The histories with lengths, keys (numbers, as they are sorted) and kinds of write of i,
\* times up to i.time, and gets that return an increasing sequence over 0 .. i.read - 1.
\* The first operation has the smallest key: which search is which makes no difference.
Histories(i) ==
    LET reads == {SetToSortSeq(S, <) : S \in SUBSET (0 .. i.read - 1)}
        values == (i.writes \X {<< >>}) \cup ({"get"} \X reads)
        Operation == {[Op |-> v[1], Key |-> k, Value |-> v[2], Call |-> c, Return |-> r] :
                        v \in values, k \in i.keys, c \in 1 .. i.time, r \in 1 .. i.time}
        all == UNION {[1 .. l -> {op \in Operation : op.Call <= op.Return}] : l \in i.lengths}
    IN  {h \in all : h # << >> => h[1].Key = Min(i.keys)}

\* The history's n-th operation, counted from 0, writes the value n.
input(h, n) == IF h[n].Op = "get" THEN h[n] ELSE [h[n] EXCEPT !.Value = <<n - 1>>]

\* The operations of a key, in the order of the history.
Partition(h) ==
    LET ops == [n \in DOMAIN h |-> input(h, n)]
        used == SetToSortSeq({h[n].Key : n \in DOMAIN h}, <)
    IN  [p \in DOMAIN used |-> SelectSeq(ops, LAMBDA op : op.Key = used[p])]

Step(state, op) ==
    [ok |-> op.Op = "get" => op.Value = state,
     state |-> CASE op.Op = "get" -> state
                 [] op.Op = "put" -> op.Value
                 [] op.Op = "append" -> state \o op.Value]

-----------------------------------------------------------------------------
(* Entries and the linked list *)

\* byTime.Less; entries it does not order are ordered by id, which loses
\* nothing as every numbering of the operations is a history of its own.
Less(a, b) ==
    \/ a.time < b.time
    \/ a.time = b.time /\ a.call /\ ~b.call
    \/ a.time = b.time /\ a.call = b.call /\ a.id < b.id

makeEntries(ops) ==
    LET calls == [n \in DOMAIN ops |-> [call |-> TRUE, id |-> n - 1, time |-> ops[n].Call]]
        returns == [n \in DOMAIN ops |-> [call |-> FALSE, id |-> n - 1, time |-> ops[n].Return]]
    IN  SortSeq(calls \o returns, Less)

\* A node is the position of its entry; 0 is the head, -1 is nil.
nil == -1

makeLinkedEntries(entries) ==
    LET last == Len(entries)
    IN  [next |-> [x \in 0 .. last |-> IF x = last THEN nil ELSE x + 1],
         prev |-> [x \in 0 .. last |-> x - 1]]

match(entries, x) ==
    IF x > 0 /\ entries[x].call
    THEN CHOOSE y \in DOMAIN entries : ~entries[y].call /\ entries[y].id = entries[x].id
    ELSE nil

\* x is taken out of the list, or put back where its own pointers say.
unlink(list, x) ==
    [next |-> [list.next EXCEPT ![list.prev[x]] = list.next[x]],
     prev |-> IF list.next[x] = nil THEN list.prev
              ELSE [list.prev EXCEPT ![list.next[x]] = list.prev[x]]]

relink(list, x) ==
    [next |-> [list.next EXCEPT ![list.prev[x]] = x],
     prev |-> IF list.next[x] = nil THEN list.prev ELSE [list.prev EXCEPT ![list.next[x]] = x]]

lift(list, entries, x) == unlink(unlink(list, x), match(entries, x))

\* Mutant of unlift: the node after the return does not point back to it.
unliftForward(list, entries, x) ==
    LET y == match(entries, x)
    IN  relink([list EXCEPT !.next[list.prev[y]] = y], x)

unlift(list, entries, x) == relink(relink(list, match(entries, x)), x)

-----------------------------------------------------------------------------
(* Bitsets *)

newBitset(bits) ==
    [w \in 0 .. bits \div WordSize + (IF bits % WordSize # 0 THEN 1 ELSE 0) - 1 |-> {}]

set(b, pos) == [b EXCEPT ![pos \div WordSize] = @ \cup {pos % WordSize}]
clear(b, pos) == [b EXCEPT ![pos \div WordSize] = @ \ {pos % WordSize}]

-----------------------------------------------------------------------------
(* checkSingle *)

startSearch(ops) ==
    LET entries == makeEntries(ops)
    IN  [pc |-> "search", ops |-> ops, entries |-> entries, list |-> makeLinkedEntries(entries),
         entry |-> 1, linearized |-> newBitset(Len(ops)), cache |-> {}, calls |-> << >>,
         state |-> << >>, longest |-> [id \in 0 .. Len(ops) - 1 |-> << >>]]

ids(s) == [c \in DOMAIN s.calls |-> s.entries[s.calls[c].entry].id]

\* What becomes of a search, and the result it sends.
running(p, s) == search' = [search EXCEPT ![p] = s] /\ UNCHANGED results
returns(p, s, ok) ==
    search' = [search EXCEPT ![p] = [s EXCEPT !.pc = "done"]] /\ results' = Append(results, ok)

Killed(p) ==
    /\ search[p].pc = "search" /\ search[p].list.next[0] # nil /\ kill
    /\ returns(p, search[p], FALSE)
    /\ UNCHANGED <<history, options, kill, main>>

\* Mutant of cached: the state of the object is left out of the comparison.
cachedSet(cache, linearized, state) == \E c \in cache : c.linearized = linearized

cached(cache, linearized, state) == [linearized |-> linearized, state |-> state] \in cache

\* The loop's turn at a call: linearize it here, or go on to the next entry.
AtCall(p) ==
    LET s == search[p]
        id == s.entries[s.entry].id
        step == Step(s.state, s.ops[id + 1])
        new == set(s.linearized, id)
    IN  /\ s.pc = "search" /\ s.list.next[0] # nil /\ ~kill
        /\ match(s.entries, s.entry) # nil
        /\ IF step.ok /\ ~cached(s.cache, new, step.state)
           THEN LET list == lift(s.list, s.entries, s.entry)
                IN  running(p, [s EXCEPT !.cache = @ \cup {[linearized |-> new, state |-> step.state]},
                                         !.calls = Append(@, [entry |-> s.entry, state |-> s.state]),
                                         !.state = step.state, !.linearized = new,
                                         !.list = list, !.entry = list.next[0]])
           ELSE running(p, [s EXCEPT !.entry = s.list.next[s.entry]])
        /\ UNCHANGED <<history, options, kill, main>>

\* Mutant of longer: a sequence replaces another of its length or more.
longerAlways(s, id) == id \in ToSet(ids(s))

\* Whether the operations linearized so far are the longest prefix with id.
longer(s, id) == id \in ToSet(ids(s)) /\ Len(s.calls) > Len(s.longest[id])

\* The loop's turn at a return: nothing fits before it, so backtrack.
AtReturn(p) ==
    LET s == search[p]
        top == Last(s.calls)
        list == unlift(s.list, s.entries, top.entry)
    IN  /\ s.pc = "search" /\ s.list.next[0] # nil /\ ~kill
        /\ match(s.entries, s.entry) = nil
        /\ IF s.calls = << >> THEN returns(p, s, FALSE)
           ELSE running(p, [s EXCEPT
                    !.longest = [id \in DOMAIN @ |->
                                    IF options.computeInfo /\ longer(s, id) THEN ids(s) ELSE @[id]],
                    !.linearized = clear(@, s.entries[top.entry].id),
                    !.state = top.state, !.calls = Front(@),
                    !.list = list, !.entry = list.next[top.entry]])
        /\ UNCHANGED <<history, options, kill, main>>

\* The list is empty: every operation is linearized.
Complete(p) ==
    LET s == search[p]
    IN  /\ s.pc = "search" /\ s.list.next[0] = nil
        /\ returns(p, [s EXCEPT !.longest = [id \in DOMAIN @ |-> ids(s)]], TRUE)
        /\ UNCHANGED <<history, options, kill, main>>

-----------------------------------------------------------------------------
(* checkParallel *)

Init ==
    /\ \E i \in Inputs : history \in Histories(i) /\ options \in i.options
    /\ search = [p \in DOMAIN Partition(history) |-> startSearch(Partition(history)[p])]
    /\ kill = FALSE /\ results = << >>
    /\ main = [pc |-> "loop", count |-> 0, ok |-> TRUE, timedOut |-> FALSE]

\* The loop is left: a verbose check waits for the searches that are not done.
leave(m) ==
    [m EXCEPT !.pc = IF options.computeInfo /\ m.count < Len(search) THEN "drain" ELSE "done"]

\* Another result.
Receive ==
    LET m == [main EXCEPT !.count = @ + 1, !.ok = @ /\ Head(results)]
        stop == ~m.ok /\ ~options.computeInfo
    IN  /\ main.pc = "loop" /\ results # << >>
        /\ results' = Tail(results)
        /\ kill' = (kill \/ stop)
        /\ main' = IF stop \/ m.count >= Len(search) THEN leave(m) ELSE m
        /\ UNCHANGED <<history, options, search>>

Timeout ==
    /\ main.pc = "loop" /\ options.timeout
    /\ kill' = TRUE
    /\ main' = leave([main EXCEPT !.timedOut = TRUE])
    /\ UNCHANGED <<history, options, search, results>>

\* Mutant of Drain: one result too many is waited for.
DrainOneMore ==
    /\ main.pc = "drain" /\ results # << >>
    /\ results' = Tail(results)
    /\ main' = [main EXCEPT !.count = @ + 1, !.pc = IF main.count = Len(search) THEN "done" ELSE @]
    /\ UNCHANGED <<history, options, search, kill>>

Drain ==
    /\ main.pc = "drain" /\ results # << >>
    /\ results' = Tail(results)
    /\ main' = leave([main EXCEPT !.count = @ + 1])
    /\ UNCHANGED <<history, options, search, kill>>

CheckResult == CASE ~main.ok -> "Illegal" [] main.ok /\ main.timedOut -> "Unknown" [] OTHER -> "Ok"

Search(p) == Killed(p) \/ AtCall(p) \/ AtReturn(p) \/ Complete(p)

Next == (\E p \in DOMAIN search : Search(p)) \/ Receive \/ Timeout \/ Drain

Spec == Init /\ [][Next]_vars
FairSpec == Spec /\ WF_vars(Next)

-----------------------------------------------------------------------------
(* What linearizable means, for a sequence of operations in this order. *)

fits(ops, order) ==
    LET state[n \in 0 .. Len(order), k \in {ops[o].Key : o \in DOMAIN ops}] ==
            IF n = 0 THEN << >>
            ELSE LET op == ops[order[n]]
                 IN  IF op.Key = k THEN Step(state[n - 1, k], op).state ELSE state[n - 1, k]
    IN  \A n \in DOMAIN order : Step(state[n - 1, ops[order[n]].Key], ops[order[n]]).ok

\* No operation comes after one that was called when it had already returned,
\* nor is left out then.
inRealTime(ops, order) ==
    \A a \in DOMAIN ops, n \in DOMAIN order :
        ops[a].Return < ops[order[n]].Call => \E m \in 1 .. n - 1 : order[m] = a

legalPrefixes(ops) ==
    {o \in UNION {[1 .. l -> DOMAIN ops] : l \in 0 .. Len(ops)} :
        IsInjective(o) /\ inRealTime(ops, o) /\ fits(ops, o)}

linearizable(ops) == \E o \in legalPrefixes(ops) : Len(o) = Len(ops)

-----------------------------------------------------------------------------
(***************************************************************************)
(* checkParallel's answer is right for the history as a whole, all keys    *)
(* together: Ok and Illegal say whether it is linearizable, however the    *)
(* searches, the kill flag and the timeout interleave, and Unknown is only *)
(* ever answered after a timeout.                                          *)
(***************************************************************************)
AnswerIsRight ==
    main.pc = "done" =>
        LET ops == [n \in DOMAIN history |-> input(history, n)]
        IN  CASE CheckResult = "Ok" -> linearizable(ops)
              [] CheckResult = "Illegal" -> ~linearizable(ops)
              [] OTHER -> options.timeout

(***************************************************************************)
(* The nodes of the list that a search still has are those of the          *)
(* operations it has not linearized, in the order of the history, and the  *)
(* links back agree: unlift undoes lift, whatever was lifted in between.   *)
(***************************************************************************)
ListIsRest ==
    \A p \in DOMAIN search :
        LET s == search[p]
            taken == ToSet(ids(s))
            nodes == <<0>> \o SelectSeq([x \in DOMAIN s.entries |-> x],
                                       LAMBDA x : s.entries[x].id \notin taken)
        IN  \A n \in DOMAIN nodes :
                /\ s.list.next[nodes[n]] = IF n = Len(nodes) THEN nil ELSE nodes[n + 1]
                /\ n > 1 => s.list.prev[nodes[n]] = nodes[n - 1]

(***************************************************************************)
(* "longest linearizable prefix that includes the given entry": what a     *)
(* verbose check returns for an operation is such a prefix, and unless the *)
(* search was killed there is no longer one.  So Visualize, which replays  *)
(* the prefixes, does not panic.                                           *)
(***************************************************************************)
LongestIsLongest ==
    \A p \in DOMAIN search :
        LET s == search[p]
            found(id) == [n \in DOMAIN s.longest[id] |-> s.longest[id][n] + 1]
        IN  (s.pc = "done" /\ options.computeInfo) =>
              LET legal == legalPrefixes(s.ops)
              IN  \A id \in DOMAIN s.longest :
                    /\ s.longest[id] # << >> => found(id) \in legal /\ id \in ToSet(s.longest[id])
                    /\ ~kill => \A o \in legal : id + 1 \in ToSet(o) => Len(o) <= Len(s.longest[id])

(***************************************************************************)
(* A check ends, also one that waits for searches that it has killed.      *)
(* The exception is the empty history without a timeout, for which the     *)
(* loop of checkParallel waits for a result that no search will send.      *)
(***************************************************************************)
CheckEnds == (history = << >> /\ ~options.timeout) \/ <>(main.pc = "done")
=============================================================================
