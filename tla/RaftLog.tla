------------------------------- MODULE RaftLog -------------------------------
(***************************************************************************)
(* The in-memory log of a Raft peer, raft_log.go.  A log is a non-empty    *)
(* sequence of entries with consecutive indices.  Its first entry is the   *)
(* dummy entry: the index and term of the last entry that a snapshot       *)
(* replaced (0, 0 in a fresh log), with a nil command.                     *)
(*                                                                         *)
(* Go slices count from 0 and TLA+ sequences from 1, so the entry with     *)
(* index k sits at position convertIndex(l, k) + 1.                        *)
(***************************************************************************)
EXTENDS Integers, Sequences, FiniteSets, FiniteSetsExt

CONSTANTS Value,   \* the commands that services hand to Start
          Nil      \* Go's nil command, and the votedFor value -1

Entry == [Index : Nat, Term : Nat, Command : Value \cup {Nil}]

dummyEntry(index, term) == [Index |-> index, Term |-> term, Command |-> Nil]

newLogs == << dummyEntry(0, 0) >>

dummyIndex(l) == l[1].Index
dummyTerm(l)  == l[1].Term
lastEntry(l)  == l[Len(l)]
lastIndex(l)  == lastEntry(l).Index

\* convertIndex panics when index < dummyIndex(l); callers must rule that out.
convertIndex(l, index) == index - dummyIndex(l)

getEntry(l, index) == l[convertIndex(l, index) + 1]

\* trunc, slice and sliceFrom keep Go's half-open intervals: high is excluded.
trunc(l, high)      == SubSeq(l, 1, convertIndex(l, high))
slice(l, low, high) == SubSeq(l, convertIndex(l, low) + 1, convertIndex(l, high))
sliceFrom(l, low)   == SubSeq(l, convertIndex(l, low) + 1, Len(l))

\* Overwrite the first entry: clearDummyEntryCommand, setDummyIndex, setDummyTerm.
setDummy(l, index, term) == [l EXCEPT ![1] = dummyEntry(index, term)]

\* Mutant of matchLog: any entry at the index will do.
matchAnyTerm(l, term, index) == index <= lastIndex(l)

matchLog(l, term, index) ==
    /\ index <= lastIndex(l)
    /\ term = getEntry(l, index).Term

\* Mutant of isLogUpToDate: a candidate with an older last entry gets the vote.
isAnyLog(l, requestLastTerm, requestLastIndex) == TRUE

isLogUpToDate(l, requestLastTerm, requestLastIndex) ==
    \/ requestLastTerm > lastEntry(l).Term
    \/ /\ requestLastTerm = lastEntry(l).Term
       /\ requestLastIndex >= lastEntry(l).Index

(***************************************************************************)
(* The loop of HandleAppendEntries over args.Entries: from the first entry *)
(* that is missing from the log or has another term, drop the rest of the  *)
(* log and append the rest of the entries.  Entries already present are    *)
(* left alone, so a delayed request never shortens the log.                *)
(***************************************************************************)
differs(l, e) == \/ convertIndex(l, e.Index) >= Len(l)
                 \/ getEntry(l, e.Index).Term # e.Term

\* Mutant of appendFrom: the old code that a comment there recalls, which truncates
\* the log at the first entry of the request.
appendAndTruncate(l, entries) ==
    IF entries = << >> THEN l ELSE trunc(l, entries[1].Index) \o entries

appendFrom(l, entries) ==
    LET new == {k \in 1 .. Len(entries) : differs(l, entries[k])}
    IN  IF new = {} THEN l
        ELSE trunc(l, entries[Min(new)].Index)
               \o SubSeq(entries, Min(new), Len(entries))

\* Mutant of conflictIndex: past the end, the last index instead of the one after it.
conflictAtLastIndex(l, prev) ==
    IF prev > lastIndex(l) THEN lastIndex(l)
    ELSE Max({k \in dummyIndex(l) .. prev :
                \/ k <= dummyIndex(l) + 1
                \/ getEntry(l, k).Term # getEntry(l, prev).Term})

(***************************************************************************)
(* The search for ConflictIndex in HandleAppendEntries, run when the log   *)
(* does not match at prev: past the end, the first free index; otherwise   *)
(* walk back over the entries of the conflicting term, but never below     *)
(* the entry after the dummy one.                                          *)
(***************************************************************************)
conflictIndex(l, prev) ==
    IF prev > lastIndex(l) THEN lastIndex(l) + 1
    ELSE Max({k \in dummyIndex(l) .. prev :
                \/ k <= dummyIndex(l) + 1
                \/ getEntry(l, k).Term # getEntry(l, prev).Term})

(***************************************************************************)
(* The shape every log has: at least the dummy entry, indices that are     *)
(* consecutive, and term 0 at index 0.                                     *)
(***************************************************************************)
WellFormed(l) ==
    /\ l \in Seq(Entry)
    /\ Len(l) >= 1
    /\ \A k \in 1 .. Len(l) : l[k].Index = l[1].Index + k - 1
    /\ l[1].Index = 0 => l[1].Term = 0
=============================================================================
