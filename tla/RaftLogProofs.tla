---------------------------- MODULE RaftLogProofs ----------------------------
(***************************************************************************)
(* Facts about the log operators of RaftLog.                               *)
(***************************************************************************)
EXTENDS RaftLog, TLAPS, SequenceTheorems, WellFoundedInduction

\* The last index of a log is determined by its dummy entry and its length.
LEMMA LastIndexValue ==
    ASSUME NEW l, WellFormed(l)
    PROVE  /\ dummyIndex(l) \in Nat
           /\ dummyTerm(l) \in Nat
           /\ Len(l) \in Nat
           /\ lastIndex(l) = dummyIndex(l) + Len(l) - 1
           /\ lastIndex(l) \in Nat
           /\ dummyIndex(l) <= lastIndex(l)
           /\ lastEntry(l) \in Entry
  <1>1. Len(l) \in Nat /\ 1 \in 1 .. Len(l) /\ Len(l) \in 1 .. Len(l)
    BY DEF WellFormed
  <1>2. l[1] \in Entry /\ l[Len(l)] \in Entry
    BY <1>1 DEF WellFormed
  <1>3. l[1].Index \in Nat /\ l[1].Term \in Nat /\ l[Len(l)].Index \in Nat
    BY <1>2 DEF Entry
  <1>4. l[Len(l)].Index = l[1].Index + Len(l) - 1
    BY <1>1 DEF WellFormed
  <1> QED
    BY <1>1, <1>2, <1>3, <1>4 DEF dummyIndex, dummyTerm, lastIndex, lastEntry

\* An index between the dummy entry and the last one has an entry.
LEMMA GetEntryInLog ==
    ASSUME NEW l, WellFormed(l), NEW k \in dummyIndex(l) .. lastIndex(l)
    PROVE  /\ getEntry(l, k) \in Entry
           /\ getEntry(l, k).Index = k
           /\ k \in Nat
  <1>1. k - dummyIndex(l) + 1 \in 1 .. Len(l) /\ k \in Nat
    BY LastIndexValue
  <1>2. l[k - dummyIndex(l) + 1] \in Entry
    BY <1>1 DEF WellFormed
  <1>3. l[k - dummyIndex(l) + 1].Index = l[1].Index + (k - dummyIndex(l) + 1) - 1
    BY <1>1 DEF WellFormed
  <1>4. l[1].Index = dummyIndex(l) /\ dummyIndex(l) \in Nat
    BY LastIndexValue DEF dummyIndex
  <1> QED
    BY <1>1, <1>2, <1>3, <1>4 DEF getEntry, convertIndex

\* A fresh log is well formed.
LEMMA NewLogsWellFormed == WellFormed(newLogs) /\ dummyIndex(newLogs) = 0
  <1>1. dummyEntry(0, 0) \in Entry
    BY DEF dummyEntry, Entry
  <1>2. newLogs \in Seq(Entry) /\ Len(newLogs) = 1 /\ newLogs[1] = dummyEntry(0, 0)
    BY <1>1 DEF newLogs
  <1> QED
    BY <1>2 DEF WellFormed, dummyIndex, dummyEntry

\* Start keeps the log well formed and adds one index.
LEMMA AppendWellFormed ==
    ASSUME NEW l, WellFormed(l), NEW e \in Entry, e.Index = lastIndex(l) + 1
    PROVE  /\ WellFormed(Append(l, e))
           /\ dummyIndex(Append(l, e)) = dummyIndex(l)
           /\ lastIndex(Append(l, e)) = lastIndex(l) + 1
  <1> DEFINE ll == Append(l, e)
  <1>1. /\ ll \in Seq(Entry)
        /\ Len(ll) = Len(l) + 1
        /\ \A k \in 1 .. Len(l) : ll[k] = l[k]
        /\ ll[Len(l) + 1] = e
    BY DEF WellFormed
  <1>2. /\ Len(l) \in Nat \ {0}
        /\ l[1].Index \in Nat
        /\ e.Index = l[1].Index + Len(l)
    BY LastIndexValue DEF WellFormed, dummyIndex
  <1>3. \A k \in 1 .. Len(l) : l[k].Index = l[1].Index + k - 1
    BY DEF WellFormed
  <1>4. \A k \in 1 .. Len(ll) : ll[k].Index = ll[1].Index + k - 1
    BY <1>1, <1>2, <1>3
  <1> QED
    BY <1>1, <1>2, <1>4, LastIndexValue DEF WellFormed, dummyIndex, lastIndex, lastEntry

\* A non-empty set of natural numbers has a least element, which Min finds.
LEMMA MinOfNats ==
    ASSUME NEW S \in SUBSET Nat, S # {}
    PROVE  Min(S) \in S /\ \A x \in S : Min(S) <= x
  <1>1. \E x \in S : \A y \in S : ~ (<<y, x>> \in OpToRel(<, Nat))
    BY NatLessThanWellFounded, WFMin, Zenon
  <1>2. PICK x \in S : \A y \in S : ~ (y < x)
    BY <1>1, Zenon DEF OpToRel
  <1>3. \A y \in S : x <= y
    BY <1>2
  <1> QED
    BY <1>3 DEF Min

\* A non-empty set of natural numbers with an upper bound has a greatest element.
LEMMA MaxOfNats ==
    ASSUME NEW n \in Nat, NEW S \in SUBSET (0 .. n), S # {}
    PROVE  Max(S) \in S /\ \A x \in S : x <= Max(S)
  <1> DEFINE T == {n - x : x \in S}
  <1>1. T \in SUBSET Nat /\ T # {}
    <2>1. ASSUME NEW x \in S
          PROVE  n - x \in Nat
      <3>1. x \in 0 .. n
        OBVIOUS
      <3> QED
        BY <3>1
    <2>2. PICK x \in S : TRUE
      OBVIOUS
    <2>3. n - x \in T
      BY <2>2
    <2> QED
      BY <2>1, <2>3
  <1>2. Min(T) \in T /\ \A y \in T : Min(T) <= y
    BY <1>1, MinOfNats
  <1>3. \E x \in S : \A y \in S : x >= y
    <2>1. PICK x \in S : Min(T) = n - x
      BY <1>2
    <2>2. \A y \in S : n - x <= n - y
      BY <1>2, <2>1
    <2> QED
      BY <2>2
  <1> QED
    BY <1>3 DEF Max

\* What appendOneRound sends: the entries after an index of the log, in order.
LEMMA SliceFromEntries ==
    ASSUME NEW l, WellFormed(l), NEW low \in dummyIndex(l) .. lastIndex(l) + 1
    PROVE  /\ sliceFrom(l, low) \in Seq(Entry)
           /\ Len(sliceFrom(l, low)) = lastIndex(l) + 1 - low
           /\ \A k \in 1 .. Len(sliceFrom(l, low)) :
                /\ sliceFrom(l, low)[k] = getEntry(l, low + k - 1)
                /\ sliceFrom(l, low)[k].Index = low + k - 1
  <1> DEFINE m == low - dummyIndex(l) + 1
             s == SubSeq(l, m, Len(l))
  <1>1. /\ dummyIndex(l) \in Nat
        /\ lastIndex(l) = dummyIndex(l) + Len(l) - 1
        /\ Len(l) \in Nat
        /\ m \in 1 .. Len(l) + 1
    BY LastIndexValue
  <1>2. l \in Seq(Entry)
    BY DEF WellFormed
  <1>3. \A k \in m .. Len(l) : l[k] \in Entry
    BY <1>1, <1>2
  <1> HIDE DEF m
  <1>4. /\ s \in Seq(Entry)
        /\ Len(s) = IF m <= Len(l) THEN Len(l) - m + 1 ELSE 0
        /\ \A k \in 1 .. Len(l) - m + 1 : s[k] = l[m + k - 1]
    BY <1>1, <1>3, SubSeqProperties
  <1>5. Len(s) = Len(l) - m + 1
    BY <1>1, <1>4
  <1>6. sliceFrom(l, low) = s
    BY DEF sliceFrom, convertIndex, m
  <1> HIDE DEF s
  <1>7. ASSUME NEW k \in 1 .. Len(s)
        PROVE  s[k] = getEntry(l, low + k - 1) /\ s[k].Index = low + k - 1
    <2>0. low \in Nat /\ k \in Nat /\ k <= lastIndex(l) + 1 - low
      BY <1>1, <1>5 DEF m
    <2>1. low + k - 1 \in dummyIndex(l) .. lastIndex(l)
      BY <1>1, <2>0
    <2>2. m + k - 1 = low + k - 1 - dummyIndex(l) + 1
      BY <1>1 DEF m
    <2>3. s[k] = getEntry(l, low + k - 1)
      <3>1. s[k] = l[m + k - 1]
        BY <1>4, <1>5
      <3>2. getEntry(l, low + k - 1) = l[low + k - 1 - dummyIndex(l) + 1]
        BY <1>1 DEF getEntry, convertIndex
      <3> QED
        BY <2>2, <3>1, <3>2
    <2> QED
      BY <2>1, <2>3, GetEntryInLog
  <1>8. Len(s) = lastIndex(l) + 1 - low
    BY <1>1, <1>5 DEF m
  <1> QED
    BY <1>4, <1>6, <1>7, <1>8

\* Compacting a log up to an index it holds leaves a log that starts there.
LEMMA CompactWellFormed ==
    ASSUME NEW l, WellFormed(l), NEW index \in dummyIndex(l) .. lastIndex(l), index # 0,
           NEW term \in Nat
    PROVE  LET ll == setDummy(sliceFrom(l, index), index, term)
           IN  /\ WellFormed(ll)
               /\ dummyIndex(ll) = index
               /\ lastIndex(ll) = lastIndex(l)
  <1> DEFINE s == sliceFrom(l, index)
             ll == setDummy(s, index, term)
  <1>0. /\ dummyIndex(l) \in Nat
        /\ lastIndex(l) \in Nat
        /\ index \in dummyIndex(l) .. lastIndex(l) + 1
        /\ index \in Nat
    BY LastIndexValue
  <1>1. /\ s \in Seq(Entry)
        /\ Len(s) = lastIndex(l) + 1 - index
        /\ \A k \in 1 .. Len(s) : s[k].Index = index + k - 1
    BY <1>0, SliceFromEntries
  <1> HIDE DEF s
  <1>2. dummyEntry(index, term) \in Entry /\ dummyEntry(index, term).Index = index
    BY <1>0 DEF dummyEntry, Entry
  <1>3. Len(s) \in Nat \ {0}
    BY <1>0, <1>1
  <1>4. /\ ll \in Seq(Entry)
        /\ Len(ll) = Len(s)
        /\ ll[1] = dummyEntry(index, term)
        /\ \A k \in 2 .. Len(s) : ll[k] = s[k]
    BY <1>1, <1>2, <1>3, ExceptSeq DEF setDummy
  <1> HIDE DEF ll
  <1>5. \A k \in 1 .. Len(ll) : ll[k].Index = index + k - 1
    BY <1>0, <1>1, <1>2, <1>3, <1>4
  <1>6. WellFormed(ll) /\ dummyIndex(ll) = index
    BY <1>0, <1>2, <1>3, <1>4, <1>5 DEF WellFormed, dummyIndex
  <1>7. lastIndex(ll) = lastIndex(l)
    <2>1. ll[Len(ll)].Index = lastIndex(l)
      BY <1>0, <1>1, <1>3, <1>4, <1>5
    <2>2. lastIndex(ll) = ll[Len(ll)].Index
      BY DEF lastIndex, lastEntry
    <2> QED
      BY <2>1, <2>2
  <1> QED
    BY <1>6, <1>7 DEF ll, s

\* A snapshot beyond the log replaces it by its dummy entry.
LEMMA FreshWellFormed ==
    ASSUME NEW index \in Nat, index # 0, NEW term \in Nat
    PROVE  LET ll == setDummy(newLogs, index, term)
           IN  /\ WellFormed(ll)
               /\ dummyIndex(ll) = index
               /\ lastIndex(ll) = index
  <1> DEFINE ll == setDummy(newLogs, index, term)
  <1>1. dummyEntry(index, term) \in Entry /\ dummyEntry(index, term).Index = index
    BY DEF dummyEntry, Entry
  <1>2. newLogs \in Seq(Entry) /\ Len(newLogs) = 1
    BY DEF newLogs, dummyEntry, Entry
  <1>3. ll \in Seq(Entry) /\ Len(ll) = 1 /\ ll[1] = dummyEntry(index, term)
    <2> DEFINE e == dummyEntry(index, term)
    <2>1. 1 \in 1 .. Len(newLogs) /\ e \in Entry
      BY <1>1, <1>2
    <2> HIDE DEF e
    <2>2. /\ [newLogs EXCEPT ![1] = e] \in Seq(Entry)
          /\ Len([newLogs EXCEPT ![1] = e]) = 1
          /\ [newLogs EXCEPT ![1] = e][1] = e
      BY <1>2, <2>1, ExceptSeq
    <2> QED
      BY <2>2 DEF setDummy, e
  <1> HIDE DEF ll
  <1>4. WellFormed(ll) /\ dummyIndex(ll) = index /\ lastIndex(ll) = index
    BY <1>1, <1>3 DEF WellFormed, dummyIndex, lastIndex, lastEntry
  <1> QED
    BY <1>4 DEF ll

\* ConflictIndex lies between 1 and the index that did not match.
LEMMA ConflictIndexRange ==
    ASSUME NEW l, WellFormed(l), NEW prev \in Nat, NEW term \in Nat,
           prev >= dummyIndex(l), ~matchLog(l, term, prev), prev = 0 => term = 0
    PROVE  conflictIndex(l, prev) \in 1 .. prev
  <1>1. dummyIndex(l) \in Nat /\ lastIndex(l) \in Nat /\ dummyIndex(l) <= lastIndex(l)
    BY LastIndexValue DEF WellFormed
  <1>2. CASE prev > lastIndex(l)
    BY <1>1, <1>2 DEF conflictIndex
  <1>3. CASE prev <= lastIndex(l)
    <2> DEFINE S == {k \in dummyIndex(l) .. prev :
                       \/ k <= dummyIndex(l) + 1
                       \/ getEntry(l, k).Term # getEntry(l, prev).Term}
    <2>1. conflictIndex(l, prev) = Max(S)
      BY <1>1, <1>3 DEF conflictIndex
    <2>2. dummyIndex(l) \in S /\ S \in SUBSET (0 .. prev)
      BY <1>1
    <2>3. Max(S) \in S /\ \A x \in S : x <= Max(S)
      BY <2>2, MaxOfNats
    <2>4. Max(S) \in 0 .. prev
      BY <2>2, <2>3
    <2>5. CASE prev = dummyIndex(l)
      <3>1. prev # 0
        <4>1. getEntry(l, prev) = l[1]
          BY <1>1, <2>5 DEF getEntry, convertIndex
        <4>2. term # l[1].Term
          BY <1>3, <4>1 DEF matchLog
        <4> QED
          BY <2>5, <4>2 DEF WellFormed, dummyIndex
      <3> QED
        BY <1>1, <2>1, <2>2, <2>3, <2>4, <2>5, <3>1
    <2>6. CASE prev > dummyIndex(l)
      <3>1. dummyIndex(l) + 1 \in S
        BY <1>1, <2>6
      <3> QED
        BY <1>1, <2>1, <2>3, <2>4, <3>1
    <2> QED
      BY <1>1, <2>5, <2>6
  <1> QED
    BY <1>1, <1>2, <1>3

\* Cutting a log and continuing it with entries whose indices follow.
LEMMA SpliceWellFormed ==
    ASSUME NEW l, WellFormed(l), NEW es \in Seq(Entry),
           NEW d \in Nat, d = dummyIndex(l),
           NEW n \in Nat, n \in 1 .. Len(es), NEW t \in Nat, t \in 1 .. Len(l),
           \A k \in 1 .. Len(es) : es[k].Index = d + t - n + k
    PROVE  LET ll == SubSeq(l, 1, t) \o SubSeq(es, n, Len(es))
           IN  /\ WellFormed(ll)
               /\ dummyIndex(ll) = dummyIndex(l)
               /\ lastIndex(ll) = d + t - n + Len(es)
  <1> DEFINE a == SubSeq(l, 1, t)
             b == SubSeq(es, n, Len(es))
             ll == a \o b
  <1>1. l \in Seq(Entry) /\ Len(l) \in Nat /\ Len(es) \in Nat
    BY DEF WellFormed
  <1>2. a \in Seq(Entry) /\ Len(a) = t /\ \A k \in 1 .. t : a[k] = l[k]
    <2>1. \A k \in 1 .. t : l[k] \in Entry
      BY <1>1
    <2> QED
      BY <2>1, SubSeqProperties
  <1>3. /\ b \in Seq(Entry)
        /\ Len(b) = Len(es) - n + 1
        /\ \A k \in 1 .. Len(es) - n + 1 : b[k] = es[n + k - 1]
    <2>1. \A k \in n .. Len(es) : es[k] \in Entry
      BY <1>1
    <2> QED
      BY <1>1, <2>1, SubSeqProperties
  <1> HIDE DEF a, b
  <1>4. /\ ll \in Seq(Entry)
        /\ Len(ll) = Len(a) + Len(b)
        /\ \A k \in 1 .. Len(a) + Len(b) :
             ll[k] = IF k <= Len(a) THEN a[k] ELSE b[k - Len(a)]
    BY <1>2, <1>3, ConcatProperties
  <1> HIDE DEF ll
  <1>5. Len(ll) = t + Len(es) - n + 1 /\ Len(ll) \in Nat /\ Len(ll) >= 1
    BY <1>1, <1>2, <1>3, <1>4
  <1>6. ASSUME NEW k \in Nat, k \in 1 .. Len(ll)
        PROVE  ll[k].Index = d + k - 1
    <2>1. CASE k <= t
      <3>1. ll[k] = l[k] /\ k \in 1 .. Len(l)
        <4>1. k \in 1 .. t /\ k \in 1 .. Len(l)
          BY <1>1, <1>5, <1>6, <2>1
        <4>2. k \in 1 .. Len(a) + Len(b) /\ k <= Len(a)
          BY <1>2, <1>4, <1>6, <2>1
        <4> QED
          BY <1>2, <1>4, <4>1, <4>2
      <3>2. l[k].Index = l[1].Index + k - 1
        BY <3>1 DEF WellFormed
      <3> QED
        BY <3>1, <3>2 DEF dummyIndex
    <2>2. CASE k > t
      <3> DEFINE q == k - t
      <3>1. q \in 1 .. Len(es) - n + 1 /\ q \in Nat /\ n + q - 1 \in 1 .. Len(es)
        BY <1>1, <1>5, <1>6, <2>2
      <3>2. ll[k] = b[q]
        BY <1>1, <1>2, <1>3, <1>4, <1>5, <1>6, <2>2
      <3>3. ll[k].Index = d + t - n + (n + q - 1)
        BY <1>3, <3>1, <3>2
      <3>4. d + t - n + (n + q - 1) = d + k - 1
        BY <1>1, <3>1
      <3> QED
        BY <3>3, <3>4
    <2> QED
      BY <2>1, <2>2
  <1>7. ll[1] = l[1]
    BY <1>1, <1>2, <1>4, <1>5
  <1>8. dummyIndex(ll) = dummyIndex(l)
    BY <1>7 DEF dummyIndex
  <1>9. ll[1].Index = d
    BY <1>7 DEF dummyIndex
  <1>10. \A k \in 1 .. Len(ll) : ll[k].Index = ll[1].Index + k - 1
    BY <1>5, <1>6, <1>9
  <1>11. ll[1].Index = 0 => ll[1].Term = 0
    BY <1>7 DEF WellFormed
  <1>12. WellFormed(ll)
    BY <1>4, <1>5, <1>10, <1>11 DEF WellFormed
  <1>13. lastIndex(ll) = d + Len(ll) - 1
    BY <1>8, <1>12, LastIndexValue
  <1>14. lastIndex(ll) = d + t - n + Len(es)
    BY <1>1, <1>5, <1>13
  <1> QED
    BY <1>8, <1>12, <1>14 DEF ll, a, b

(***************************************************************************)
(* The loop of HandleAppendEntries keeps the log well formed: it cuts the  *)
(* log at an index the log holds, or just after it, and what it appends    *)
(* continues there.  Afterwards the log reaches the end of the request.    *)
(***************************************************************************)
LEMMA AppendFromWellFormed ==
    ASSUME NEW l, WellFormed(l), NEW prev \in dummyIndex(l) .. lastIndex(l),
           NEW es \in Seq(Entry), \A k \in 1 .. Len(es) : es[k].Index = prev + k
    PROVE  /\ WellFormed(appendFrom(l, es))
           /\ dummyIndex(appendFrom(l, es)) = dummyIndex(l)
           /\ lastIndex(appendFrom(l, es)) >= prev + Len(es)
  <1> DEFINE new == {k \in 1 .. Len(es) : differs(l, es[k])}
             d == dummyIndex(l)
  <1>1. /\ d \in Nat /\ prev \in Nat /\ Len(es) \in Nat /\ Len(l) \in Nat \ {0}
        /\ lastIndex(l) = d + Len(l) - 1
        /\ d <= prev
        /\ prev <= lastIndex(l)
    BY LastIndexValue DEF WellFormed
  <1>2. \A k \in 1 .. Len(es) : k \notin new => prev + k <= lastIndex(l)
    <2> SUFFICES ASSUME NEW k \in 1 .. Len(es), k \notin new
                 PROVE  prev + k <= lastIndex(l)
      OBVIOUS
    <2>1. ~differs(l, es[k])
      OBVIOUS
    <2>2. es[k].Index = prev + k /\ k \in Nat
      BY <1>1
    <2>3. ~(prev + k - d >= Len(l))
      BY <1>1, <2>1, <2>2 DEF differs, convertIndex
    <2> QED
      BY <1>1, <2>2, <2>3
  <1>3. CASE new = {}
    <2>1. appendFrom(l, es) = l
      BY <1>3 DEF appendFrom
    <2>2. prev + Len(es) <= lastIndex(l)
      BY <1>1, <1>2, <1>3
    <2> QED
      BY <1>1, <2>1, <2>2
  <1>4. CASE new # {}
    <2> DEFINE n == Min(new)
               t == prev + n - d
    <2>1. new \in SUBSET Nat
      <3>1. \A k \in new : k \in 1 .. Len(es)
        OBVIOUS
      <3> QED
        BY <1>1, <3>1
    <2>2. n \in 1 .. Len(es) /\ \A k \in new : n <= k
      BY <1>4, <2>1, MinOfNats
    <2>3. appendFrom(l, es) = trunc(l, es[n].Index) \o SubSeq(es, n, Len(es))
      BY <1>4 DEF appendFrom
    <2> HIDE DEF n, new
    <2>4. n \in Nat /\ (n # 1 => (n - 1 \in 1 .. Len(es) /\ n - 1 \notin new))
      BY <1>1, <2>2
    <2>5. t \in Nat /\ t \in 1 .. Len(l)
      BY <1>1, <1>2, <2>2, <2>4
    <2>6. trunc(l, es[n].Index) = SubSeq(l, 1, t)
      <3>1. es[n].Index = prev + n
        BY <2>2
      <3> QED
        BY <1>1, <2>4, <3>1 DEF trunc, convertIndex
    <2>7. d + t - n = prev
      BY <1>1, <2>4
    <2>8. \A k \in 1 .. Len(es) : es[k].Index = d + t - n + k
      BY <1>1, <2>4
    <2> HIDE DEF t
    <2> DEFINE ll == SubSeq(l, 1, t) \o SubSeq(es, n, Len(es))
    <2>9. /\ WellFormed(ll)
          /\ dummyIndex(ll) = dummyIndex(l)
          /\ lastIndex(ll) = d + t - n + Len(es)
      BY <1>1, <2>2, <2>4, <2>5, <2>8, SpliceWellFormed, SMTT(30)
    <2>10. appendFrom(l, es) = ll
      BY <2>3, <2>6
    <2>11. d + t - n + Len(es) = prev + Len(es)
      BY <1>1, <2>4, <2>7
    <2> HIDE DEF ll
    <2> QED
      BY <1>1, <2>9, <2>10, <2>11
  <1> QED
    BY <1>3, <1>4
=============================================================================
