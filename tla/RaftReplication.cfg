SPECIFICATION Spec
CONSTANTS
  Server = {s1, s2, s3}
  Value = {v1}
  Nil = Nil
  MaxTerm = 1
  MaxIndex = 2
  MaxRestarts = 0
  MaxInFlight = 2
  SnapshotIndices = {1}
SYMMETRY Symmetry
INVARIANT IndexInv
INVARIANT CommitInLog
INVARIANT MatchIndexSound
INVARIANT CommittedOnMajority
PROPERTY CommitMonotone
\* The bounds on terms and entries stop every peer in the end.
CHECK_DEADLOCK FALSE
