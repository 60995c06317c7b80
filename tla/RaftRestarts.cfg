SPECIFICATION Spec
CONSTANTS
  Server = {s1, s2, s3}
  Value = {v1}
  Nil = Nil
  MaxTerm = 2
  MaxIndex = 1
  MaxRestarts = 1
  MaxInFlight = 1
  SnapshotIndices = {1}
SYMMETRY Symmetry
INVARIANT ElectionInv
INVARIANT CommittedOnMajority
INVARIANT LeaderCompleteness
INVARIANT TypeOK
INVARIANT ElectionSafety
INVARIANT NextIndexInLog
PROPERTY VoteOncePerTerm
\* The bounds on terms and entries stop every peer in the end.
CHECK_DEADLOCK FALSE
