SPECIFICATION OldTermSpec
CONSTANTS
  s1 = s1
  s2 = s2
  s3 = s3
  v1 = v1
  v2 = v2
  Server = {s1, s2, s3}
  Value = {v1, v2}
  Nil = Nil
  MaxTerm = 4
  MaxIndex = 2
  MaxRestarts = 0
  MaxInFlight = 1
  SnapshotIndices = {1}
INVARIANT LogMatching
INVARIANT StateMachineSafety
PROPERTY Refinement
\* The bounds on terms and entries stop every peer in the end.
CHECK_DEADLOCK FALSE
