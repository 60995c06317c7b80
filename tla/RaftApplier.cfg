SPECIFICATION FairSpec
CONSTANTS
  MaxIndex = 5
  MaxRestarts = 1
  Capacity = 1
INVARIANT AppliedInOrder
INVARIANT SliceInLog
PROPERTY CommittedIsApplied
\* Once everything is committed and applied, the peer waits.
CHECK_DEADLOCK FALSE
