SPECIFICATION Spec
CONSTANTS
    Server = {s1, s2}
    Value = {v1, v2}
    MaxIndex = 4
    MaxInstances = 2
    Tests <- RaftTests
    SnapShotInterval = 2
    None = None
    nil = nil
SYMMETRY Symmetry
INVARIANT NoFalseAlarm
INVARIANT DisagreementReported
\* The test ends with an apply error, and the log with MaxIndex.
CHECK_DEADLOCK FALSE
