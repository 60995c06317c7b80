\* Both peers compact their logs.
SPECIFICATION FairSpec
CONSTANTS
    Value = {}
    Nil = Nil
    MaxIndex = 3
    MaxHeartbeats = 1
PROPERTY StuckOnlyBehindSnapshot
