SPECIFICATION Spec
CONSTANTS
  Client = {c1, c2}
  NServers = 2
  Key = {k}
  MaxRetries = 1
  Tests <- GenericTests
SYMMETRY Symmetry
INVARIANT ServerHoldsPrefix
INVARIANT NotifyNeverBlocks
INVARIANT NoChannelLeaks
PROPERTY Linearizable
\* When the clerks have issued all their commands, nothing is left to do.
CHECK_DEADLOCK FALSE
