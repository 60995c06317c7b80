SPECIFICATION Spec
CONSTANTS
  NShards = 10
  GID = {1, 2, 3}
  MaxConfigs = 4
INVARIANT EvenAfterReAlloc
PROPERTY MinimalTransfer
\* The bound on configurations stops the controller.
CHECK_DEADLOCK FALSE
