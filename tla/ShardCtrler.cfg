SPECIFICATION FairSpec
CONSTANTS
  c1 = c1
  c2 = c2
  Client = {c1, c2}
  NServers = 2
  Workloads <- TestWorkloads
  QueryNums = {1}
  MaxFaults = 1
INVARIANT ConfigsFollowLog
INVARIANT JoinReturnsDone
INVARIANT QueryFresh
PROPERTY CommandReturns
\* When the clerks have issued all their commands, nothing is left to do.
CHECK_DEADLOCK FALSE
