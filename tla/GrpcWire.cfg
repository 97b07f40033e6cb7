SPECIFICATION FairSpec
CONSTANTS
  p1 = p1
  p2 = p2
  NetNs <- MCPods
  Pods <- MCPods
  PodOf <- MCPodOf
  Uids = {1}
  Callers = {c1, c2}
  MaxIfs = 2
  MaxIndex = 2
  MaxThreads = 2
  MaxRestarts = 1
INVARIANTS  NothingOrphaned RemovalTellsTruth
PROPERTY StoppedReceiversEnd
CHECK_DEADLOCK FALSE
