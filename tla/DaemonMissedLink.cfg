\* Two pods started at the same time on two nodes.
SPECIFICATION Spec
CONSTANTS
  n1 = n1
  n2 = n2
  p1 = p1
  p2 = p2
  l1 = l1
  l2 = l2
  l3 = l3
  host = host
  Pods = {p1, p2}
  Nodes = {n1, n2}
  NoNode = NoNode
  Links = {l1}
  LinksOf <- OneLink
  PeerOf <- OnePeer
  Phys = {host}
  Localhost = Localhost
  Synced = TRUE
  RetrySteps = 1
  Faulty = {}
  Lossy = FALSE
  NodesOf <- AnyNode
  MaxStarts <- OneStart
  KeepLast = TRUE
  MaxTouches = 0
  MaxCtl = 0
INVARIANTS
  LastUpPlumbs
