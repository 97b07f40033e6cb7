\* One pod with a physical and a macvlan link: SetAlive in all its detail.
SPECIFICATION Spec
CONSTANTS
  n1 = n1
  n2 = n2
  p1 = p1
  p2 = p2
  l1 = l1
  l2 = l2
  l3 = l3
  host = host
  Pods = {p1}
  Nodes = {n1}
  NoNode = NoNode
  Links = {l2, l3}
  LinksOf <- OwnLinks
  PeerOf <- OwnPeers
  Phys = {host}
  Localhost = Localhost
  Synced = FALSE
  RetrySteps = 2
  Faulty = {l2}
  Lossy = TRUE
  NodesOf <- OwnNode
  MaxStarts <- OneStart
  KeepLast = FALSE
  MaxTouches = 1
  MaxCtl = 1
INVARIANTS
  StatusTruthful
  MetricsTrack
