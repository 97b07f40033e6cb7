\* Two pods on two nodes, with an unreachable API server and peer.
SPECIFICATION FairSpec
CONSTANTS
  n1 = n1
  n2 = n2
  p1 = p1
  p2 = p2
  l1 = l1
  l2 = l2
  l3 = l3
  host = host
  Pods = {p1, p2}
  Nodes = {n1, n2}
  NoNode = NoNode
  Links = {l1}
  LinksOf <- OneLink
  PeerOf <- OnePeer
  Phys = {host}
  Localhost = Localhost
  Synced = TRUE
  RetrySteps = 1
  Faulty = {}
  Lossy = TRUE
  NodesOf <- OwnNode
  MaxStarts <- OneStart
  KeepLast = TRUE
  MaxTouches = 0
  MaxCtl = 0
INVARIANTS
  TypeOK
  HoldersRun
  MissOnce
PROPERTIES
  CallsReturn
  LinkSectionsKept
