\* One client, a server here, dialled directly or behind a cluster address with
\* one elsewhere; two processes of the daemon.
SPECIFICATION Spec
CONSTANTS
  a = a
  b = b
  x = x
  v = v
  Here <- MCHere
  Away <- MCAway
  Dialled <- MCDialled
  Clients <- MCClients
  Shapeable <- MCShapeable
  NoAddr = NoAddr
  NoSocket = NoSocket
  MaxStack = 1
  NoFile = NoFile
  Base = Base
  Kubedtn = Kubedtn
  MaxLives = 2
INVARIANTS
  TypeOK
  ServingInstalled
  ShapedLeavesBypass
  RedirectsToPeer
