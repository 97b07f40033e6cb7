\* A running pod and two edits in a row.
SPECIFICATION Spec
CONSTANTS
  eth1 = eth1
  eth2 = eth2
  idA = idA
  idB = idB
  none = none
  slow = slow
  Intfs = {eth1, eth2}
  Ids = {idA, idB}
  Tunnels = {idB}
  Props = {none, slow}
  NoLink = NoLink
  Nil = Nil
  NoProp = none
  First <- Start
  Specs <- Edited
  RetrySteps = 2
  Running = TRUE
  MaxEdits = 2
  MaxFails = 0
  MaxTouches = 0
INVARIANT
  DesiredState
