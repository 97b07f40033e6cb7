\* A new object and its pod, edits at any time, a failed call and a conflict.
SPECIFICATION FairSpec
CONSTANTS
  eth1 = eth1
  eth2 = eth2
  idA = idA
  idB = idB
  none = none
  slow = slow
  Intfs = {eth1, eth2}
  Ids = {idA, idB}
  Tunnels = {idB}
  Props = {none, slow}
  NoLink = NoLink
  Nil = Nil
  NoProp = none
  First <- Start
  Specs <- Edited
  RetrySteps = 2
  Running = FALSE
  MaxEdits = 2
  MaxFails = 1
  MaxTouches = 1
INVARIANTS
  TypeOK
  DesiredUnlessRisked
  RestsRecorded
PROPERTY
  ComesToRest
