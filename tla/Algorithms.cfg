\* Two interfaces, identities and values of the properties; widths of 16 and 12
\* bits, and bases of 10 and 16 for 1000 and 1024, so that numbers with every
\* prefix lie on both sides of the widths; packets larger than an Ethernet frame.
SPECIFICATION Spec
CONSTANTS
  Intfs = {eth1, eth2}
  Ids = {a, b}
  Tunnels = {b}
  Props = {slow, fast}
  NoLink = NoLink
  MaxLen = 2
  U64 = 65536
  U32 = 4096
  SIBase = 10
  IECBase = 16
  VxlanBase = 50
  KernelHZ = 5
  MinBurst = 500
  Numbers = {0, 1, 7, 8, 15, 16, 100, 1000, 4096, 65535, 65536}
  PacketLens = {1505, 3000}
INVARIANTS
  DiffBringsAbout
  DiffKeeps
  RatesKept
  TimesKept
  VnisDistinct
  FramesDecoded
CHECK_DEADLOCK FALSE
