SPECIFICATION FairSpec
CONSTANTS
  g = g
  b1 = b1
  b2 = b2
  b3 = b3
  f1 = f1
  f2 = f2
  f3 = f3
  NoBlock = NoBlock
  Genesis = g
  Block <- ShortBlock
  Parent <- ShortParent
  Height <- ShortHeight
  Path <- ShortPath
  KnownAtStart <- AllHeaders
  Invalid <- NoBlocks
  Snapshot <- GoodAndBad
  Attested <- NoBlocks
  DevActivation = TRUE
  Rpc = {r1}
  Net = net
  Main = main
  Engine = "leveldb"
  PruneMode = FALSE
  KeepDepth = 1
  RpcBatch = {3}
  AutoBatch = 1
  FlushEvery = 2
PROPERTY StopCompletes
PROPERTY FailureStops
PROPERTY StoredHistorySettles
