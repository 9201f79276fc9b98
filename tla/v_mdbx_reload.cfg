SPECIFICATION Spec
CONSTANTS
  g = g
  b1 = b1
  b2 = b2
  b3 = b3
  f1 = f1
  f2 = f2
  f3 = f3
  NoBlock = NoBlock
  Genesis = g
  Block <- LineBlock
  Parent <- LineParent
  Height <- LineHeight
  Path <- LinePath
  KnownAtStart <- AllHeaders
  Invalid <- NoBlocks
  Snapshot <- GoodAndBad
  Attested <- NoBlocks
  DevActivation = TRUE
  Rpc = {r1}
  Net = net
  Main = main
  Engine = "mdbx"
  PruneMode = FALSE
  KeepDepth = 1
  RpcBatch = {}
  AutoBatch = 1
  FlushEvery = 2
INVARIANT ValidatedIsProven
