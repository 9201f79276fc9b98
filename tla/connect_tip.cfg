CONSTANTS
  Txid <- MCTxid
  Out <- MCOut
  Label <- MCLabel
  Genesis = "g"
  Parent <- MCParent
  Height <- MCHeight
  BlockTxs <- MCBlockTxs
  Offers <- MCOffers
  Overpaying <- MCOverpaying
  Check <- MCCheck
  Bad <- MCBad
  Worker = {w1}
  Master = m
  nBatchSize = 2
  Read = {"c1"}
SPECIFICATION FairSpec
INVARIANTS CoinsAreTheChains NeverCorrupt VerdictsRight VerdictExact Drained
PROPERTIES ActsAsUtxoSet BlockEnds
