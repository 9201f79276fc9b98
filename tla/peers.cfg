SPECIFICATION FairSpec
CONSTANTS
  h = h
  s = s
  tx1 = tx1
  tx2 = tx2
  Peer = {h, s}
  TxPeer = {h, s}
  NoPeer = NoPeer
  Preferred = {s}
  Outbound = {s}
  Top = 3
  Base = 1
  Window = 1
  MaxInTransit = 1
  Ahead = 1
  Ibd = TRUE
  Tx = {tx1, tx2}
  Priority <- MCPriority
  MaxAnnounce = 1
  MaxRequests = 1
  Delay = 1
  Expiry = 1
  Honest = {h}
  MaxBack = 1
CHECK_DEADLOCK FALSE
INVARIANT TablesAgree
INVARIANT StallersOwe
INVARIANT SanityCheck
PROPERTY RequestsLast
 
PROPERTY TxArrives
