SPECIFICATION Spec
CONSTANTS
  h = h
  s = s
  tx1 = tx1
  tx2 = tx2
  Peer = {h, s}
  TxPeer = {h, s}
  NoPeer = NoPeer
  Preferred = {s}
  Outbound = {s}
  Top = 4
  Base = 1
  Window = 3
  MaxInTransit = 2
  Ahead = 1
  Ibd = TRUE
  Tx = {tx1}
  Priority <- MCPriority
  MaxAnnounce = 1
  MaxRequests = 1
  Delay = 1
  Expiry = 1
  Honest = {h}
  MaxBack = 0
CHECK_DEADLOCK FALSE
INVARIANT InFlightBounded
