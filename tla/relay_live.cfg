SPECIFICATION FairSpec
CONSTANTS
  Conns = {c1, c2, c3}
  PeerIds = {p1, p2}
  Codes = {k1}
  MaxPairs = 1
  Payload = {}
  MaxSends = 0
  None = None
PROPERTY SlotFreed
CHECK_DEADLOCK FALSE
