SPECIFICATION PipeFairSpec
CONSTANTS
  Conns = {c1, c2, c3}
  PeerIds = {p1, p2}
  Codes = {k1}
  MaxPairs = 1
  Payload = {"hello", "data"}
  MaxSends = 0
  None = None
  MaxBreaks = 1
  MaxTimers = 1
INVARIANTS
  PipeTypeOK
  PartnerResyncs
PROPERTIES
  PairComesUp
CONSTRAINT FirstBridge
CHECK_DEADLOCK FALSE
