SPECIFICATION Spec
CONSTANTS
  Conns = {c1, c2, c3}
  PeerIds = {p1, p2}
  Codes = {k1, k2}
  MaxPairs = 1
  Payload = {"data"}
  MaxSends = 1
  None = None
SYMMETRY Symmetry
INVARIANTS NoCrossTalk WithinCapacity
CHECK_DEADLOCK FALSE
