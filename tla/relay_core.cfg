SPECIFICATION Spec
CONSTANTS
  Conns = {c1, c2, c3}
  PeerIds = {p1, p2, p3}
  Codes = {k1}
  MaxPairs = 2
  Payload = {}
  MaxSends = 0
  None = None
SYMMETRY Symmetry
INVARIANTS TypeOK SessionShape TimerArmed PairHasHandler
PROPERTY ImplementsSlots
CHECK_DEADLOCK FALSE
