SPECIFICATION FairSpec
CONSTANTS
  x = x
  y = y
  Order <- TwoAddrs
  OrAddrs = {x, y}
  HighAddrs = {}
  DeltaAddrs = {}
  HeartAddrs = {}
  Bombs = {}
  MapAddrs = {x, y}
  Masked = {y}
  Bits = {1, 2}
  Mask = {1}
  MaxHigh = 1
  MaxCount = 1
  Players = {p1, p2}
  Writers = {p1}
  Forced = {p1}
  Glitchy = {}
  Edn8 = {p1, p2}
  ResyncLimit = 1
  PauseTicks = 2
  Faults = FALSE
  MaxMoves = 1
  MaxCuts = 0
  MaxFrames = 9
  None = None
INVARIANT Converged
PROPERTY EventuallySame
CHECK_DEADLOCK FALSE
