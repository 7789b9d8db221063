SPECIFICATION Spec
CONSTANTS
  x = x
  y = y
  Order <- TwoAddrs
  OrAddrs = {}
  HighAddrs = {x}
  DeltaAddrs = {y}
  HeartAddrs = {}
  Bombs = {y}
  MapAddrs = {}
  Masked = {}
  Bits = {1, 2}
  Mask = {1}
  MaxHigh = 2
  MaxCount = 2
  Players = {p1, p2}
  Writers = {p1, p2}
  Forced = {p1, p2}
  Glitchy = {p1}
  Edn8 = {}
  ResyncLimit = 1
  PauseTicks = 2
  Faults = FALSE
  MaxMoves = 1
  MaxCuts = 0
  MaxFrames = 1
  None = None
INVARIANTS TypeOK Converged GarbageStaysLocal
CHECK_DEADLOCK FALSE
