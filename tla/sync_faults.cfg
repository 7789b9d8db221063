SPECIFICATION Spec
CONSTANTS
  x = x
  y = y
  Order <- OneAddr
  OrAddrs = {x}
  HighAddrs = {}
  DeltaAddrs = {}
  HeartAddrs = {}
  Bombs = {}
  MapAddrs = {x}
  Masked = {}
  Bits = {1, 2}
  Mask = {1}
  MaxHigh = 1
  MaxCount = 1
  Players = {p1, p2}
  Writers = {p1, p2}
  Forced = {p1, p2}
  Glitchy = {}
  Edn8 = {p2}
  ResyncLimit = 1
  PauseTicks = 2
  Faults = TRUE
  MaxMoves = 1
  MaxCuts = 1
  MaxFrames = 9
  None = None
INVARIANT CacheHonest
CHECK_DEADLOCK FALSE
