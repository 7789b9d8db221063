SPECIFICATION Spec
CONSTANTS
  x = x
  y = y
  Order <- OneAddr
  OrAddrs = {}
  HighAddrs = {}
  DeltaAddrs = {}
  HeartAddrs = {x}
  Bombs = {}
  MapAddrs = {}
  Masked = {}
  Bits = {1, 2}
  Mask = {1}
  MaxHigh = 1
  MaxCount = 2
  Players = {p1, p2}
  Writers = {p1}
  Forced = {p1, p2}
  Glitchy = {}
  Edn8 = {}
  ResyncLimit = 1
  PauseTicks = 2
  Faults = FALSE
  MaxMoves = 1
  MaxCuts = 0
  MaxFrames = 1
  None = None
INVARIANT HeartsFit
CHECK_DEADLOCK FALSE
