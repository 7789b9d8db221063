SPECIFICATION Spec
CONSTANTS
  MaxLen = 5
  RleMin = 3
  EofOffset = 12
  Zero <- MCZero
  Error = Error
  OldRegions <- MCOldRegions
  JumpTableCpu = 48
  NewBaseFile = 11
  NewBaseCpu = 61
  WindowEnd = 69
  Reach = 4
  PreludeOldCpu = 81
  PreludeBytes <- MCPrelude
  SkipRanges <- MCSkip
  SecondaryOldFile = 5
  SecondaryNewFile = 10
  SecondaryNewCpu = 50
  SecondaryLen = 1
  NmiHookNewFile = 23
  NmiHookNewCpu = 83
  NmiVectorFile = 25
  NmiDrainCpu = 41
  MainHookFile = 20
  MainHookCpu = 42
  SecondaryHookFile = 24
  FixedPokes <- MCPokes
  Vanilla <- MCVanilla
  Paths = {"a", "b", "c"}
  Picks = {"a", "b"}
  Starts <- MCStarts
  GuiOut <- MCGuiOut
  CliOut <- MCCliOut
  Magic <- MCMagic
  MinRom = 4
  None = None
INVARIANTS TypeOK SameControlFlow ReadyRomPatched
PROPERTIES WritesAreOverlays BuiltOnce
CHECK_DEADLOCK FALSE
