SPECIFICATION Spec
CONSTANTS
  Clients = {c1, c2}
  ram1 = ram1
  ram2 = ram2
  Addrs = {ram1, ram2}
  Rom = rom
  Vals = {0, 1}
  Reads <- MCReads
  Writes <- MCWrites
  Slots = 2
  WordVals = 1
  MaxSeq = 2
  MaxOps = 3
  MaxTimeouts = 1
  MaxEvents = 1
  Mem = {1, 2}
  Bytes = {0, 2, 32, 165}
  ReadCalls <- MCReadCalls
  WriteCalls <- MCWriteCalls
  MaxMid = 255
  FirstMids = {31, 254}
  MaxCalls = 3
  MaxLate = 1
  MaxNoise = 1
SYMMETRY Symmetry
INVARIANTS TypeOK ArrivedIsFound
PROPERTIES SnapshotFresh AckedApplied OnlyAsked AnswersMatch
CHECK_DEADLOCK FALSE
