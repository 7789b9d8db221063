SPECIFICATION FairSpec
CONSTANTS
  Roms = {r1, r2}
  CliRoms = {None}
  Hosts = {h}
  MaxThreads = 2
  MaxWorkers = 1
  None = None
INVARIANTS TypeOK NoSessionWithoutDeploy DeployedAsShown
PROPERTY ButtonsComeBack
CHECK_DEADLOCK FALSE
