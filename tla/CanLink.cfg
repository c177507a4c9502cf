SPECIFICATION SetupSpec
CONSTANTS
  tool = tool
  imu = imu
  None = None
  Junk = Junk
  ImuBitrate = 1
  Client <- MCClient
  MaxLeak <- MCMaxLeak
  Calls <- MCCalls
  Runs <- MCRuns
  Bittiming <- MCBittiming
  RestartMs <- MCRestartMs
  Drivers <- MCDrivers
CHECK_DEADLOCK FALSE
INVARIANTS
  FdsBalanced
  InitConfigured
PROPERTIES
  ImplementsRegister
