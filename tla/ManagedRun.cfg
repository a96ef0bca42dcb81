SPECIFICATION ManagedSpec
CONSTANTS
  start = start
  stop = stop
  updater = updater
  a = a
  b = b
  noProc = noProc
  NoProc = noProc
  Starter = start
  Stopper = stop
  Initial = a
  Replacers <- Calls
  Stoppers <- OneStopper
  Deadlined <- OneStopper
  Configs <- TwoConfigs
  Address <- OwnAddress
  ForceClose <- Forced
  MaxDraining = 1
  MaxGenerations = 2
  Visited = {1}
  Faulty = {1}
  Upgrading = {1}
INVARIANT EndpointStays
PROPERTIES
  ImplementsService
  FailureEndsRun
CHECK_DEADLOCK FALSE
