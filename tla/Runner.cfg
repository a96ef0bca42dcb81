SPECIFICATION FairSpec
CONSTANTS
  Integrations = 2
  Hooks = 3
  ServerHook = 2
INVARIANTS
  TypeOK
  ReleasedLast
  NoEarlyWork
  DependenciesOutliveWork
  ServeFailureFails
  FirstRequestDecides
PROPERTIES
  StopReturns
  ImplementsService
CHECK_DEADLOCK FALSE
