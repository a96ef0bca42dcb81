SPECIFICATION Spec
CONSTANTS
  heartbeat = heartbeat
  recovery = recovery
  Others <- Nothing
  Bounded <- Nothing
  Policies <- MigratePolicy
  Jobs <- OneJob
  NativeName <- SameName
INVARIANT StopLeavesNoScheduler
CHECK_DEADLOCK FALSE
