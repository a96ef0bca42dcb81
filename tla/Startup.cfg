SPECIFICATION FairSpec
CONSTANTS
  heartbeat = heartbeat
  recovery = recovery
  Others <- OneCondition
  Bounded <- OneCondition
  Policies <- AllPolicies
  Jobs <- OneJob
  NativeName <- SameName
INVARIANTS
  TypeOK
  AdmissionNeedsConditions
  HealthTellsTruth
  StopAfterAdmission
PROPERTIES
  OrderlyStopIsClean
  CallsReturn
CHECK_DEADLOCK FALSE
