SPECIFICATION Spec
CONSTANTS
  unset = unset
  fixed = fixed
  ephemeral = ephemeral
  h1 = h1
  h2 = h2
  c1 = c1
  c2 = c2
  renewed = renewed
  Unset = unset
  NotFound = notFound
  Handlers <- TwoHandlers
  Certificates <- AllCertificates
  ServerConfigs <- WithCertificate
  Ephemeral <- Port0
INVARIANTS
  TypeOK
  ServedIsReported
PROPERTY InheritedReplaceKeeps
CHECK_DEADLOCK FALSE
