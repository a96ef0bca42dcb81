SPECIFICATION Spec
CONSTANTS
  unset = unset
  fixed = fixed
  ephemeral = ephemeral
  h1 = h1
  h2 = h2
  c1 = c1
  c2 = c2
  renewed = renewed
  Unset = unset
  NotFound = notFound
  Handlers <- TwoHandlers
  Certificates <- AllCertificates
  ServerConfigs <- PlainOnly
  Ephemeral <- Port0
INVARIANT ServesRequestedHandler
CHECK_DEADLOCK FALSE
