SPECIFICATION FairSpec
CONSTANTS
  t1 = t1
  t2 = t2
  none = none
  m1 = m1
  id = id
  speech = speech
  chat = chat
  Nobody = Nobody
  Thread = {t1, t2}
  Request <- MCRequest
  Default = none
  Resolve <- MCResolve
  Role <- MCRole
  NativeRole <- MCNativeRole
  Unkeyed = {}
  NativePrimary = TRUE
  CustomTracer = TRUE
  PrimaryRequired = TRUE
  Offered <- MCOffered
  MaxCalls <- MCMaxCalls
INVARIANT OneClientPerKey
INVARIANT ReadinessHonest
PROPERTY CallsEnd
