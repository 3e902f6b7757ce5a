SPECIFICATION MCSpec
CONSTANTS
  q1 = q1
  q2 = q2
  Request = {q1, q2}
  Caller = {q1, q2}
  l1 = l1
  l2 = l2
  SkillList = {l1, l2}
  Health <- MCHealth
  Deadline = 5
  Timeout = 2
  Parts = 2
  p1 = p1
  p2 = p2
  Publisher = {p1, p2}
  Bundle = {"b1", "b2"}
  Label = {"prod", "beta"}
  Asks <- MCAsks
  MaxVersions = 3
  Policies <- MCPolicies
  Arrivals <- MCArrivals
  Bridge <- MCBridge
  Plans <- MCPlans
SYMMETRY Twins
INVARIANTS
  DeliveredOnReturn
  SkillsOnOwnSpan
  PublishedAsAsked
  NoNeedlessVersion
  FailClosed
CHECK_DEADLOCK FALSE
