SPECIFICATION Spec
CONSTANTS
  t1 = t1
  t2 = t2
  name = name
  own = own
  a = a
  b = b
  c = c
  Trace <- MCTrace
  Score <- MCScore
  TraceKey <- MCTraceKey
  OwnKey <- MCOwnKey
  Value <- MCValue
  Drafts <- MCDrafts
INVARIANT WireComplete
INVARIANT NothingLost
PROPERTY ImplementsAtomicSpool
