SPECIFICATION FairSpec
CONSTANTS
  NoCommit = NoCommit
  Commit = {c1, c2}
  Rungs = 2
  MaxRuns = 2
  MaxPolls = 2
  Faults = {"kill", "lost", "garbled", "misrouted", "moved", "disk"}
INVARIANT HandoffEarned
INVARIANT ExitBacked
PROPERTY ReceiptPinned
PROPERTY NoUnaskedRun
PROPERTY InvocationEnds
