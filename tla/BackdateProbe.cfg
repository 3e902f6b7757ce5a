SPECIFICATION Spec
CONSTANTS
  PageSize = 1
  Run <- Probes
  LateRun <- OneProbe
  Ago = 1
  n1 = n1
  n2 = n2
  Nonce = {n1, n2}
  Attempts = 2
  MaxPolls = 2
  MaxPages = 3
  Overlap = FALSE
INVARIANTS
  VerdictAboutHost
  VerdictEarned
  ReadComplete
PROPERTIES
  ProbeEnds
CHECK_DEADLOCK FALSE
