SPECIFICATION Spec
CONSTANTS
  s1 = s1
  s2 = s2
  s3 = s3
  c1 = c1
  i1 = i1
  i2 = i2
  Torn = Torn
  Span <- MCSpan
  Score <- MCScore
  Recipes <- MCRecipes
  Importer <- TwoImporters
  ChunkSize = 2
  MaxRetries = 2
  Faults <- AllFaults
  MaxJobs = 3
CHECK_DEADLOCK FALSE
SYMMETRY Interchangeable
INVARIANT ChunkOrder
PROPERTY CompleteOnSuccess
