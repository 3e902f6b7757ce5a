SPECIFICATION FairSpec
CONSTANTS
  s1 = s1
  s2 = s2
  s3 = s3
  c1 = c1
  i1 = i1
  i2 = i2
  Torn = Torn
  Span <- MCSpan
  Score <- MCScore
  Recipes <- MCRecipes
  Importer <- OneImporter
  ChunkSize = 2
  MaxRetries = 2
  Faults <- CarelessOperator
  MaxJobs = 6
CHECK_DEADLOCK FALSE
INVARIANT RecordedIfPosted
INVARIANT AtMostOncePerSlate
INVARIANT OneCopy
PROPERTY ImplementsImportOnce
PROPERTY ImportEnds
