SPECIFICATION MCSpec
CONSTANTS
  shared = shared
  f1 = f1
  f2 = f2
  mine = mine
  ours = ours
  Names <- MCNames
  Build <- MCBuild
  Version <- MCVersion
  Shipped <- MCShipped
  Own = {mine, ours}
  i1 = i1
  i2 = i2
  Installer = {i1, i2}
  Tag = {"v1", "v2"}
  Branch = {"main"}
  Checkouts <- MCCheckouts
  r1 = r1
  r2 = r2
  Repinner = {r1, r2}
  Author = author
  New = new
  Spool = {"a", "b"}
  Recipes <- MCRecipes
  Starter <- MCStarter
  o1 = o1
  o2 = o2
  Oracle = {o1, o2}
  Plans <- MCPlans
SYMMETRY Invocations
INVARIANTS
  EditsKept
  StillInstalled
  NeverHalfLands
  OracleHonest
  BornGreen
CHECK_DEADLOCK FALSE
