CONSTANTS
  Kits <- MCKits
  Editions <- MCEditions
  Plans <- MCPlans
  Pythons = {"ok", "missing"}
  Level = {1, 2}
  Secrets = {"LLM_API_KEY", "LANGFUSE_SECRET_KEY"}
SPECIFICATION MCSpec
INVARIANT MigrationBlocks
CHECK_DEADLOCK FALSE
