CONSTANTS
  Kits <- MCKits
  Editions <- MCEditions
  Plans <- MCPlans
  Pythons = {"ok", "missing"}
  Level = {1, 2}
  Secrets = {"LLM_API_KEY", "LANGFUSE_SECRET_KEY"}
SPECIFICATION MCSpec
INVARIANTS GreenIsEarned SecretsLentBack LintedRolesResolve AdvisesExactly
CHECK_DEADLOCK FALSE
