\* Two handlers at a time on one user, with a crash and a restart: what is left
\* of the promises when handlers overlap.
SPECIFICATION Spec
CONSTANTS
  Users = {u1}
  NoUser = NoUser
  MaxTokenId = 6
  MaxNow = 1
  MonthLength = 2
  Budgets = {1}
  Handlers = {h1, h2}
  Ops = {"grant", "revoke", "bulkGrant", "bulkRevoke", "issue", "rotate", "permit"}
  EligibleUsers = {u1}
  Ttls = {1}
  AutoTtl = 2
  DefaultBudget = 1
  TokenLimit = 1
  LegacyTokens = {1}
  MaxOps = 3
  MaxCrashes = 1
  MaxFails = 1
INVARIANTS ActiveTokensBounded
PROPERTIES ReconcileConverges
CHECK_DEADLOCK FALSE
