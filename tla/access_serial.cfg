\* Two users, one handler at a time: every operation, a crash and a restart,
\* expiry of tokens, a merge.
SPECIFICATION Spec
CONSTANTS
  Users = {u1, u2}
  NoUser = NoUser
  MaxTokenId = 7
  MaxNow = 1
  MonthLength = 2
  Budgets = {1}
  Handlers = {h1}
  Ops = {"grant", "revoke", "bulkGrant", "bulkRevoke", "issue", "rotate", "permit", "deactivate", "merge"}
  EligibleUsers = {}
  Ttls = {1}
  AutoTtl = 2
  DefaultBudget = 1
  TokenLimit = 1
  LegacyTokens = {1}
  MaxOps = 3
  MaxCrashes = 1
  MaxFails = 0
SYMMETRY Symmetry
INVARIANTS TypeOK AtMostOneActive FlagFollowsToken
PROPERTIES RotateReplaces
CHECK_DEADLOCK FALSE
