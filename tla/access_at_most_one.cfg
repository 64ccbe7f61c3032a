\* Two grants of one user overlap.
SPECIFICATION Spec
CONSTANTS
  Users = {u1}
  NoUser = NoUser
  MaxTokenId = 3
  MaxNow = 0
  MonthLength = 2
  Budgets = {1}
  Handlers = {h1, h2}
  Ops = {"grant"}
  EligibleUsers = {}
  Ttls = {1}
  AutoTtl = 2
  DefaultBudget = 1
  TokenLimit = 1
  LegacyTokens = {}
  MaxOps = 2
  MaxCrashes = 0
  MaxFails = 0
INVARIANT AtMostOneActive
CHECK_DEADLOCK FALSE
