SPECIFICATION Spec
CONSTANTS
  Users = {u1}
  NoUser = NoUser
  MaxTokenId = 1
  MaxNow = 2
  MonthLength = 2
  Budgets = {2}
  Requests = {r1}
  Admins = {}
  GrantBudgets = {2}
  LegacyRows = FALSE
  DefaultBudget = 2
  MaxCost = 1
  TokenCounts = {1}
  TokenLimit = 1
  Retention = 2
  Expiries = {2}
  MaxCalls = 2
  MaxEdits = 0
INVARIANT SpendRecomputable
CHECK_DEADLOCK FALSE
