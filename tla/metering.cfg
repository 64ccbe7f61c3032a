\* One token, two calls at a time, one budget change, the prune job: two whole months of
\* two ticks each, and a retention as short as the assumption allows.
SPECIFICATION Spec
CONSTANTS
  Users = {u1}
  NoUser = NoUser
  MaxTokenId = 1
  MaxNow = 3
  MonthLength = 2
  Budgets = {1, 2}
  Requests = {r1, r2}
  Admins = {a1}
  GrantBudgets = {1}
  LegacyRows = TRUE
  DefaultBudget = 2
  MaxCost = 1
  TokenCounts = {1}
  TokenLimit = 1
  Retention = 2
  Expiries = {2}
  MaxCalls = 3
  MaxEdits = 1
SYMMETRY Symmetry
INVARIANTS TypeOK BudgetOvershootBounded ReportedSpendIsLogged TotalsCoverLog
PROPERTIES MeterSpec SpendErasedOnlyByNewPeriod RefusedInCurrentPeriod
CHECK_DEADLOCK FALSE
