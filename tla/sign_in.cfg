\* One address of each kind, three providers, three requests in all, and two of an
\* overlap of two requests, a failing statement or a crash.
SPECIFICATION Spec
CONSTANTS
  Emails = {"staff", "student"}
  StaffEmails = {"staff"}
  AdminEmails = {"staff"}
  Identities <- People
  MaxConcurrent = 2
  Ops = {"signIn", "link", "unlink", "signUp", "import", "sync", "approve", "deny", "delete", "merge", "manualMerge", "decide"}
  MaxUser = 4
  MaxOps = 3
  MaxMishaps = 2
INVARIANTS TypeOK RemovedStaysOut MergedHoldsNothing KeepsALogin SignInHeals
PROPERTIES DecisionFinal
CHECK_DEADLOCK FALSE
