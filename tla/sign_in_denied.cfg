\* Three requests, one after another: a sign-in, a permanent denial, a Workspace sync.
SPECIFICATION Spec
CONSTANTS
  Emails = {"staff", "student"}
  StaffEmails = {"staff"}
  AdminEmails = {"staff"}
  Identities <- People
  MaxConcurrent = 1
  Ops = {"signIn", "deny", "sync"}
  MaxUser = 2
  MaxOps = 3
  MaxMishaps = 0
INVARIANT DeniedGetsNoSession
CHECK_DEADLOCK FALSE
