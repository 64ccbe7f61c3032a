\* A replay while the chain is being rotated.
SPECIFICATION Spec
CONSTANTS
  MaxConcurrent = 2
  Users = {u1}
  Clients = {c1}
  s1 = s1
  s2 = s2
  Scopes = {s1, s2}
  ScopeSets <- AskedScopes
  NoUser = NoUser
  NoClient = NoClient
  CodeTtl = 1
  RefreshTtl = 1
  Ops = {"consent", "exchange", "refresh"}
  MaxCodes = 1
  MaxRefresh = 3
  MaxNow = 0
  MaxOps = 5
  MaxMishaps = 1
INVARIANT ReplayEndsChain
CHECK_DEADLOCK FALSE
