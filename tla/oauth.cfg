\* Two requests at a time, of eight kinds.
SPECIFICATION FairSpec
CONSTANTS
  MaxConcurrent = 2
  Users = {u1}
  Clients = {c1, c2}
  s1 = s1
  s2 = s2
  Scopes = {s1, s2}
  ScopeSets <- AskedScopes
  NoUser = NoUser
  NoClient = NoClient
  CodeTtl = 1
  RefreshTtl = 1
  Ops = {"authorize", "consent", "exchange", "client", "refresh", "disable", "delete", "update"}
  MaxCodes = 4
  MaxRefresh = 3
  MaxNow = 1
  MaxOps = 4
  MaxMishaps = 1
INVARIANTS TypeOK ScopesConsented CodeYieldsOneSet TokensFollowCode UsableBounded
PROPERTIES RequestsEnd
CHECK_DEADLOCK FALSE
