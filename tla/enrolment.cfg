\* Two groups and one cohort, two users of whom one can be there from the start, two names,
\* two phrases; every operation, two requests that may overlap or one failure, one tick.
SPECIFICATION Spec
CONSTANTS
  Groups = {g1, g2}
  Cohorts = {c1}
  Users = {u1, u2}
  Students = {u1}
  LeagueUsers = {u1}
  FirstUsers = {u1}
  NoScope = NoScope
  NoUser = NoUser
  Names = {n1, n2}
  Phrases = {p1, p2}
  Ttl = 1
  MaxAttempts = 2
  Handlers = {h1, h2}
  Ops = {"issue", "revoke", "group", "rename", "dropGroup", "add", "remove", "cohort", "toGroup", "syncGroups", "syncUser", "unseen", "delete", "merge", "reenter", "signUp", "login"}
  MaxNow = 1
  MaxOps = 2
  MaxMishaps = 1
SYMMETRY Symmetry
INVARIANTS TypeOK OneScopePerPhrase MemberAdmitted
CHECK_DEADLOCK FALSE
