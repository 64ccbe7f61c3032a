\* One student, with or without a Workspace account, two requests at a time and
\* three in all, the delete job, one failure or crash, one change by hand at Google.
SPECIFICATION FairSpec
CONSTANTS
  Users = {u1}
  LeagueUsers = {u1}
  NoUser = NoUser
  Handlers = {h1, h2}
  Scheduler = Scheduler
  Ops = {"provisionWorkspace", "provisionClaude", "suspend", "unsuspend", "remove", "bulk", "syncWorkspace", "syncClaude"}
  Delay = 1
  MaxAccount = 4
  MaxInvite = 3
  MaxNow = 1
  MaxOps = 3
  MaxFails = 1
  MaxDrift = 1
INVARIANTS TypeOK WorkspaceAgrees SeatOnRecord PendingIsInvited
PROPERTIES DeletedAfterGrace SyncRepairs RemovedIsErased
CHECK_DEADLOCK FALSE
