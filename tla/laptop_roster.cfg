\* Two names, two requests and the hourly job, and two of an overlap, a failing call or
\* statement, and a crash.
SPECIFICATION FairSpec
CONSTANTS
  Names = {"ada", "bob"}
  MaxConcurrent = 2
  Ops <- EveryOp
  MaxUser = 3
  MaxOps = 2
  MaxMishaps = 2
INVARIANTS TypeOK RosterAgrees NoTakeover PushAllRepairs
PROPERTIES DirtyIsRetried
CHECK_DEADLOCK FALSE
