SPECIFICATION FairSpec
CONSTANTS
  Cluster = {c1, c2}
  Source = c1
  Target = c2
  Old = {c1}
  Expired = {c2}
  HasVelero = {c2}
  Registry = {c2}
  Limits = {1, 2}
  MaxGen = 2
  MaxChanges = 2
  Instance = {i1, i2}
  MaxRev = 2
  Parts = {"fleet", "config", "group", "memory"}
  Field <- MCField
  Allowed <- MCAllowed
  Startup <- MCStartup
  Specs <- MCSpecs
  Sync = {ds}
  Schedules = {"", "hourly", "daily", "unreadable"}
  BadSchedules = {"unreadable"}
  MaxUpsets = 3
INVARIANTS
  InstalledMeansAccepted
  LimitHolds
  ReadyMeansApplied
  DeletedMeansUninstalled
  GroupStatusCurrent
  JobsFollowSpecs
PROPERTIES
  FleetSettles
  ConfigSettles
  RuntimeCurrent
CHECK_DEADLOCK FALSE
