SPECIFICATION FairSpec
CONSTANTS
  RepoKeys = {1}
  TeamKeys = {}
  OrgKeys = {org}
  Versions = {"Observed", "Failed"}
  Absent = Absent
  NoReport = NoReport
  NoInventory = NoInventory
  MaxCaptures = 3
  MaxRuns = 2
  MaxEvents = 0
  Public = {1}
  Configs <- MCDefaultConfig
CHECK_DEADLOCK FALSE
INVARIANTS
  FlushedAtBarrier
  BarrierBound
PROPERTIES
  ReportKeepsItsPromise
  JoinEnds
