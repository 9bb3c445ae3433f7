SPECIFICATION FairSpec
CONSTANTS
  RepoKeys = {1, 2}
  TeamKeys = {}
  OrgKeys = {org}
  Versions = {"Observed", "Failed"}
  Absent = Absent
  NoReport = NoReport
  NoInventory = NoInventory
  MaxCaptures = 3
  MaxRuns = 1
  MaxEvents = 1
  Public = {1}
  Configs <- MCDefaultConfig
CHECK_DEADLOCK FALSE
PROPERTIES
  RemovedRepoLeavesReport
