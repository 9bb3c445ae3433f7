SPECIFICATION Spec
CONSTANTS
  RepoKeys = {1, 2}
  TeamKeys = {t1}
  OrgKeys = {org}
  Versions = {"Observed", "Failed"}
  Absent = Absent
  NoReport = NoReport
  NoInventory = NoInventory
  MaxCaptures = 3
  MaxRuns = 1
  MaxEvents = 1
  Public = {1}
  Configs <- MCConfigs
CHECK_DEADLOCK FALSE
INVARIANTS
  TypeOK
  TerminalMatchesInventory
  NeverDeletedBlindly
PROPERTIES
  ReportKeepsItsPromise
