SPECIFICATION FairSpec
CONSTANTS
  Repos = {k1, k2}
  MaxRuns = 2
  MaxExternal = 1
  QueueCapacity = 2
  External = External
  NoRun = NoRun
CHECK_DEADLOCK FALSE
PROPERTIES
  FencedRunIsSilent
