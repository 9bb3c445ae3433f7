SPECIFICATION AppSpec
CONSTANTS
  Stores <- MCStores
  Keys <- MCKeys
  Events <- DomainEvents
  NoWrite = NoWrite
  NoOp = NoOp
  Overlap = TRUE
  Absent = Absent
  MaxJournal = 3
  RepoKeys = {r1}
  TeamKeys = {}
  OrgKeys = {}
  Versions = {1, 2}
INVARIANTS
  AppTypeOK
  ProjectionSurvivesRestart
  LiveOrGone
  CacheExact
  DetachFollowsLive
PROPERTIES
  NothingAcknowledgedIsLost
  NoDowngrade
