SPECIFICATION AppSpec
CONSTANTS
  Stores <- MCStores
  Keys <- MCKeys
  Events <- DomainEvents
  NoWrite = NoWrite
  NoOp = NoOp
  Overlap = FALSE
  Absent = Absent
  MaxJournal = 3
  RepoKeys = {}
  TeamKeys = {t1, t2}
  OrgKeys = {org}
  Versions = {1}
INVARIANTS
  OpenMeansSettled
  ProjectionSurvivesRestart
  PrimaryLeads
  DetachFollowsLive
PROPERTIES
  NoDowngrade
  StoreSpec
SYMMETRY TeamSymmetry
