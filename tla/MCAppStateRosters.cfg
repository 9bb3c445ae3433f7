SPECIFICATION AppSpec
CONSTANTS
  Stores <- MCStores
  Keys <- MCKeys
  Events <- DomainEvents
  NoWrite = NoWrite
  NoOp = NoOp
  Overlap = FALSE
  Absent = Absent
  MaxJournal = 2
  RepoKeys = {}
  TeamKeys = {t1}
  OrgKeys = {org}
  Versions = {1}
INVARIANT
  RostersSurviveRestart
