SPECIFICATION FairSpec
CONSTANTS
  serial = serial
  http = http
  main = main
  Updaters = {serial, http}
  Main = main
  Requests <- SomeRequests
  Faults = TRUE
  MaxUpdates = 3
  MaxCrashes = 2
INVARIANTS
  AcknowledgedSurvives
  NothingOlderThanAcknowledged
  MirrorShowsCommitted
  DeadZoneBelowTrigger
  MirrorFollows
PROPERTIES
  UpdatesAnswered
