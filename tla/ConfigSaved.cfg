SPECIFICATION AppSpec
CONSTANTS
  serial = serial
  main = main
  Updaters = {serial}
  Main = main
  App = serial
  Entries <- MCEntries
  Requests <- MCRequests
  Faults = FALSE
  MaxUpdates = 2
  MaxCrashes = 0
PROPERTIES
  SavedIsStored
