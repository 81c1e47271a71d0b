SPECIFICATION FairSpec
CONSTANTS
  serial = serial
  http = http
  song = song
  tune = tune
  Serial = serial
  Http = http
  Clients = {serial, http}
  Names = {song, tune}
  MaxSize = 2
  MaxUploads = 3
  MaxCrashes = 1
  Faults = TRUE
INVARIANTS
  AnswersHold
  NoStrayTemp
PROPERTIES
  WholeFilesOnly
  HttpUploadEnds
