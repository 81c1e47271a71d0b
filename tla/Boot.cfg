SPECIFICATION FairSpec
CONSTANTS
  Seconds <- MCSeconds
  None = None
  Stray = Stray
  MaxRequests = 2
  MaxFaults = 3
INVARIANTS
  ToneAsAsked
PROPERTIES
  AskedIsDone
  BootCompletes
