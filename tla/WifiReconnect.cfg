SPECIFICATION FairSpec

CONSTANTS
  home = home
  one = one
  two = two
  None = None
  Song = Song
  Nets = {home}
  Urls = {one, two}
  Configs <- Choices
  FirstConfig <- Boot
  QueueLength = 2
  MaxChanges = 2
  MaxCalls = 1
  MaxFaults = 1

INVARIANTS
  FlagsFollowDriver

PROPERTIES
  Rejoins
  OldStationEnds
  RadioComesBack
