SPECIFICATION SensorFairSpec
CONSTANTS
  Luxes <- MCLuxes
  Configs <- MCConfigs
  FirstConfig <- MCFirst
  MaxOthers = 3
INVARIANTS
  OneSongPerExcursion
PROPERTIES
  ReadingRecovers
  DarknessRearms
  LastingLightIsHeard
