SPECIFICATION FairSpec
CONSTANTS
  c1 = c1
  c2 = c2
  once = once
  song = song
  live = live
  r1 = r1
  r2 = r2
  Clients = {c1, c2}
  Automatic = {c2}
  Sources <- MCSources
  Commands <- AllCommands
  Rates = {r1, r2}
  QueueLength = 1
  CounterMod = 3
  MaxCalls = 2
  MaxChunks = 2
INVARIANTS
  NoPhantomPending
  StatusMatchesService
  BoundedTail
  FirstPassRate
  RadioEndsByStop
PROPERTIES
  StopEndsService
