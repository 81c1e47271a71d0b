SPECIFICATION FairSpec
CONSTANTS
  c1 = c1
  c2 = c2
  once = once
  song = song
  live = live
  r1 = r1
  r2 = r2
  Clients = {c1, c2}
  Automatic = {}
  Sources <- MCSources
  Commands <- LoopCommands
  Rates = {r1}
  QueueLength = 3
  CounterMod = 2
  MaxCalls = 2
  MaxChunks = 1
PROPERTIES
  StopOrNewFileEndsLoop
