CONSTANTS
  OutputRate = 6
  LowRate = 1
  HighRate = 12
  ConversionFrames = 4
  Faults = TRUE
  Capacity = 12
  Threshold = 9
  Keep = 2
  BufferSamples = 6
  BlockBytes = 12
  PlayedRates = {4, 6, 9}
  SizeLimit = 128
  Mp3Files <- SomeMp3Files
  WavFiles <- SomeWavFiles
  Mp3Rates = {1, 4, 6, 9, 12}
  FrameSamples = 2
  MaxPasses = 2
SPECIFICATION FairSpec
INVARIANTS
  TypeOK
  PlayedWhole
  KeepsTime
  BufferFits
PROPERTY PassEnds
