SPECIFICATION FairSpec
CONSTANTS
  Sendings <- MCSendings
  LineMax = 2
  StreamSize = 3
  BatchSize = 2
  QueueLength = 1
  FifoSize = 1
  AnswerSize = 2
INVARIANTS
  TypeOK
  DamageConfined
PROPERTIES
  UartServed
