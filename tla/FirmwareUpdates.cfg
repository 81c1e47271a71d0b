SPECIFICATION Spec
CONSTANTS
  pc = pc
  phone = phone
  factory = factory
  Pc = pc
  Phone = phone
  Hosts = {pc, phone}
  Size <- MCSize
  Window = 2
  MaxAttempts <- MCAttempts
  MaxMishaps = 1
  Factory <- MCFactory
  Images <- MCImages
  Broken = broken
INVARIANTS
  TypeOK
  AlwaysBootable
  AnswersFitRequest
PROPERTIES
  CalmUpdateSucceeds
  UpdatedMeansMine
