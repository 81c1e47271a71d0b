SPECIFICATION Spec
CONSTANTS
  Rates = {115200, 921600}
  BootRate = 115200
  None = None
  Uart = TRUE
  MaxRequests = 3
PROPERTIES
  ChangeTakesEffect
