SPECIFICATION Spec
CONSTANTS
  ByteSize = 4
  Exor <- XorBits
  START_BYTE = 2
  DEVICE_ID = 1
  BROADCAST_ID = 3
  CMD_READ_ADC = 3
  CMD_READ_TEMP = 2
  Temperatures <- SomeTemperatures
  MaxBytes = 8
INVARIANTS TypeOK FirstValidFrame AnswerDecodes
