SPECIFICATION HandlerSpec
CONSTANTS
  ByteBits = 2
  JumpBits = 4
  Registers = {0, 1, 2, 3}
  RA = 3
  SM_BASE = 64
  SM_BYTES = 8
  ROM_BASE = 192
  ROM_BYTES = 32
  MMIO_BASE = 128
  MMIO_BYTES = 8
  IM_GLOBAL = 1
  IM_TIMER = 128
  IM_POSSIBLE = 240
  Fetched <- Handlers
  Devices = {3, 200}
  RegisterValues <- Values
  Causes = {16, 128}
  Fields <- Structure
  ISR_VECTOR = 200
  RETURN = 240
  MAX_STEPS = 4
  MaxCount = 1
INVARIANT SameAsHardware
PROPERTY InterruptEnds
CHECK_DEADLOCK FALSE
