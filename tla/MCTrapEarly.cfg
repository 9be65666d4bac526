SPECIFICATION Spec
CONSTANTS
  Calls <- SmallCalls
  FirmwareHcr <- HcrValues
  Tags = {1, 2}
  Mapped <- ReadableBytes
  STACK_SIZE = 880
  HANDLER_STACK = 32
  MAX_WRITE = 3
  U64_MAX = 255
  ENTRY = 100
  USER_SP = 200
  MaxConsole = 4
INVARIANTS
  VectorsInstalledInTime
